--------------------------- MODULE GovernanceLoop ---------------------------
(***************************************************************************)
(* The revision loop of `actual plan-check --claude-hook` and              *)
(* `actual impl-check --claude-hook`: the session file both gates share,   *)
(* hook calls that load it, judge for a minute and store it back, the      *)
(* human's `actual check-override`, the turn-start record, and the         *)
(* append-only audit log.                                                  *)
(*                                                                         *)
(* One (session_id, rules_dir) is modelled: every process below works on   *)
(* the same session file.  No lock guards that file.  Each process         *)
(* therefore reads it in one step and replaces it in a later one; Overlap  *)
(* says whether another process may run in between.  SecureFile looks into *)
(* the replacement itself.                                                 *)
(***************************************************************************)
EXTENDS JudgedWindow

CONSTANTS
  NumRules,    \* rules of the corpus; a rule key is its place in the order
  Artifacts,   \* digests of the plan texts and diffs that are submitted
  Applies,     \* Applies[a]: the rules of the documents selected for a
  Heads,       \* commits HEAD can name when a turn starts
  NoValue,     \* the None of the code
  Calls,       \* hook processes
  Requests,    \* what hooks are called with: kind, artifact, session id or not
  OverrideSets, \* the sets of rules a check-override command names
  MaxRounds,   \* --max-rounds
  Overlap,     \* may two processes of one session run at the same time?
  MaxStarts    \* bound: how many processes start in a behaviour

Rules    == 1..NumRules
Kinds    == {"plan", "diff"}
Verdicts == {"conforming", "conflicting", "requires_decision"}

ASSUME LoopAssumption ==
  /\ NumRules \in Nat \ {0}
  /\ Applies \in [Artifacts -> SUBSET Rules]
  /\ NoValue \notin Artifacts \cup Heads
  /\ Requests \subseteq [kind : Kinds, artifact : Artifacts, tracked : BOOLEAN]
  /\ OverrideSets \subseteq (SUBSET Rules) \ {{}}
  /\ MaxRounds \in Nat
  /\ MaxStarts \in Nat
  /\ Overlap \in BOOLEAN

VARIABLES
  session,    \* the session file, EmptySession when there is none
  audit,      \* the audit log, as the set of its entries
  hook,       \* the hook processes
  human,      \* the check-override process
  printed,    \* the last answer a hook printed
  raced,      \* a store under way shared its time with one that is over
  \* history variables: no guard reads them, but for the bound on `started`
  started,    \* processes started so far
  granted,    \* overrides recorded since the session file was last pruned
  blocked,    \* judged rounds in which a rule was in the way, per loop
  denials,    \* denials printed, per loop and rule
  conformed,  \* <<kind, rule, artifact>> some judge found conforming
  rotation    \* per loop: candidates, pinned or not, and how long these have waited

historyVars == <<granted, blocked, denials, conformed, rotation>>
vars == <<session, audit, hook, human, printed, raced, started, historyVars>>

-----------------------------------------------------------------------------
(* The session file.                                                       *)

LoopState == [rounds  : Nat,
              cleared : [Rules -> Artifacts \cup {NoValue}],
              denied  : [Rules -> Nat]]

\* A rule is a key of `deny_counts` exactly when its count is not zero.
EmptyLoop == [rounds  |-> 0,
              cleared |-> [r \in Rules |-> NoValue],
              denied  |-> [r \in Rules |-> 0]]

Session == [overrides : SUBSET Rules,
            loops     : [Kinds -> LoopState],
            turnStart : Heads \cup {NoValue}]

EmptySession == [overrides |-> {},
                 loops     |-> [k \in Kinds |-> EmptyLoop],
                 turnStart |-> NoValue]

Denied(loop) == {r \in Rules : loop.denied[r] > 0}

\* Mutant of Excludes: a clearance counts in both gates.
MutShareClearance(s, kind, r, a) ==
  r \in s.overrides \/ \E k \in Kinds : s.loops[k].cleared[r] = a

\* Mutant of Excludes: overrides are forgotten.
MutIgnoreOverrides(s, kind, r, a) == s.loops[kind].cleared[r] = a

\* Rule r is settled: overridden by a human, or judged conforming in this
\* loop for this very text.
Excludes(s, kind, r, a) ==
  r \in s.overrides \/ s.loops[kind].cleared[r] = a

Candidates(s, kind, a) == {r \in Applies[a] : ~Excludes(s, kind, r, a)}

\* The judge's input: all the candidates, or a window of them.
GatherRules(s, kind, a) ==
  LET candidates == Candidates(s, kind, a)
  IN  IF Cardinality(candidates) <= MaxRulesJudged
        THEN candidates
        ELSE SelectJudgedWindow(candidates, Denied(s.loops[kind]),
                                s.loops[kind].rounds)

-----------------------------------------------------------------------------
(* What the verdicts do to the session in memory.                          *)

\* Mutant of DenyLimitExceeded: lets a rule through one denial early.
MutLimitReached(loop, r) == loop.denied[r] >= MaxRounds

\* Mutant of DenyLimitExceeded: never lets a rule through.
MutNoLimit(loop, r) == FALSE

DenyLimitExceeded(loop, r) == loop.denied[r] > MaxRounds

\* One completed judge call over the rules of `judged` (none when every
\* candidate was settled already: then no judge ran and no round is counted).
JudgedLoop(loop, a, judged, inTheWay) ==
  [rounds  |-> IF judged = {} THEN loop.rounds ELSE loop.rounds + 1,
   cleared |-> [r \in Rules |->
                  IF r \notin judged THEN loop.cleared[r]
                  ELSE IF r \in inTheWay THEN NoValue ELSE a],
   denied  |-> [r \in Rules |->
                  IF r \in inTheWay THEN loop.denied[r] + 1 ELSE loop.denied[r]]]

\* Mutant of RecordVerdicts: the gates share their counts and clearances.
MutShareLoop(s, kind, a, judged, inTheWay) ==
  [s EXCEPT !.loops = [k \in Kinds |-> JudgedLoop(s.loops[k], a, judged, inTheWay)]]

RecordVerdicts(s, kind, a, judged, inTheWay) ==
  [s EXCEPT !.loops[kind] = JudgedLoop(s.loops[kind], a, judged, inTheWay)]

\* The gate fails open only when every rule in the way has spent its own
\* budget; one that has not keeps the whole call denied.
Decide(s, kind, inTheWay) ==
  IF inTheWay = {} THEN "clean"
  ELSE IF \A r \in inTheWay : DenyLimitExceeded(s.loops[kind], r)
    THEN "limit"
    ELSE "deny"

Blocks(verdict) == verdict # "conforming"

-----------------------------------------------------------------------------
(* The processes and what they print.                                      *)

Request == [kind : Kinds, artifact : Artifacts \cup {NoValue}, tracked : BOOLEAN]

\* A hook process.  `mem` is the session it loaded, edited in memory; `window`
\* the rules its judge sees; `blocking` the ones the judge found in the way.
Hook == [pc        : {"idle", "pipeline", "audit_limit", "store", "audit_partial",
                      "answer", "turn"},
         req       : Request,
         mem       : Session,
         window    : SUBSET Rules,
         truncated : BOOLEAN,
         blocking  : SUBSET Rules,
         decision  : {"none", "clean", "limit", "deny"}]

IdleHook == [pc        |-> "idle",
             req       |-> [kind |-> "plan", artifact |-> NoValue, tracked |-> FALSE],
             mem       |-> EmptySession,
             window    |-> {},
             truncated |-> FALSE,
             blocking  |-> {},
             decision  |-> "none"]

\* `todo` are the rules of the command that are not yet pushed and audited.
Human == [pc : {"idle", "recording"}, rules : SUBSET Rules, todo : SUBSET Rules, mem : Session]

IdleHuman == [pc |-> "idle", rules |-> {}, todo |-> {}, mem |-> EmptySession]

Answer == [said      : {"none", "notice", "clean", "limit", "deny"},
           truncated : BOOLEAN,
           notes     : SUBSET {"partial", "override"}]

Notice == [said |-> "notice", truncated |-> FALSE, notes |-> {}]

PerRule(value) == [k \in Kinds |-> [r \in Rules |-> value]]

FreshRotation ==
  [k \in Kinds |-> [pinned |-> {}, rest |-> {}, waited |-> [r \in Rules |-> 0]]]

Init ==
  /\ session = EmptySession
  /\ audit = {}
  /\ hook = [c \in Calls |-> IdleHook]
  /\ human = IdleHuman
  /\ printed = [Notice EXCEPT !.said = "none"]
  /\ raced = FALSE
  /\ started = 0
  /\ granted = {}
  /\ blocked = PerRule(0)
  /\ denials = PerRule(0)
  /\ conformed = {}
  /\ rotation = FreshRotation

AllIdle == human.pc = "idle" /\ \A c \in Calls : hook[c].pc = "idle"

MayStart == started < MaxStarts /\ (Overlap \/ AllIdle)

-----------------------------------------------------------------------------
(* The hook.                                                               *)

\* Load the session (an envelope without a session id loads nothing) and
\* gather the rules that are left to judge.
StartHook(c, r) ==
  LET s == IF r.tracked THEN session ELSE EmptySession
  IN  /\ MayStart
      /\ hook[c].pc = "idle"
      /\ hook' = [hook EXCEPT ![c] =
           [IdleHook EXCEPT
              !.pc = "pipeline",
              !.req = r,
              !.mem = s,
              !.window = GatherRules(s, r.kind, r.artifact),
              !.truncated = Cardinality(Candidates(s, r.kind, r.artifact)) > MaxRulesJudged]]
      /\ started' = started + 1
      /\ UNCHANGED <<session, raced, audit, human, printed, historyVars>>

\* No rule applies, no runner, an unreadable rules directory, a judge that
\* failed or ran out of time: a notice, and nothing is stored.
FailOpen(c) ==
  /\ hook[c].pc = "pipeline"
  /\ hook' = [hook EXCEPT ![c] = IdleHook]
  /\ printed' = Notice
  /\ UNCHANGED <<session, raced, audit, human, started, historyVars>>

\* The judge answered for every rule of the window (or every applicable rule
\* was settled: then the window is empty and no judge ran).  Only a tracked
\* call keeps counts and has a round limit.
Judged(c) ==
  /\ hook[c].pc = "pipeline"
  /\ Applies[hook[c].req.artifact] # {}
  /\ \E verdict \in [hook[c].window -> Verdicts] :
       LET h        == hook[c]
           inTheWay == {r \in h.window : Blocks(verdict[r])}
           s        == IF h.req.tracked
                         THEN RecordVerdicts(h.mem, h.req.kind, h.req.artifact,
                                             h.window, inTheWay)
                         ELSE h.mem
           answer   == IF h.req.tracked THEN Decide(s, h.req.kind, inTheWay)
                       ELSE IF inTheWay = {} THEN "clean" ELSE "deny"
       IN  /\ hook' = [hook EXCEPT ![c] =
                [h EXCEPT !.mem = s,
                          !.blocking = inTheWay,
                          !.decision = answer,
                          !.pc = IF ~h.req.tracked THEN "answer"
                                 ELSE IF answer = "limit" THEN "audit_limit"
                                 ELSE "store"]]
           /\ blocked' = IF ~h.req.tracked THEN blocked
                ELSE [blocked EXCEPT ![h.req.kind] =
                        [r \in Rules |-> IF r \in inTheWay THEN @[r] + 1 ELSE @[r]]]
           /\ conformed' = conformed \cup
                {<<h.req.kind, r, h.req.artifact>> : r \in h.window \ inTheWay}
  /\ UNCHANGED <<session, raced, audit, human, printed, started, granted, denials, rotation>>

RoundOf(h) == h.mem.loops[h.req.kind].rounds

LimitEntries(h) ==
  {[type |-> "round_limit", kind |-> h.req.kind, round |-> RoundOf(h), rule |-> r] :
     r \in h.blocking}

PartialEntry(h) == [type |-> "partial_coverage", kind |-> h.req.kind, round |-> RoundOf(h)]

OverrideEntry(r) == [type |-> "override", rule |-> r]

RecordRoundLimit(c) ==
  /\ hook[c].pc = "audit_limit"
  /\ audit' = audit \cup LimitEntries(hook[c])
  /\ hook' = [hook EXCEPT ![c].pc = "store"]
  /\ UNCHANGED <<session, raced, human, printed, started, historyVars>>

Storing == {c \in Calls : hook[c].pc \in {"store", "turn"}}

HumanStoring == human.pc = "recording" /\ human.todo = {}

OthersStore(c) == HumanStoring \/ Storing \ {c} # {}

\* What the session file holds after a store of mem.  Stores that race share
\* one staging file: a rename can find nothing to move, and its error is
\* swallowed, or it moves what the other one is still writing, which nobody
\* can parse; so it goes for the first of them and for the last.  An unreadable
\* file loads as the empty session.
StoreOutcomes(mem, racing) ==
  IF racing THEN {mem, session, EmptySession} ELSE {mem}

StoreOf(c, mem) ==
  /\ session' \in StoreOutcomes(mem, raced \/ OthersStore(c))
  /\ raced' = OthersStore(c)

\* History: how long each unpinned candidate of h's loop has been left out of
\* the window since the candidates, or the pinned ones, last changed.
Waited(h) ==
  LET candidates == Candidates(session, h.req.kind, h.req.artifact)
      denied     == Denied(session.loops[h.req.kind])
      pinned     == candidates \cap denied
      rest       == candidates \ denied
      was        == rotation[h.req.kind]
  IN  [pinned |-> pinned,
       rest   |-> rest,
       waited |-> [r \in Rules |->
          IF r \notin rest \/ r \in h.window THEN 0
          ELSE IF rest = was.rest /\ pinned = was.pinned THEN was.waited[r] + 1
          ELSE 1]]

\* Mutant of StoreSession: a window that was not all is never put on record.
MutForgetPartial(c) ==
  LET h == hook[c]
  IN  /\ h.pc = "store"
      /\ StoreOf(c, h.mem)
      /\ hook' = [hook EXCEPT ![c].pc = "answer"]
      /\ rotation' = rotation
      /\ UNCHANGED <<audit, human, printed, started, granted, blocked, denials, conformed>>

StoreSession(c) ==
  LET h == hook[c]
  IN  /\ h.pc = "store"
      /\ StoreOf(c, h.mem)
      /\ hook' = [hook EXCEPT ![c].pc =
            IF h.decision = "clean" /\ h.truncated THEN "audit_partial" ELSE "answer"]
      /\ rotation' = IF h.window = {} THEN rotation
                     ELSE [rotation EXCEPT ![h.req.kind] = Waited(h)]
      /\ UNCHANGED <<audit, human, printed, started, granted, blocked, denials, conformed>>

RecordPartialCoverage(c) ==
  /\ hook[c].pc = "audit_partial"
  /\ audit' = audit \cup {PartialEntry(hook[c])}
  /\ hook' = [hook EXCEPT ![c].pc = "answer"]
  /\ UNCHANGED <<session, raced, human, printed, started, historyVars>>

\* The notes that go with an answer: a deny and a clean pass say how much was
\* judged, the round-limit notice does not; each of the three repeats the
\* overrides of the session in memory.
NotesOf(h) ==
  {n \in {"partial", "override"} :
     \/ n = "partial" /\ h.truncated /\ h.decision # "limit"
     \/ n = "override" /\ h.mem.overrides # {}}

PrintAnswer(c) ==
  LET h == hook[c]
  IN  /\ h.pc = "answer"
      /\ printed' = [said |-> h.decision, truncated |-> h.truncated, notes |-> NotesOf(h)]
      /\ denials' = IF h.decision = "deny" /\ h.req.tracked
            THEN [denials EXCEPT ![h.req.kind] =
                    [r \in Rules |-> IF r \in h.blocking THEN @[r] + 1 ELSE @[r]]]
            ELSE denials
      /\ hook' = [hook EXCEPT ![c] = IdleHook]
      /\ UNCHANGED <<session, raced, audit, human, started, granted, blocked, conformed, rotation>>

\* Claude Code kills a hook that outlasts its timeout, wherever it is.
Kill(c) ==
  /\ hook[c].pc # "idle"
  /\ hook' = [hook EXCEPT ![c] = IdleHook]
  /\ raced' = IF c \in Storing THEN OthersStore(c) ELSE raced
  /\ UNCHANGED <<session, audit, human, printed, started, historyVars>>

\* impl-check on a UserPromptSubmit envelope: load, and store HEAD when it is
\* not the commit already recorded.
StartTurn(c) ==
  /\ MayStart
  /\ hook[c].pc = "idle"
  /\ hook' = [hook EXCEPT ![c] = [IdleHook EXCEPT !.pc = "turn", !.mem = session]]
  /\ started' = started + 1
  /\ UNCHANGED <<session, raced, audit, human, printed, historyVars>>

RecordTurnStart(c, head) ==
  /\ hook[c].pc = "turn"
  /\ IF hook[c].mem.turnStart = head
       THEN session' = session /\ raced' = (raced /\ OthersStore(c))
       ELSE StoreOf(c, [hook[c].mem EXCEPT !.turnStart = head])
  /\ hook' = [hook EXCEPT ![c] = IdleHook]
  /\ UNCHANGED <<audit, human, printed, started, granted, blocked, denials, conformed,
                 rotation>>

-----------------------------------------------------------------------------
(* check-override: every rule it names is in the corpus (a command naming   *)
(* an unknown one is refused before it reads the session).                  *)

\* Mutant of StartOverride: stores the overrides first, audits them later.
MutStoreFirst(rules) ==
  /\ MayStart
  /\ human.pc = "idle"
  /\ session' = [session EXCEPT !.overrides = @ \cup rules]
  /\ human' = [pc |-> "recording", rules |-> rules, todo |-> rules, mem |-> session']
  /\ started' = started + 1
  /\ UNCHANGED <<audit, hook, printed, raced, historyVars>>

StartOverride(rules) ==
  /\ MayStart
  /\ human.pc = "idle"
  /\ human' = [pc |-> "recording", rules |-> rules, todo |-> rules, mem |-> session]
  /\ started' = started + 1
  /\ UNCHANGED <<session, raced, audit, hook, printed, historyVars>>

PushOverride(r) ==
  /\ human.pc = "recording"
  /\ r \in human.todo
  /\ human' = [human EXCEPT !.todo = @ \ {r}, !.mem.overrides = @ \cup {r}]
  /\ audit' = audit \cup {OverrideEntry(r)}
  /\ UNCHANGED <<session, raced, hook, printed, started, historyVars>>

StoreOverride ==
  /\ HumanStoring
  /\ session' \in StoreOutcomes(human.mem, raced \/ Storing # {})
  /\ raced' = (Storing # {})
  /\ granted' = granted \cup human.rules
  /\ human' = IdleHuman
  /\ UNCHANGED <<audit, hook, printed, started, blocked, denials, conformed, rotation>>

KillOverride ==
  /\ human.pc = "recording"
  /\ human' = IdleHuman
  /\ raced' = IF HumanStoring THEN Storing # {} ELSE raced
  /\ UNCHANGED <<session, audit, hook, printed, started, historyVars>>

\* A session file nobody stored for seven days is removed by the next store of
\* any session.  No process of this session lives that long.
PruneStale ==
  /\ AllIdle
  /\ session # EmptySession
  /\ session' = EmptySession
  /\ granted' = {}
  /\ denials' = PerRule(0)
  /\ rotation' = FreshRotation
  /\ UNCHANGED <<audit, hook, human, printed, raced, started, blocked, conformed>>

HookStep(c) ==
  \/ \E r \in Requests : StartHook(c, r)
  \/ FailOpen(c)
  \/ Judged(c)
  \/ RecordRoundLimit(c)
  \/ StoreSession(c)
  \/ RecordPartialCoverage(c)
  \/ PrintAnswer(c)
  \/ Kill(c)
  \/ StartTurn(c)
  \/ \E head \in Heads \cup {NoValue} : RecordTurnStart(c, head)

HumanStep ==
  \/ \E rules \in OverrideSets : StartOverride(rules)
  \/ \E r \in Rules : PushOverride(r)
  \/ StoreOverride
  \/ KillOverride

Next == HumanStep \/ PruneStale \/ \E c \in Calls : HookStep(c)

Spec == Init /\ [][Next]_vars

-----------------------------------------------------------------------------
(* Properties that hold whether or not processes overlap.                  *)

\* Type invariant of the whole state.
TypeOK ==
  /\ session \in Session
  /\ hook \in [Calls -> Hook]
  /\ human \in Human
  /\ printed \in Answer
  /\ raced \in BOOLEAN
  /\ started \in 0..MaxStarts
  /\ granted \in SUBSET Rules
  /\ blocked \in [Kinds -> [Rules -> Nat]]
  /\ denials \in [Kinds -> [Rules -> Nat]]

\* The gate stops blocking on a rule only after MaxRounds earlier rounds of the
\* same gate found that very rule in the way: neither another rule's denials,
\* nor the other gate's, nor a lost or repeated store can spend its budget.
LimitPassEarned ==
  \A c \in Calls : hook[c].decision = "limit" =>
    \A r \in hook[c].blocking : blocked[hook[c].req.kind][r] > MaxRounds

\* No pass is silent.  Before the answer is printed, a round-limit pass has its
\* entry in the audit log for every rule it lets through, and a clean pass that
\* judged only a window of the rules has one that says so.
PassAudited ==
  \A c \in Calls : (hook[c].pc = "answer" /\ hook[c].req.tracked) =>
    /\ hook[c].decision = "limit" => LimitEntries(hook[c]) \subseteq audit
    /\ (hook[c].decision = "clean" /\ hook[c].truncated) => PartialEntry(hook[c]) \in audit

\* A clean pass over the full set of rules is a fact about this very text: each
\* rule that applies was found conforming by a judge of this gate reading this
\* text, or a human's override of it is in the audit log.
CleanPassJustified ==
  \A c \in Calls : (hook[c].decision = "clean" /\ ~hook[c].truncated) =>
    \A r \in Applies[hook[c].req.artifact] :
      \/ <<hook[c].req.kind, r, hook[c].req.artifact>> \in conformed
      \/ OverrideEntry(r) \in audit

\* No override takes effect unrecorded: one found in the session file is in the
\* audit log, even when check-override was killed half way.
OverrideAudited == \A r \in session.overrides : OverrideEntry(r) \in audit

-----------------------------------------------------------------------------
(* Properties of a session whose processes run one at a time.              *)

\* "This rule will not be re-checked for this session": a hook that starts after
\* an override was recorded never hands that rule to its judge.
OverrideHonoured ==
  [][\A c \in Calls :
       (hook[c].pc = "idle" /\ hook'[c].pc = "pipeline" /\ hook'[c].req.tracked)
         => hook'[c].window \cap granted = {}]_vars

\* A denial is printed only while one of the rules it names has been denied
\* fewer than MaxRounds times in this loop: an agent that keeps failing the
\* same rules is let through in the end.
BudgetedDeny ==
  [][\A c \in Calls :
       (PrintAnswer(c) /\ hook[c].req.tracked /\ hook[c].decision = "deny")
         => \E r \in hook[c].blocking : denials[hook[c].req.kind][r] < MaxRounds]_vars

\* While the candidates and the pinned rules stay the same, the rotation hands
\* every unpinned candidate to the judge within one turn of the window.
NoRuleStarves ==
  \A k \in Kinds : Cardinality(rotation[k].pinned) < MaxRulesJudged =>
    \A r \in rotation[k].rest :
      rotation[k].waited[r] <= LongestWait(rotation[k].rest, rotation[k].pinned)

Ledger == INSTANCE GovernanceLedger WITH
  overrides <- session.overrides,
  rounds    <- [k \in Kinds |-> session.loops[k].rounds],
  cleared   <- [k \in Kinds |-> session.loops[k].cleared],
  denied    <- [k \in Kinds |-> session.loops[k].denied],
  turnStart <- session.turnStart

\* The session file behaves like a memory updated in one step: no process
\* undoes what another one recorded, in its own loop or in the other gate's.
AtomicSession == Ledger!Spec

-----------------------------------------------------------------------------
(* The inductive invariant behind the first group of properties: every copy *)
(* of the session, in the file or in a process, claims no more than the     *)
(* histories and the audit log can support.  Lost stores only lose claims.  *)

\* What s says is supported by the rounds b, the verdicts f and the log log.
Supported(s, b, f, log) ==
  /\ \A k \in Kinds, r \in Rules : s.loops[k].denied[r] <= b[k][r]
  /\ \A k \in Kinds, r \in Rules :
       s.loops[k].cleared[r] # NoValue => <<k, r, s.loops[k].cleared[r]>> \in f
  /\ \A r \in s.overrides : OverrideEntry(r) \in log

\* What a hook process h knows at each of its steps.
HookOK(h, b, f, log) ==
  LET kind     == h.req.kind
      artifact == h.req.artifact
  IN  /\ Supported(h.mem, b, f, log)
      /\ h.pc \in {"idle", "pipeline", "turn"} => h.decision = "none"
      /\ h.pc = "audit_partial" => h.decision = "clean"
      /\ h.pc \notin {"idle", "turn"} => artifact \in Artifacts
      /\ (h.pc = "pipeline" /\ ~h.truncated) =>
           \A r \in Applies[artifact] : r \in h.window \/ Excludes(h.mem, kind, r, artifact)
      /\ h.decision = "limit" => \A r \in h.blocking : b[kind][r] > MaxRounds
      /\ (h.decision = "clean" /\ ~h.truncated) =>
           \A r \in Applies[artifact] :
             <<kind, r, artifact>> \in f \/ OverrideEntry(r) \in log
      /\ (h.decision = "limit" /\ h.req.tracked /\ h.pc \in {"store", "answer"}) =>
           LimitEntries(h) \subseteq log
      /\ (h.decision = "clean" /\ h.req.tracked /\ h.pc = "answer" /\ h.truncated) =>
           PartialEntry(h) \in log

Evidence ==
  /\ Supported(session, blocked, conformed, audit)
  /\ Supported(human.mem, blocked, conformed, audit)
  /\ \A c \in Calls : HookOK(hook[c], blocked, conformed, audit)

IInv == TypeOK /\ Evidence

-----------------------------------------------------------------------------
(* The inductive invariant behind the second group: without overlap the one *)
(* process that runs works on what the session file still holds.            *)

\* One process at a time.
Alone ==
  /\ human.pc = "recording" => \A c \in Calls : hook[c].pc = "idle"
  /\ \A c \in Calls : hook[c].pc # "idle" =>
       human.pc = "idle" /\ \A d \in Calls \ {c} : hook[d].pc = "idle"

\* A rule that is recorded as overridden and not stored yet is one of the command's.
HumanIsFresh ==
  human.pc = "recording" =>
    /\ human.todo \subseteq human.rules
    /\ human.mem = [session EXCEPT !.overrides = @ \cup (human.rules \ human.todo)]

\* A tracked hook holds what is in the file s, once it has judged with its
\* verdicts added, and it judged only what that file does not settle.
HookIsFresh(h, s) ==
  /\ h.pc = "turn" => h.mem = s
  /\ h.pc = "pipeline" /\ h.req.tracked => h.mem = s
  /\ h.pc \in {"pipeline", "audit_limit", "store"} /\ h.req.tracked =>
       h.window \subseteq Candidates(s, h.req.kind, h.req.artifact)
  /\ h.pc \in {"audit_limit", "store"} =>
       /\ h.req.tracked /\ h.blocking \subseteq h.window
       /\ h.mem = RecordVerdicts(s, h.req.kind, h.req.artifact, h.window, h.blocking)
  /\ h.pc = "audit_limit" => h.decision = "limit"

\* A denial about to be printed is counted in the file s beyond those printed, d,
\* and names a rule with budget left.
DenialIsCounted(h, s, d) ==
  /\ h.pc = "store" /\ h.decision = "deny" =>
       \E r \in h.blocking : h.mem.loops[h.req.kind].denied[r] <= MaxRounds
  /\ h.pc = "answer" /\ h.decision = "deny" /\ h.req.tracked =>
       /\ \A r \in h.blocking : d[h.req.kind][r] < s.loops[h.req.kind].denied[r]
       /\ \E r \in h.blocking : s.loops[h.req.kind].denied[r] <= MaxRounds

SerialInv ==
  /\ IInv
  /\ Alone
  /\ HumanIsFresh
  /\ \A c \in Calls : HookIsFresh(hook[c], session) /\ DenialIsCounted(hook[c], session, denials)
  /\ \A k \in Kinds, r \in Rules : denials[k][r] <= session.loops[k].denied[r]
  /\ granted \subseteq session.overrides
  /\ ~raced

\* A hook that has not stored yet judges what the file s says it must.
WindowIsFresh(h, s) ==
  h.pc \in {"pipeline", "audit_limit", "store"} /\ h.req.tracked =>
    h.window = GatherRules(s, h.req.kind, h.req.artifact)

\* The rounds that counted as waiting are the last ones of the loop, and the
\* window of each of them missed the rule.
WaitIsCounted(rot, rounds) ==
  /\ rot.pinned \in SUBSET Rules /\ rot.rest \in SUBSET Rules
  /\ rot.waited \in [Rules -> Nat]
  /\ Cardinality(rot.pinned) < MaxRulesJudged =>
       \A r \in rot.rest : \A i \in 1..rot.waited[r] :
         i <= rounds /\ r \notin Rotated(rot.rest, rounds - i, Remaining(rot.pinned))

RotationInv ==
  /\ SerialInv
  /\ \A c \in Calls : WindowIsFresh(hook[c], session)
  /\ rotation \in [Kinds -> [pinned : SUBSET Rules, rest : SUBSET Rules, waited : [Rules -> Nat]]]
  /\ \A k \in Kinds : WaitIsCounted(rotation[k], session.loops[k].rounds)
=============================================================================
