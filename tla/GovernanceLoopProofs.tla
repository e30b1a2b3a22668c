------------------------ MODULE GovernanceLoopProofs ------------------------
(***************************************************************************)
(* Proofs about the revision loop, for any number of rules, artifacts,     *)
(* processes, rounds and starts, and for both values of Overlap unless a   *)
(* theorem says otherwise.                                                 *)
(***************************************************************************)
EXTENDS GovernanceLoop, FiniteSetTheorems, TLAPS

-----------------------------------------------------------------------------
(* Lemmas about the operators.                                             *)

\* The empty session is a session.
LEMMA EmptySessionType == EmptySession \in Session
  BY DEF EmptySession, EmptyLoop, Session, LoopState, Kinds

\* Whatever the session says, the judge is handed only rules that the artifact
\* selects and the session does not settle.
LEMMA GatherSubset ==
  ASSUME NEW s \in Session, NEW kind \in Kinds, NEW a \in Artifacts
  PROVE  GatherRules(s, kind, a) \subseteq Candidates(s, kind, a)
  BY DEF GatherRules, SelectJudgedWindow, Prefix, Rotated

\* There are finitely many rules, so the sets of rules have a size.
LEMMA RulesAreFinite ==
  ASSUME NEW S \in SUBSET Rules
  PROVE  IsFiniteSet(S) /\ Cardinality(S) \in Nat
<1>1. IsFiniteSet(1..NumRules)
  BY LoopAssumption, FS_Interval
<1>2. IsFiniteSet(S)
  BY <1>1, FS_Subset DEF Rules
<1> QED
  BY <1>2, FS_CardinalityType

\* When the cap does not bite, it is handed all of them.
LEMMA GatherAll ==
  ASSUME NEW s \in Session, NEW kind \in Kinds, NEW a \in Artifacts,
         ~(Cardinality(Candidates(s, kind, a)) > MaxRulesJudged)
  PROVE  GatherRules(s, kind, a) = Candidates(s, kind, a)
<1>1. Candidates(s, kind, a) \in SUBSET Rules
  BY LoopAssumption DEF Candidates
<1>2. Cardinality(Candidates(s, kind, a)) <= MaxRulesJudged
  BY <1>1, RulesAreFinite, CapIsPositive
<1> QED
  BY <1>2 DEF GatherRules

\* A judged round yields a session.
LEMMA RecordVerdictsType ==
  ASSUME NEW s \in Session, NEW kind \in Kinds, NEW a \in Artifacts \cup {NoValue},
         NEW judged \in SUBSET Rules, NEW inTheWay \in SUBSET judged
  PROVE  RecordVerdicts(s, kind, a, judged, inTheWay) \in Session
<1> DEFINE loop == s.loops[kind]
           new  == JudgedLoop(loop, a, judged, inTheWay)
<1>1. loop \in LoopState
  BY DEF Session
<1>2. new \in LoopState
  BY <1>1 DEF JudgedLoop, LoopState
<1>3. [s.loops EXCEPT ![kind] = new] \in [Kinds -> LoopState]
  BY <1>2 DEF Session
<1> QED
  BY <1>3 DEF RecordVerdicts, Session

\* Its loop of the other kind, its overrides and its turn are those of s.
LEMMA RecordVerdictsLoops ==
  ASSUME NEW s \in Session, NEW kind \in Kinds, NEW a \in Artifacts,
         NEW judged \in SUBSET Rules, NEW inTheWay \in SUBSET judged,
         NEW k \in Kinds, NEW r \in Rules
  PROVE  LET t == RecordVerdicts(s, kind, a, judged, inTheWay)
         IN  /\ t.overrides = s.overrides
             /\ t.turnStart = s.turnStart
             /\ t.loops[k].denied[r] = IF k = kind /\ r \in inTheWay
                                         THEN s.loops[k].denied[r] + 1
                                         ELSE s.loops[k].denied[r]
             /\ t.loops[k].cleared[r] =
                  IF k # kind \/ r \notin judged THEN s.loops[k].cleared[r]
                  ELSE IF r \in inTheWay THEN NoValue ELSE a
             /\ t.loops[k].rounds = IF k # kind \/ judged = {} THEN s.loops[k].rounds
                                    ELSE s.loops[k].rounds + 1
  BY DEF RecordVerdicts, JudgedLoop, Session, LoopState

\* A hook process that has not started, or has gone.
LEMMA IdleHookType == IdleHook \in Hook
  BY EmptySessionType DEF IdleHook, Hook, Request, Kinds

\* What is left to judge is a set of rules.
LEMMA GatherType ==
  ASSUME NEW s \in Session, NEW r \in Requests
  PROVE  GatherRules(s, r.kind, r.artifact) \in SUBSET Rules
  BY GatherSubset, LoopAssumption DEF Candidates

-----------------------------------------------------------------------------
(* Type correctness.                                                       *)

LEMMA InitType == Init => TypeOK
<1> SUFFICES ASSUME Init PROVE TypeOK
  OBVIOUS
<1>1. human \in Human
  BY EmptySessionType DEF Init, IdleHuman, Human
<1>2. printed \in Answer
  BY DEF Init, Notice, Answer
<1>3. PerRule(0) \in [Kinds -> [Rules -> Nat]]
  BY DEF PerRule
<1>4. started \in 0..MaxStarts
  BY LoopAssumption DEF Init
<1> QED
  BY <1>1, <1>2, <1>3, <1>4, EmptySessionType, IdleHookType DEF Init, TypeOK

\* Every step keeps every variable in its type.
LEMMA StepType == TypeOK /\ [Next]_vars => TypeOK'
<1> SUFFICES ASSUME TypeOK, [Next]_vars PROVE TypeOK'
  OBVIOUS
<1> USE DEF TypeOK
<1>1. ASSUME NEW c \in Calls, NEW r \in Requests, StartHook(c, r)
      PROVE  TypeOK'
  <2> DEFINE s == IF r.tracked THEN session ELSE EmptySession
             window == GatherRules(s, r.kind, r.artifact)
             truncated == Cardinality(Candidates(s, r.kind, r.artifact)) > MaxRulesJudged
             h == [IdleHook EXCEPT !.pc = "pipeline", !.req = r, !.mem = s,
                                   !.window = window, !.truncated = truncated]
  <2>1. s \in Session
    BY EmptySessionType
  <2>2. window \in SUBSET Rules
    BY <2>1, GatherType
  <2>3. r \in Request
    BY LoopAssumption DEF Request
  <2>4. h \in Hook
    <3>1. truncated \in BOOLEAN
      OBVIOUS
    <3> HIDE DEF s, window, truncated
    <3> QED BY <2>1, <2>2, <2>3, <3>1, IdleHookType DEF Hook
  <2>5. hook' \in [Calls -> Hook]
    BY <1>1, <2>4 DEF StartHook
  <2>6. started' \in 0..MaxStarts
    BY <1>1, LoopAssumption DEF StartHook, MayStart
  <2> QED
    BY <1>1, <2>5, <2>6 DEF StartHook, historyVars
<1>2. ASSUME NEW c \in Calls, FailOpen(c)
      PROVE  TypeOK'
  BY <1>2, IdleHookType DEF FailOpen, historyVars, Notice, Answer
<1>3. ASSUME NEW c \in Calls, Judged(c)
      PROVE  TypeOK'
  <2> DEFINE h == hook[c]
  <2>1. h \in Hook
    OBVIOUS
  <2>2. PICK verdict \in [h.window -> Verdicts] :
          LET inTheWay == {r \in h.window : Blocks(verdict[r])}
              s        == IF h.req.tracked
                            THEN RecordVerdicts(h.mem, h.req.kind, h.req.artifact,
                                                h.window, inTheWay)
                            ELSE h.mem
              answer   == IF h.req.tracked THEN Decide(s, h.req.kind, inTheWay)
                          ELSE IF inTheWay = {} THEN "clean" ELSE "deny"
          IN  /\ hook' = [hook EXCEPT ![c] =
                   [h EXCEPT !.mem = s,
                             !.blocking = inTheWay,
                             !.decision = answer,
                             !.pc = IF ~h.req.tracked THEN "answer"
                                    ELSE IF answer = "limit" THEN "audit_limit"
                                    ELSE "store"]]
              /\ blocked' = IF ~h.req.tracked THEN blocked
                   ELSE [blocked EXCEPT ![h.req.kind] =
                           [r \in Rules |-> IF r \in inTheWay THEN @[r] + 1 ELSE @[r]]]
    BY <1>3 DEF Judged
  <2> DEFINE inTheWay == {r \in h.window : Blocks(verdict[r])}
             s        == IF h.req.tracked
                           THEN RecordVerdicts(h.mem, h.req.kind, h.req.artifact,
                                               h.window, inTheWay)
                           ELSE h.mem
             answer   == IF h.req.tracked THEN Decide(s, h.req.kind, inTheWay)
                         ELSE IF inTheWay = {} THEN "clean" ELSE "deny"
             next     == [h EXCEPT !.mem = s,
                                   !.blocking = inTheWay,
                                   !.decision = answer,
                                   !.pc = IF ~h.req.tracked THEN "answer"
                                          ELSE IF answer = "limit" THEN "audit_limit"
                                          ELSE "store"]
  <2>3. h.req.kind \in Kinds /\ h.req.artifact \in Artifacts \cup {NoValue}
        /\ h.window \in SUBSET Rules /\ h.mem \in Session
    BY <2>1 DEF Hook, Request
  <2>4. inTheWay \in SUBSET h.window
    OBVIOUS
  <2>5. s \in Session
    BY <2>3, <2>4, RecordVerdictsType
  <2>6. answer \in {"clean", "limit", "deny"}
    BY DEF Decide
  <2>7. next \in Hook
    <3> HIDE DEF inTheWay, s, answer
    <3> QED BY <2>1, <2>3, <2>4, <2>5, <2>6 DEF Hook
  <2>8. hook' \in [Calls -> Hook]
    BY <2>2, <2>7
  <2>9. blocked' \in [Kinds -> [Rules -> Nat]]
    <3> HIDE DEF inTheWay
    <3> QED BY <2>2, <2>3
  <2> QED
    BY <1>3, <2>8, <2>9 DEF Judged
<1>4. ASSUME NEW c \in Calls, RecordRoundLimit(c)
      PROVE  TypeOK'
  <2>1. [hook[c] EXCEPT !.pc = "store"] \in Hook
    BY DEF Hook
  <2> QED
    BY <1>4, <2>1 DEF RecordRoundLimit, historyVars
<1>5. ASSUME NEW c \in Calls, StoreSession(c)
      PROVE  TypeOK'
  <2>1. hook[c] \in Hook
    OBVIOUS
  <2>2. \A pc \in {"answer", "audit_partial"} : [hook[c] EXCEPT !.pc = pc] \in Hook
    BY <2>1 DEF Hook
  <2>3. session' \in {hook[c].mem, session, EmptySession}
    BY <1>5 DEF StoreSession, StoreOf, StoreOutcomes
  <2>4. session' \in Session
    BY <2>1, <2>3, EmptySessionType DEF Hook
  <2>5. raced' \in BOOLEAN
    BY <1>5 DEF StoreSession, StoreOf, OthersStore, HumanStoring
  <2> QED
    BY <1>5, <2>2, <2>4, <2>5 DEF StoreSession
<1>6. ASSUME NEW c \in Calls, RecordPartialCoverage(c)
      PROVE  TypeOK'
  <2>1. [hook[c] EXCEPT !.pc = "answer"] \in Hook
    BY DEF Hook
  <2> QED
    BY <1>6, <2>1 DEF RecordPartialCoverage, historyVars
<1>7. ASSUME NEW c \in Calls, PrintAnswer(c)
      PROVE  TypeOK'
  <2>1. hook[c] \in Hook
    OBVIOUS
  <2>2. printed' \in Answer
    BY <1>7, <2>1 DEF PrintAnswer, Hook, Answer, NotesOf
  <2>3. denials' \in [Kinds -> [Rules -> Nat]]
    BY <1>7, <2>1 DEF PrintAnswer, Hook, Request
  <2> QED
    BY <1>7, <2>2, <2>3, IdleHookType DEF PrintAnswer
<1>8. ASSUME NEW c \in Calls, Kill(c)
      PROVE  TypeOK'
  <2>1. raced' \in BOOLEAN
    BY <1>8 DEF Kill, OthersStore, HumanStoring
  <2> QED
    BY <1>8, <2>1, IdleHookType DEF Kill, historyVars
<1>9. ASSUME NEW c \in Calls, StartTurn(c)
      PROVE  TypeOK'
  <2>1. [IdleHook EXCEPT !.pc = "turn", !.mem = session] \in Hook
    BY IdleHookType DEF Hook
  <2>2. started' \in 0..MaxStarts
    BY <1>9, LoopAssumption DEF StartTurn, MayStart
  <2> QED
    BY <1>9, <2>1, <2>2 DEF StartTurn, historyVars
<1>10. ASSUME NEW c \in Calls, NEW head \in Heads \cup {NoValue}, RecordTurnStart(c, head)
       PROVE  TypeOK'
  <2>1. [hook[c].mem EXCEPT !.turnStart = head] \in Session
    BY DEF Hook, Session
  <2>2. session' \in Session
    BY <1>10, <2>1, EmptySessionType DEF RecordTurnStart, StoreOf, StoreOutcomes
  <2>3. raced' \in BOOLEAN
    BY <1>10 DEF RecordTurnStart, StoreOf, OthersStore, HumanStoring
  <2> QED
    BY <1>10, <2>2, <2>3, IdleHookType DEF RecordTurnStart
<1>11. ASSUME NEW rules \in OverrideSets, StartOverride(rules)
       PROVE  TypeOK'
  <2>1. rules \in SUBSET Rules
    BY LoopAssumption
  <2>2. human' \in Human
    BY <1>11, <2>1 DEF StartOverride, Human
  <2>3. started' \in 0..MaxStarts
    BY <1>11, LoopAssumption DEF StartOverride, MayStart
  <2> QED
    BY <1>11, <2>2, <2>3 DEF StartOverride, historyVars
<1>12. ASSUME NEW r \in Rules, PushOverride(r)
       PROVE  TypeOK'
  <2>1. human' \in Human
    BY <1>12 DEF PushOverride, Human, Session
  <2> QED
    BY <1>12, <2>1 DEF PushOverride, historyVars
<1>13. ASSUME StoreOverride
       PROVE  TypeOK'
  <2>1. human' \in Human
    BY <1>13, EmptySessionType DEF StoreOverride, IdleHuman, Human
  <2>2. session' \in Session
    BY <1>13, EmptySessionType DEF StoreOverride, StoreOutcomes, Human
  <2> QED
    BY <1>13, <2>1, <2>2, LoopAssumption DEF StoreOverride, Human
<1>14. ASSUME KillOverride
       PROVE  TypeOK'
  <2>1. human' \in Human
    BY <1>14, EmptySessionType DEF KillOverride, IdleHuman, Human
  <2> QED
    BY <1>14, <2>1 DEF KillOverride, historyVars
<1>15. ASSUME PruneStale
       PROVE  TypeOK'
  BY <1>15, EmptySessionType DEF PruneStale, PerRule
<1>16. CASE UNCHANGED vars
  BY <1>16 DEF vars, historyVars
<1> QED
  BY <1>1, <1>2, <1>3, <1>4, <1>5, <1>6, <1>7, <1>8, <1>9, <1>10, <1>11, <1>12, <1>13,
     <1>14, <1>15, <1>16 DEF Next, HookStep, HumanStep

\* Every variable keeps its type, whatever the processes do.
THEOREM TypeCorrect == Spec => []TypeOK
  BY InitType, StepType, PTL DEF Spec

-----------------------------------------------------------------------------
(* The inductive invariant.  The histories and the audit log only grow, so a *)
(* process whose step it is not keeps what it knew; only the process that   *)
(* steps, and the file it stores, need a look.                              *)

Counts == [Kinds -> [Rules -> Nat]]

\* More evidence supports what less evidence supported.
LEMMA SupportedGrows ==
  ASSUME NEW s \in Session, NEW b \in Counts, NEW b2 \in Counts,
         NEW f, NEW f2, NEW log, NEW log2,
         \A k \in Kinds, r \in Rules : b[k][r] <= b2[k][r],
         f \subseteq f2, log \subseteq log2,
         Supported(s, b, f, log)
  PROVE  Supported(s, b2, f2, log2)
<1>1. \A k \in Kinds, r \in Rules : s.loops[k].denied[r] <= b2[k][r]
  BY DEF Supported, Session, LoopState, Counts
<1> QED
  BY <1>1 DEF Supported

\* A process that does not move keeps what it knew.
LEMMA HookOKGrows ==
  ASSUME NEW h \in Hook, NEW b \in Counts, NEW b2 \in Counts,
         NEW f, NEW f2, NEW log, NEW log2,
         \A k \in Kinds, r \in Rules : b[k][r] <= b2[k][r],
         f \subseteq f2, log \subseteq log2,
         HookOK(h, b, f, log)
  PROVE  HookOK(h, b2, f2, log2)
<1>1. h.mem \in Session /\ h.req.kind \in Kinds /\ h.blocking \in SUBSET Rules
  BY DEF Hook, Request
<1>2. Supported(h.mem, b2, f2, log2)
  BY <1>1, SupportedGrows DEF HookOK
<1>3. h.decision = "limit" => \A r \in h.blocking : b2[h.req.kind][r] > MaxRounds
  BY <1>1, LoopAssumption DEF HookOK, Counts
<1> QED
  BY <1>2, <1>3 DEF HookOK

\* The empty session claims nothing.
LEMMA EmptySupported ==
  ASSUME NEW b \in Counts, NEW f, NEW log
  PROVE  Supported(EmptySession, b, f, log)
<1>1. \A k \in Kinds, r \in Rules : b[k][r] >= 0
  BY DEF Counts
<1> QED
  BY <1>1 DEF Supported, EmptySession, EmptyLoop

\* Neither does an idle process.
LEMMA IdleHookOK ==
  ASSUME NEW b \in Counts, NEW f, NEW log
  PROVE  HookOK(IdleHook, b, f, log)
<1>1. Supported(IdleHook.mem, b, f, log)
  BY EmptySupported DEF IdleHook
<1>2. IdleHook.pc = "idle" /\ IdleHook.decision = "none"
  BY DEF IdleHook
<1> QED
  BY <1>1, <1>2 DEF HookOK

\* What one judged round adds to the session is what it adds to the evidence.
LEMMA RecordVerdictsSupported ==
  ASSUME NEW s \in Session, NEW kind \in Kinds, NEW a \in Artifacts,
         NEW judged \in SUBSET Rules, NEW inTheWay \in SUBSET judged,
         NEW b \in Counts, NEW b2 \in Counts, NEW f, NEW f2, NEW log,
         b2 = [b EXCEPT ![kind] =
                 [r \in Rules |-> IF r \in inTheWay THEN b[kind][r] + 1 ELSE b[kind][r]]],
         f2 = f \cup {<<kind, r, a>> : r \in judged \ inTheWay},
         Supported(s, b, f, log)
  PROVE  Supported(RecordVerdicts(s, kind, a, judged, inTheWay), b2, f2, log)
<1> DEFINE t == RecordVerdicts(s, kind, a, judged, inTheWay)
<1>1. t.overrides = s.overrides
  BY DEF RecordVerdicts, Session
<1>2. ASSUME NEW k \in Kinds, NEW r \in Rules
      PROVE  t.loops[k].denied[r] <= b2[k][r]
  <2>1. t.loops[k].denied[r] = IF k = kind /\ r \in inTheWay THEN s.loops[k].denied[r] + 1
                               ELSE s.loops[k].denied[r]
    BY RecordVerdictsLoops
  <2>2. b2[k][r] = IF k = kind /\ r \in inTheWay THEN b[k][r] + 1 ELSE b[k][r]
    BY DEF Counts
  <2>3. s.loops[k].denied[r] \in Nat /\ b[k][r] \in Nat /\ s.loops[k].denied[r] <= b[k][r]
    BY DEF Session, LoopState, Counts, Supported
  <2> HIDE DEF t
  <2> QED
    BY <2>1, <2>2, <2>3
<1>3. ASSUME NEW k \in Kinds, NEW r \in Rules, t.loops[k].cleared[r] # NoValue
      PROVE  <<k, r, t.loops[k].cleared[r]>> \in f2
  <2>1. t.loops[k].cleared[r] =
          IF k # kind \/ r \notin judged THEN s.loops[k].cleared[r]
          ELSE IF r \in inTheWay THEN NoValue ELSE a
    BY RecordVerdictsLoops
  <2>2. CASE k # kind \/ r \notin judged
    <3>1. t.loops[k].cleared[r] = s.loops[k].cleared[r]
      BY <2>1, <2>2
    <3> QED
      BY <3>1, <1>3 DEF Supported
  <2>3. CASE k = kind /\ r \in judged
    <3>1. t.loops[k].cleared[r] = a /\ r \notin inTheWay
      BY <2>1, <2>3, <1>3
    <3> QED
      BY <3>1, <2>3
  <2> QED
    BY <2>2, <2>3
<1> HIDE DEF t
<1>4. Supported(t, b2, f2, log)
  BY <1>1, <1>2, <1>3 DEF Supported
<1> QED
  BY <1>4 DEF t

\* No step takes evidence back: rounds, verdicts and audit entries only add up.
EvidenceGrows ==
  /\ \A k \in Kinds, r \in Rules : blocked[k][r] <= blocked'[k][r]
  /\ conformed \subseteq conformed'
  /\ audit \subseteq audit'

LEMMA StepGrows == TypeOK /\ [Next]_vars => EvidenceGrows
<1> SUFFICES ASSUME TypeOK, [Next]_vars PROVE EvidenceGrows
  OBVIOUS
<1> USE DEF EvidenceGrows
<1>1. blocked \in Counts
  BY DEF TypeOK, Counts
<1>2. \A k \in Kinds, r \in Rules : blocked[k][r] <= blocked[k][r]
  BY <1>1 DEF Counts
<1>3. ASSUME NEW c \in Calls, Judged(c)
      PROVE  EvidenceGrows
  <2> DEFINE kind == hook[c].req.kind
  <2>1. PICK V \in SUBSET Rules :
          blocked' = blocked \/
          blocked' = [blocked EXCEPT ![kind] =
             [r \in Rules |-> IF r \in V THEN blocked[kind][r] + 1 ELSE blocked[kind][r]]]
    <3>1. PICK verdict \in [hook[c].window -> Verdicts] :
             blocked' = IF ~hook[c].req.tracked THEN blocked
                ELSE [blocked EXCEPT ![hook[c].req.kind] =
                        [r \in Rules |->
                           IF r \in {q \in hook[c].window : Blocks(verdict[q])}
                             THEN @[r] + 1 ELSE @[r]]]
      BY <1>3 DEF Judged
    <3>2. {q \in hook[c].window : Blocks(verdict[q])} \in SUBSET Rules
      BY DEF TypeOK, Hook
    <3> QED
      BY <3>1, <3>2
  <2>2. \A k \in Kinds, r \in Rules : blocked[k][r] <= blocked'[k][r]
    BY <2>1, <1>1, <1>2 DEF Counts
  <2> QED
    BY <1>3, <2>2 DEF Judged
<1>4. ASSUME NEW c \in Calls, HookStep(c), ~Judged(c)
      PROVE  EvidenceGrows
  BY <1>2, <1>4 DEF HookStep, StartHook, FailOpen, RecordRoundLimit, StoreSession,
     RecordPartialCoverage, PrintAnswer, Kill, StartTurn, RecordTurnStart, historyVars
<1>5. CASE HumanStep
  BY <1>2, <1>5 DEF HumanStep, StartOverride, PushOverride, StoreOverride, KillOverride,
     historyVars
<1>6. CASE PruneStale
  BY <1>2, <1>6 DEF PruneStale
<1>7. CASE UNCHANGED vars
  BY <1>2, <1>7 DEF vars, historyVars
<1> QED
  BY <1>3, <1>4, <1>5, <1>6, <1>7 DEF Next

\* To keep Evidence it is enough to look at the file, at the human's copy and
\* at the one process that moves.
LEMMA EvidenceStep ==
  ASSUME TypeOK, TypeOK', Evidence, EvidenceGrows,
         session' = session \/ Supported(session', blocked', conformed', audit'),
         human' = human \/ Supported(human'.mem, blocked', conformed', audit'),
         \A c \in Calls : hook'[c] = hook[c] \/ HookOK(hook'[c], blocked', conformed', audit')
  PROVE  Evidence'
<1>1. blocked \in Counts /\ blocked' \in Counts
  BY DEF TypeOK, Counts
<1>2. Supported(session', blocked', conformed', audit')
  BY <1>1, SupportedGrows DEF Evidence, EvidenceGrows, TypeOK
<1>3. Supported(human'.mem, blocked', conformed', audit')
  <2>1. human.mem \in Session
    BY DEF TypeOK, Human
  <2> QED
    BY <1>1, <2>1, SupportedGrows DEF Evidence, EvidenceGrows
<1>4. ASSUME NEW c \in Calls
      PROVE  HookOK(hook'[c], blocked', conformed', audit')
  <2>1. hook[c] \in Hook
    BY DEF TypeOK
  <2> QED
    BY <1>1, <2>1, HookOKGrows DEF Evidence, EvidenceGrows
<1> QED
  BY <1>2, <1>3, <1>4 DEF Evidence

LEMMA InitEvidence == Init => Evidence
<1> SUFFICES ASSUME Init PROVE Evidence
  OBVIOUS
<1>1. blocked \in Counts
  BY DEF Init, PerRule, Counts
<1> QED
  BY <1>1, EmptySupported, IdleHookOK DEF Init, Evidence, IdleHuman

\* A hook that starts loads no claim the file does not make, and leaves out of
\* its window only rules the session settles.
LEMMA StartHookOK ==
  ASSUME TypeOK, Evidence, NEW c \in Calls, NEW r \in Requests, StartHook(c, r)
  PROVE  HookOK(hook'[c], blocked, conformed, audit)
<1> DEFINE s == IF r.tracked THEN session ELSE EmptySession
           window == GatherRules(s, r.kind, r.artifact)
           candidates == Candidates(s, r.kind, r.artifact)
           truncated == Cardinality(candidates) > MaxRulesJudged
           h == [IdleHook EXCEPT !.pc = "pipeline", !.req = r, !.mem = s,
                                 !.window = window, !.truncated = truncated]
<1>1. hook'[c] = h
  BY DEF StartHook, TypeOK
<1>2. /\ s \in Session
      /\ Supported(s, blocked, conformed, audit)
      /\ r.kind \in Kinds /\ r.artifact \in Artifacts
  BY EmptySessionType, EmptySupported, LoopAssumption DEF TypeOK, Evidence, Counts
<1>3. ASSUME ~truncated
      PROVE  \A q \in Applies[r.artifact] :
               q \in window \/ Excludes(s, r.kind, q, r.artifact)
  <2>1. window = candidates
    BY <1>2, <1>3, GatherAll
  <2> QED
    BY <2>1 DEF Candidates
<1> HIDE DEF s, window, truncated
<1>4. /\ h.pc = "pipeline" /\ h.decision = "none" /\ h.req = r
      /\ h.mem = s /\ h.window = window /\ h.truncated = truncated
  BY DEF IdleHook
<1> HIDE DEF h
<1> QED
  BY <1>1, <1>2, <1>3, <1>4 DEF HookOK

\* The verdicts of a round justify the decision it leads to.
LEMMA JudgedOK ==
  ASSUME TypeOK, Evidence, NEW c \in Calls, Judged(c)
  PROVE  HookOK(hook'[c], blocked', conformed', audit)
<1> DEFINE h == hook[c]
           kind == h.req.kind
           a == h.req.artifact
<1>1. PICK verdict \in [h.window -> Verdicts] :
        LET inTheWay == {r \in h.window : Blocks(verdict[r])}
            s        == IF h.req.tracked
                          THEN RecordVerdicts(h.mem, h.req.kind, h.req.artifact,
                                              h.window, inTheWay)
                          ELSE h.mem
            answer   == IF h.req.tracked THEN Decide(s, h.req.kind, inTheWay)
                        ELSE IF inTheWay = {} THEN "clean" ELSE "deny"
        IN  /\ hook' = [hook EXCEPT ![c] =
                 [h EXCEPT !.mem = s,
                           !.blocking = inTheWay,
                           !.decision = answer,
                           !.pc = IF ~h.req.tracked THEN "answer"
                                  ELSE IF answer = "limit" THEN "audit_limit"
                                  ELSE "store"]]
            /\ blocked' = IF ~h.req.tracked THEN blocked
                 ELSE [blocked EXCEPT ![h.req.kind] =
                         [r \in Rules |-> IF r \in inTheWay THEN @[r] + 1 ELSE @[r]]]
            /\ conformed' = conformed \cup
                 {<<h.req.kind, r, h.req.artifact>> : r \in h.window \ inTheWay}
  BY DEF Judged
<1> DEFINE inTheWay == {r \in h.window : Blocks(verdict[r])}
           s        == IF h.req.tracked
                         THEN RecordVerdicts(h.mem, kind, a, h.window, inTheWay)
                         ELSE h.mem
           answer   == IF h.req.tracked THEN Decide(s, kind, inTheWay)
                       ELSE IF inTheWay = {} THEN "clean" ELSE "deny"
           pc       == IF ~h.req.tracked THEN "answer"
                       ELSE IF answer = "limit" THEN "audit_limit" ELSE "store"
           next     == [h EXCEPT !.mem = s, !.blocking = inTheWay,
                                 !.decision = answer, !.pc = pc]
<1>2. h \in Hook /\ h.pc = "pipeline" /\ HookOK(h, blocked, conformed, audit)
  BY DEF TypeOK, Evidence, Judged
<1>3. /\ h.mem \in Session /\ kind \in Kinds /\ a \in Artifacts
      /\ h.window \in SUBSET Rules
      /\ h.req.tracked \in BOOLEAN /\ h.truncated \in BOOLEAN
      /\ Supported(h.mem, blocked, conformed, audit)
      /\ blocked \in Counts
  BY <1>2 DEF Hook, Request, HookOK, TypeOK, Counts
<1>4. inTheWay \in SUBSET h.window
  OBVIOUS
<1>5. conformed' = conformed \cup {<<kind, r, a>> : r \in h.window \ inTheWay}
  BY <1>1
<1>6. h.req.tracked => blocked' = [blocked EXCEPT ![kind] =
         [r \in Rules |-> IF r \in inTheWay THEN blocked[kind][r] + 1 ELSE blocked[kind][r]]]
  <2> HIDE DEF inTheWay
  <2> QED BY <1>1, <1>3 DEF inTheWay
<1>7. ~h.req.tracked => blocked' = blocked
  BY <1>1
<1>8. hook'[c] = next
  BY <1>1 DEF TypeOK
<1>9. /\ next.mem = s /\ next.blocking = inTheWay /\ next.decision = answer /\ next.pc = pc
      /\ next.req = h.req /\ next.truncated = h.truncated /\ next.window = h.window
  <2> HIDE DEF inTheWay, s, answer, pc
  <2> QED BY <1>2 DEF Hook
<1>10. s \in Session /\ blocked' \in Counts
  <2>1. s \in Session
    BY <1>3, <1>4, RecordVerdictsType
  <2>2. blocked' \in Counts
    <3> HIDE DEF inTheWay
    <3> QED BY <1>3, <1>6, <1>7 DEF Counts
  <2> QED
    BY <2>1, <2>2
<1>11. Supported(s, blocked', conformed', audit)
  <2>1. CASE h.req.tracked
    <3> HIDE DEF inTheWay
    <3> QED BY <2>1, <1>3, <1>4, <1>5, <1>6, <1>10, RecordVerdictsSupported
  <2>2. CASE ~h.req.tracked
    BY <2>2, <1>3, <1>5, <1>7, <1>10, SupportedGrows DEF Counts
  <2> QED
    BY <2>1, <2>2
<1>12. ASSUME answer = "limit", NEW r \in inTheWay
       PROVE  blocked'[kind][r] > MaxRounds
  <2>1. h.req.tracked
    BY <1>12
  <2>2. DenyLimitExceeded(s.loops[kind], r)
    <3> HIDE DEF inTheWay, s
    <3> QED BY <1>12, <2>1 DEF Decide
  <2>3. s.loops[kind].denied[r] > MaxRounds /\ r \in Rules
    BY <2>2, <1>3 DEF DenyLimitExceeded
  <2>4. s.loops[kind].denied[r] <= blocked'[kind][r]
    BY <2>3, <1>3, <1>11 DEF Supported
  <2> HIDE DEF s
  <2> QED
    BY <2>3, <2>4, <1>3, <1>10, LoopAssumption DEF Session, LoopState, Counts
<1>13. ASSUME answer = "clean", ~h.truncated, NEW r \in Applies[a]
       PROVE  <<kind, r, a>> \in conformed' \/ OverrideEntry(r) \in audit
  <2>1. inTheWay = {}
    <3> HIDE DEF inTheWay, s
    <3> QED BY <1>13 DEF Decide
  <2>2. r \in Rules /\ a # NoValue
    BY <1>3, LoopAssumption
  <2>3. CASE r \in h.window
    BY <2>1, <2>3, <1>5
  <2>4. CASE Excludes(h.mem, kind, r, a)
    BY <2>2, <2>4, <1>3, <1>5 DEF Excludes, Supported
  <2> QED
    BY <2>3, <2>4, <1>2, <1>13 DEF HookOK
<1>14. pc \in {"answer", "audit_limit", "store"} /\ (h.req.tracked => pc # "answer")
       /\ (answer = "limit" /\ h.req.tracked => pc = "audit_limit")
  BY <1>3
<1> HIDE DEF inTheWay, s, answer, pc, next
<1> QED
  BY <1>3, <1>8, <1>9, <1>11, <1>12, <1>13, <1>14 DEF HookOK

\* Every step of every process keeps the evidence for what the copies of the
\* session and the processes claim.
LEMMA StepEvidence == IInv /\ [Next]_vars => Evidence'
<1> SUFFICES ASSUME IInv, [Next]_vars PROVE Evidence'
  OBVIOUS
<1>1. TypeOK /\ Evidence /\ TypeOK' /\ EvidenceGrows
  BY StepType, StepGrows DEF IInv
<1>2. /\ blocked \in Counts
      /\ \A c \in Calls : hook[c] \in Hook /\ HookOK(hook[c], blocked, conformed, audit)
      /\ HookOK(IdleHook, blocked, conformed, audit)
  BY <1>1, IdleHookOK DEF TypeOK, Counts, Evidence
<1>3. ASSUME NEW c \in Calls, NEW r \in Requests, StartHook(c, r)
      PROVE  Evidence'
  <2>1. HookOK(hook'[c], blocked, conformed, audit)
    BY <1>1, <1>3, StartHookOK
  <2> QED
    BY <1>1, <1>3, <2>1, EvidenceStep DEF StartHook, historyVars, TypeOK
<1>4. ASSUME NEW c \in Calls, FailOpen(c) \/ Kill(c)
      PROVE  Evidence'
  BY <1>1, <1>2, <1>4, EvidenceStep DEF FailOpen, Kill, historyVars, TypeOK
<1>5. ASSUME NEW c \in Calls, Judged(c)
      PROVE  Evidence'
  <2>1. HookOK(hook'[c], blocked', conformed', audit)
    BY <1>1, <1>5, JudgedOK
  <2> QED
    BY <1>1, <1>5, <2>1, EvidenceStep DEF Judged, TypeOK
<1>6. ASSUME NEW c \in Calls, RecordRoundLimit(c)
      PROVE  Evidence'
  <2> DEFINE h == [hook[c] EXCEPT !.pc = "store"]
  <2>1. hook'[c] = h /\ audit' = audit \cup LimitEntries(h)
    BY <1>1, <1>2, <1>6 DEF RecordRoundLimit, TypeOK, LimitEntries, RoundOf, Hook
  <2>2. HookOK(hook[c], blocked, conformed, audit')
    BY <1>1, <1>2, <2>1, HookOKGrows DEF Counts
  <2>3. hook[c].pc = "audit_limit"
    BY <1>6 DEF RecordRoundLimit
  <2>4. /\ h.pc = "store" /\ h.decision = hook[c].decision /\ h.mem = hook[c].mem
        /\ h.req = hook[c].req /\ h.blocking = hook[c].blocking
        /\ h.window = hook[c].window /\ h.truncated = hook[c].truncated
    BY <1>2 DEF Hook
  <2>5. LimitEntries(h) = LimitEntries(hook[c]) /\ PartialEntry(h) = PartialEntry(hook[c])
    BY <2>4 DEF LimitEntries, PartialEntry, RoundOf
  <2>6. HookOK(h, blocked, conformed, audit')
    <3> HIDE DEF h
    <3> QED BY <2>1, <2>2, <2>3, <2>4, <2>5 DEF HookOK
  <2> QED
    BY <1>1, <1>6, <2>1, <2>6, EvidenceStep DEF RecordRoundLimit, historyVars, TypeOK
<1>7. ASSUME NEW c \in Calls, StoreSession(c)
      PROVE  Evidence'
  <2> DEFINE pc == IF hook[c].decision = "clean" /\ hook[c].truncated
                     THEN "audit_partial" ELSE "answer"
             h == [hook[c] EXCEPT !.pc = pc]
  <2>1. /\ hook'[c] = h /\ hook[c].pc = "store"
        /\ session' \in {hook[c].mem, session, EmptySession}
    BY <1>1, <1>7 DEF StoreSession, StoreOf, StoreOutcomes, TypeOK
  <2>2. /\ h.pc = pc /\ h.decision = hook[c].decision /\ h.truncated = hook[c].truncated
        /\ h.mem = hook[c].mem /\ h.req = hook[c].req /\ h.blocking = hook[c].blocking
        /\ h.window = hook[c].window
        /\ LimitEntries(h) = LimitEntries(hook[c])
    BY <1>2 DEF Hook, LimitEntries, RoundOf
  <2>3. HookOK(h, blocked, conformed, audit)
    BY <1>2, <2>1, <2>2 DEF HookOK
  <2>4. Supported(session', blocked, conformed, audit)
    BY <1>1, <1>2, <2>1, EmptySupported DEF HookOK, Evidence
  <2> QED
    BY <1>1, <1>7, <2>1, <2>3, <2>4, EvidenceStep DEF StoreSession, TypeOK
<1>8. ASSUME NEW c \in Calls, RecordPartialCoverage(c)
      PROVE  Evidence'
  <2> DEFINE h == [hook[c] EXCEPT !.pc = "answer"]
  <2>1. hook'[c] = h /\ audit' = audit \cup {PartialEntry(h)}
    BY <1>1, <1>2, <1>8 DEF RecordPartialCoverage, TypeOK, PartialEntry, RoundOf, Hook
  <2>2. HookOK(hook[c], blocked, conformed, audit')
    BY <1>1, <1>2, <2>1, HookOKGrows DEF Counts
  <2>3. hook[c].pc = "audit_partial"
    BY <1>8 DEF RecordPartialCoverage
  <2>4. /\ h.pc = "answer" /\ h.decision = hook[c].decision /\ h.mem = hook[c].mem
        /\ h.req = hook[c].req /\ h.blocking = hook[c].blocking
        /\ h.window = hook[c].window /\ h.truncated = hook[c].truncated
    BY <1>2 DEF Hook
  <2>5. LimitEntries(h) = LimitEntries(hook[c]) /\ PartialEntry(h) = PartialEntry(hook[c])
    BY <2>4 DEF LimitEntries, PartialEntry, RoundOf
  <2>6. HookOK(h, blocked, conformed, audit')
    <3> HIDE DEF h
    <3> QED BY <2>1, <2>2, <2>3, <2>4, <2>5 DEF HookOK
  <2> QED
    BY <1>1, <1>8, <2>1, <2>6, EvidenceStep DEF RecordPartialCoverage, historyVars, TypeOK
<1>9. ASSUME NEW c \in Calls, PrintAnswer(c)
      PROVE  Evidence'
  BY <1>1, <1>2, <1>9, EvidenceStep DEF PrintAnswer, TypeOK
<1>10. ASSUME NEW c \in Calls, StartTurn(c)
       PROVE  Evidence'
  <2> DEFINE h == [IdleHook EXCEPT !.pc = "turn", !.mem = session]
  <2>1. hook'[c] = h
    BY <1>1, <1>10 DEF StartTurn, TypeOK
  <2>2. h.pc = "turn" /\ h.decision = "none" /\ h.mem = session
    BY DEF IdleHook
  <2>3. HookOK(h, blocked, conformed, audit)
    BY <1>1, <2>2 DEF HookOK, Evidence
  <2> QED
    BY <1>1, <1>10, <2>1, <2>3, EvidenceStep DEF StartTurn, historyVars, TypeOK
<1>11. ASSUME NEW c \in Calls, NEW head \in Heads \cup {NoValue}, RecordTurnStart(c, head)
       PROVE  Evidence'
  <2> DEFINE s == [hook[c].mem EXCEPT !.turnStart = head]
  <2>1. s.loops = hook[c].mem.loops /\ s.overrides = hook[c].mem.overrides
    BY <1>2 DEF Hook, Session
  <2>2. session' \in {s, session, EmptySession}
    BY <1>11 DEF RecordTurnStart, StoreOf, StoreOutcomes
  <2>3. Supported(s, blocked, conformed, audit)
    BY <1>2, <2>1 DEF HookOK, Supported
  <2> HIDE DEF s
  <2>4. session' = session \/ Supported(session', blocked, conformed, audit)
    BY <1>2, <2>2, <2>3, EmptySupported
  <2> QED
    BY <1>1, <1>2, <1>11, <2>4, EvidenceStep DEF RecordTurnStart, TypeOK
<1>12. ASSUME NEW rules \in OverrideSets, StartOverride(rules)
       PROVE  Evidence'
  <2>1. human'.mem = session
    BY <1>12 DEF StartOverride
  <2>2. Supported(human'.mem, blocked, conformed, audit)
    BY <1>1, <2>1 DEF Evidence
  <2> QED
    BY <1>1, <1>12, <2>2, EvidenceStep DEF StartOverride, historyVars
<1>13. ASSUME NEW r \in Rules, PushOverride(r)
       PROVE  Evidence'
  <2>1. human.mem \in Session /\ human \in Human
    BY <1>1 DEF TypeOK, Human
  <2>2. /\ human'.mem.loops = human.mem.loops
        /\ human'.mem.overrides = human.mem.overrides \cup {r}
        /\ audit' = audit \cup {OverrideEntry(r)}
    BY <1>13, <2>1 DEF PushOverride, Human, Session
  <2>3. Supported(human'.mem, blocked, conformed, audit')
    BY <1>1, <2>2 DEF Evidence, Supported
  <2> QED
    BY <1>1, <1>13, <2>3, EvidenceStep DEF PushOverride, historyVars
<1>14. CASE StoreOverride
  <2>1. session' \in {human.mem, session, EmptySession} /\ human'.mem = EmptySession
    BY <1>14 DEF StoreOverride, StoreOutcomes, IdleHuman
  <2>2. Supported(session', blocked, conformed, audit)
    BY <1>1, <1>2, <2>1, EmptySupported DEF Evidence
  <2>3. Supported(human'.mem, blocked, conformed, audit)
    BY <1>2, <2>1, EmptySupported
  <2> QED
    BY <1>1, <1>14, <2>2, <2>3, EvidenceStep DEF StoreOverride
<1>15. CASE KillOverride
  <2>1. Supported(human'.mem, blocked, conformed, audit)
    BY <1>2, <1>15, EmptySupported DEF KillOverride, IdleHuman
  <2> QED
    BY <1>1, <1>15, <2>1, EvidenceStep DEF KillOverride, historyVars
<1>16. CASE PruneStale
  <2>1. Supported(session', blocked, conformed, audit)
    BY <1>2, <1>16, EmptySupported DEF PruneStale
  <2> QED
    BY <1>1, <1>16, <2>1, EvidenceStep DEF PruneStale
<1>17. CASE UNCHANGED vars
  BY <1>1, <1>17, EvidenceStep DEF vars, historyVars
<1> QED
  BY <1>3, <1>4, <1>5, <1>6, <1>7, <1>8, <1>9, <1>10, <1>11, <1>12, <1>13, <1>14,
     <1>15, <1>16, <1>17 DEF Next, HookStep, HumanStep

\* What every copy of the session and every process claims is supported by the
\* rounds that were judged and by the audit log, in every reachable state.
THEOREM Inductive == Spec => []IInv
<1>1. Init => IInv
  BY InitType, InitEvidence DEF IInv
<1>2. IInv /\ [Next]_vars => IInv'
  BY StepType, StepEvidence DEF IInv
<1> QED
  BY <1>1, <1>2, PTL DEF Spec

\* A rule stops blocking only after MaxRounds earlier rounds of the same gate
\* found that very rule in the way: stores that are lost or raced over can
\* only postpone the let-through, never bring it forward.
THEOREM LimitPassIsEarned == Spec => []LimitPassEarned
<1>1. IInv => LimitPassEarned
  BY DEF IInv, Evidence, HookOK, LimitPassEarned
<1> QED
  BY <1>1, Inductive, PTL

\* A hook never answers with a pass it did not put on record: the audit entries
\* of a round-limit pass and of a partial clean pass precede the answer.
THEOREM PassIsAudited == Spec => []PassAudited
<1>1. IInv => PassAudited
  BY DEF IInv, Evidence, HookOK, PassAudited
<1> QED
  BY <1>1, Inductive, PTL

\* A clean pass over all the rules rests, rule by rule, on a verdict of this
\* gate on this text or on an audited override, whoever overwrote the session.
THEOREM CleanPassIsJustified == Spec => []CleanPassJustified
<1>1. IInv => CleanPassJustified
  BY DEF IInv, Evidence, HookOK, CleanPassJustified
<1> QED
  BY <1>1, Inductive, PTL

\* No override is in force that the audit log does not hold.
THEOREM OverridesAreAudited == Spec => []OverrideAudited
<1>1. IInv => OverrideAudited
  BY DEF IInv, Evidence, Supported, OverrideAudited
<1> QED
  BY <1>1, Inductive, PTL

-----------------------------------------------------------------------------
(* Processes that run one at a time: what the session file promises its    *)
(* user.                                                                   *)

\* A process that starts, or goes on, is the only one.
LEMMA OnlyProcess ==
  ASSUME ~Overlap, Alone, NEW c \in Calls, hook[c].pc # "idle" \/ MayStart
  PROVE  human.pc = "idle" /\ \A d \in Calls \ {c} : hook[d].pc = "idle"
BY DEF Alone, MayStart, AllIdle

\* Its store races nobody.
LEMMA StoreAlone ==
  ASSUME ~Overlap, Alone, ~raced, NEW c \in Calls, hook[c].pc # "idle", NEW mem, StoreOf(c, mem)
  PROVE  session' = mem
<1>1. human.pc = "idle" /\ \A d \in Calls \ {c} : hook[d].pc = "idle"
  BY OnlyProcess
<1>2. ~HumanStoring /\ Storing \ {c} = {}
  BY <1>1 DEF HumanStoring, Storing
<1> QED
  BY <1>2 DEF StoreOf, StoreOutcomes, OthersStore

\* A process on its own leaves no other store under way.
LEMMA NobodyRaces ==
  ASSUME SerialInv, [Next]_vars
  PROVE  ~raced'
<1>1. ASSUME NEW c \in Calls, hook[c].pc # "idle"
      PROVE  ~OthersStore(c)
  BY <1>1 DEF SerialInv, Alone, OthersStore, HumanStoring, Storing
<1>2. ASSUME NEW c \in Calls, StoreSession(c) \/ Kill(c)
                             \/ \E head \in Heads \cup {NoValue} : RecordTurnStart(c, head)
      PROVE  ~raced'
  <2>1. hook[c].pc # "idle"
    BY <1>2 DEF StoreSession, Kill, RecordTurnStart
  <2> QED
    BY <1>1, <1>2, <2>1 DEF SerialInv, StoreSession, Kill, RecordTurnStart, StoreOf
<1>3. CASE StoreOverride \/ KillOverride
  <2>1. human.pc = "recording"
    BY <1>3 DEF StoreOverride, KillOverride, HumanStoring
  <2>2. Storing = {}
    BY <2>1 DEF SerialInv, Alone, Storing
  <2> QED
    BY <1>3, <2>2 DEF SerialInv, StoreOverride, KillOverride
<1>4. ASSUME NEW c \in Calls,
             \/ (\E r \in Requests : StartHook(c, r)) \/ FailOpen(c) \/ Judged(c)
             \/ RecordRoundLimit(c) \/ RecordPartialCoverage(c) \/ PrintAnswer(c) \/ StartTurn(c)
      PROVE  ~raced'
  BY <1>4 DEF SerialInv, StartHook, FailOpen, Judged, RecordRoundLimit, RecordPartialCoverage,
              PrintAnswer, StartTurn
<1>5. CASE \/ \E rules \in OverrideSets : StartOverride(rules)
           \/ \E r \in Rules : PushOverride(r)
           \/ PruneStale \/ UNCHANGED vars
  BY <1>5 DEF SerialInv, StartOverride, PushOverride, PruneStale, vars
<1> QED
  BY <1>2, <1>3, <1>4, <1>5 DEF Next, HookStep, HumanStep

\* A process that is gone claims nothing.
LEMMA IdleIsFresh ==
  ASSUME NEW h, h.pc = "idle", NEW s, NEW d
  PROVE  HookIsFresh(h, s) /\ DenialIsCounted(h, s, d)
BY DEF HookIsFresh, DenialIsCounted

\* The invariant after a step of the one hook that runs.
LEMMA HookAlone ==
  ASSUME SerialInv, IInv', ~raced', NEW c \in Calls,
         \A d \in Calls \ {c} : hook[d].pc = "idle" /\ hook'[d] = hook[d],
         human.pc = "idle", human' = human,
         HookIsFresh(hook'[c], session'), DenialIsCounted(hook'[c], session', denials'),
         \A k \in Kinds, r \in Rules : denials'[k][r] <= session'.loops[k].denied[r],
         granted' \subseteq session'.overrides
  PROVE  SerialInv'
<1>1. \A d \in Calls : HookIsFresh(hook'[d], session') /\ DenialIsCounted(hook'[d], session', denials')
  BY IdleIsFresh
<1>2. Alone' /\ HumanIsFresh'
  BY DEF Alone, HumanIsFresh
<1> QED
  BY <1>1, <1>2 DEF SerialInv

-----------------------------------------------------------------------------
(* The steps of a hook.                                                    *)

\* The types of the process that runs.
LEMMA HookTypes ==
  ASSUME SerialInv, NEW c \in Calls
  PROVE  /\ hook[c] \in Hook /\ hook[c].req.kind \in Kinds /\ hook[c].mem \in Session
         /\ hook[c].window \in SUBSET Rules /\ session \in Session
         /\ hook[c].pc \notin {"idle", "turn"} => hook[c].req.artifact \in Artifacts
         /\ denials \in [Kinds -> [Rules -> Nat]] /\ MaxRounds \in Nat
BY LoopAssumption DEF SerialInv, IInv, TypeOK, Evidence, HookOK, Hook, Request

LEMMA StartSerial ==
  ASSUME ~Overlap, SerialInv, IInv', ~raced', NEW c \in Calls,
         (\E r \in Requests : StartHook(c, r)) \/ StartTurn(c)
  PROVE  SerialInv'
<1>1. human.pc = "idle" /\ \A d \in Calls \ {c} : hook[d].pc = "idle"
  BY OnlyProcess DEF SerialInv, StartHook, StartTurn
<1>2. session \in Session /\ hook \in [Calls -> Hook]
  BY DEF SerialInv, IInv, TypeOK
<1>3. UNCHANGED <<session, human, granted, denials>> /\ \A d \in Calls \ {c} : hook'[d] = hook[d]
  BY <1>2 DEF StartHook, StartTurn, historyVars
<1>4. HookIsFresh(hook'[c], session) /\ DenialIsCounted(hook'[c], session, denials)
  <2>1. CASE StartTurn(c)
    <3>1. hook'[c] = [IdleHook EXCEPT !.pc = "turn", !.mem = session]
      BY <1>2, <2>1 DEF StartTurn
    <3>2. hook'[c].pc = "turn" /\ hook'[c].mem = session
      BY <3>1 DEF IdleHook
    <3> QED
      BY <3>2 DEF HookIsFresh, DenialIsCounted
  <2>2. ASSUME NEW r \in Requests, StartHook(c, r)
        PROVE  HookIsFresh(hook'[c], session) /\ DenialIsCounted(hook'[c], session, denials)
    <3> DEFINE s == IF r.tracked THEN session ELSE EmptySession
    <3>1. /\ hook'[c].pc = "pipeline" /\ hook'[c].req = r /\ hook'[c].mem = s
          /\ hook'[c].window = GatherRules(s, r.kind, r.artifact)
      BY <1>2, <2>2 DEF StartHook, IdleHook
    <3>2. r.tracked => s = session /\ GatherRules(session, r.kind, r.artifact)
                                       \subseteq Candidates(session, r.kind, r.artifact)
      BY <1>2, GatherSubset, LoopAssumption
    <3> QED
      BY <3>1, <3>2 DEF HookIsFresh, DenialIsCounted
  <2> QED
    BY <2>1, <2>2
<1> QED
  BY <1>1, <1>3, <1>4, HookAlone DEF SerialInv

LEMMA JudgedSerial ==
  ASSUME ~Overlap, SerialInv, IInv', ~raced', NEW c \in Calls, Judged(c)
  PROVE  SerialInv'
<1> DEFINE h == hook[c]
<1>1. h.pc = "pipeline"
  BY DEF Judged
<1>2. human.pc = "idle" /\ \A d \in Calls \ {c} : hook[d].pc = "idle"
  BY <1>1, OnlyProcess DEF SerialInv
<1>3. hook \in [Calls -> Hook]
  BY DEF SerialInv, IInv, TypeOK
<1>4. UNCHANGED <<session, human, granted, denials>> /\ \A d \in Calls \ {c} : hook'[d] = hook[d]
  BY <1>3 DEF Judged
<1>5. PICK verdict \in [h.window -> Verdicts] :
        LET inTheWay == {r \in h.window : Blocks(verdict[r])}
            s        == IF h.req.tracked
                          THEN RecordVerdicts(h.mem, h.req.kind, h.req.artifact,
                                              h.window, inTheWay)
                          ELSE h.mem
            answer   == IF h.req.tracked THEN Decide(s, h.req.kind, inTheWay)
                        ELSE IF inTheWay = {} THEN "clean" ELSE "deny"
        IN  hook' = [hook EXCEPT ![c] =
              [h EXCEPT !.mem = s,
                        !.blocking = inTheWay,
                        !.decision = answer,
                        !.pc = IF ~h.req.tracked THEN "answer"
                               ELSE IF answer = "limit" THEN "audit_limit"
                               ELSE "store"]]
  BY DEF Judged
<1> DEFINE inTheWay == {r \in h.window : Blocks(verdict[r])}
           s == RecordVerdicts(h.mem, h.req.kind, h.req.artifact, h.window, inTheWay)
           answer == Decide(s, h.req.kind, inTheWay)
<1>6. CASE ~h.req.tracked
  <2>1. hook'[c].pc = "answer" /\ ~hook'[c].req.tracked
    BY <1>3, <1>5, <1>6 DEF Hook
  <2>2. HookIsFresh(hook'[c], session) /\ DenialIsCounted(hook'[c], session, denials)
    BY <2>1 DEF HookIsFresh, DenialIsCounted
  <2> QED
    BY <1>2, <1>4, <2>2, HookAlone DEF SerialInv
<1>7. CASE h.req.tracked
  <2>1. /\ hook'[c].mem = s /\ hook'[c].blocking = inTheWay /\ hook'[c].decision = answer
        /\ hook'[c].req = h.req /\ hook'[c].window = h.window
        /\ hook'[c].pc = IF answer = "limit" THEN "audit_limit" ELSE "store"
    BY <1>3, <1>5, <1>7 DEF Hook
  <2>2. h.mem = session /\ h.window \subseteq Candidates(session, h.req.kind, h.req.artifact)
    BY <1>1, <1>7 DEF SerialInv, HookIsFresh
  <2>3. inTheWay \subseteq h.window
    OBVIOUS
  <2>4. answer = "deny" => \E r \in inTheWay : s.loops[h.req.kind].denied[r] <= MaxRounds
    <3>1. /\ session \in Session /\ h.req.kind \in Kinds /\ h.req.artifact \in Artifacts
          /\ h.window \in SUBSET Rules /\ MaxRounds \in Nat
      BY <1>1, HookTypes
    <3>2. s \in Session
      BY <2>2, <2>3, <3>1, RecordVerdictsType
    <3>t. inTheWay \subseteq Rules
      BY <2>3, <3>1
    <3> HIDE DEF inTheWay, s
    <3>3. \A r \in inTheWay : s.loops[h.req.kind].denied[r] \in Nat
      BY <3>t, <3>1, <3>2 DEF Session, LoopState
    <3> QED
      BY <3>1, <3>3 DEF Decide, DenyLimitExceeded
  <2> HIDE DEF inTheWay, s, answer
  <2>5. s = RecordVerdicts(session, h.req.kind, h.req.artifact, h.window, inTheWay)
    BY <2>2 DEF s
  <2>6. HookIsFresh(hook'[c], session) /\ DenialIsCounted(hook'[c], session, denials)
    BY <1>7, <2>1, <2>2, <2>3, <2>4, <2>5 DEF HookIsFresh, DenialIsCounted
  <2> QED
    BY <1>2, <1>4, <2>6, HookAlone DEF SerialInv
<1> QED
  BY <1>6, <1>7

LEMMA StoreSerial ==
  ASSUME ~Overlap, SerialInv, IInv', ~raced', NEW c \in Calls, StoreSession(c)
  PROVE  /\ SerialInv'
         /\ session' = RecordVerdicts(session, hook[c].req.kind, hook[c].req.artifact,
                                      hook[c].window, hook[c].blocking)
<1> DEFINE h == hook[c]
<1>1. h.pc = "store" /\ StoreOf(c, h.mem)
  BY DEF StoreSession
<1>2. human.pc = "idle" /\ \A d \in Calls \ {c} : hook[d].pc = "idle"
  BY <1>1, OnlyProcess DEF SerialInv
<1>3. session' = h.mem
  BY <1>1, StoreAlone DEF SerialInv
<1>4. /\ h.req.tracked /\ h.blocking \subseteq h.window
      /\ h.mem = RecordVerdicts(session, h.req.kind, h.req.artifact, h.window, h.blocking)
  BY <1>1 DEF SerialInv, HookIsFresh
<1>t. /\ h \in Hook /\ h.req.kind \in Kinds /\ h.req.artifact \in Artifacts
      /\ h.window \in SUBSET Rules /\ h.blocking \in SUBSET h.window
      /\ session \in Session /\ denials \in [Kinds -> [Rules -> Nat]]
      /\ hook \in [Calls -> Hook]
  BY <1>1, <1>4, HookTypes DEF SerialInv, IInv, TypeOK
<1>5. /\ session'.overrides = session.overrides
      /\ \A k \in Kinds, r \in Rules :
           session'.loops[k].denied[r] = IF k = h.req.kind /\ r \in h.blocking
                                           THEN session.loops[k].denied[r] + 1
                                           ELSE session.loops[k].denied[r]
  <2> DEFINE kind == h.req.kind  a == h.req.artifact  window == h.window  way == h.blocking
             t == RecordVerdicts(session, kind, a, window, way)
  <2>1. /\ t.overrides = session.overrides
        /\ \A k \in Kinds, r \in Rules :
             t.loops[k].denied[r] = IF k = kind /\ r \in way THEN session.loops[k].denied[r] + 1
                                    ELSE session.loops[k].denied[r]
    <3> HIDE DEF kind, a, window, way
    <3>1. /\ kind \in Kinds /\ a \in Artifacts /\ window \in SUBSET Rules
          /\ way \in SUBSET window /\ session \in Session
      BY <1>t DEF kind, a, window, way
    <3> QED
      BY <3>1 DEF RecordVerdicts, JudgedLoop, Session, LoopState
  <2>2. session' = t
    BY <1>3, <1>4
  <2> HIDE DEF t
  <2> QED
    BY <2>1, <2>2
<1>6. \A k \in Kinds, r \in Rules :
        denials[k][r] \in Nat /\ session.loops[k].denied[r] \in Nat
          /\ denials[k][r] <= session.loops[k].denied[r]
  BY <1>t DEF SerialInv, Session, LoopState
<1>7. /\ hook'[c].pc \in {"answer", "audit_partial"} /\ hook'[c].decision = h.decision
      /\ hook'[c].req = h.req /\ hook'[c].blocking = h.blocking
      /\ \A d \in Calls \ {c} : hook'[d] = hook[d]
      /\ UNCHANGED <<human, granted, denials>>
  BY <1>t DEF StoreSession, Hook
<1>8. HookIsFresh(hook'[c], session')
  BY <1>7 DEF HookIsFresh
<1>9. DenialIsCounted(hook'[c], session', denials')
  <2>1. h.decision = "deny" =>
          \E r \in h.blocking : session'.loops[h.req.kind].denied[r] <= MaxRounds
    BY <1>1, <1>3 DEF SerialInv, DenialIsCounted
  <2>2. \A r \in h.blocking : denials[h.req.kind][r] < session'.loops[h.req.kind].denied[r]
    BY <1>5, <1>6, <1>t
  <2> HIDE DEF h
  <2> QED
    BY <1>7, <2>1, <2>2 DEF DenialIsCounted
<1>10. \A k \in Kinds, r \in Rules : denials'[k][r] <= session'.loops[k].denied[r]
  BY <1>5, <1>6, <1>7
<1>11. granted' \subseteq session'.overrides
  BY <1>5, <1>7 DEF SerialInv
<1> QED
  BY <1>2, <1>3, <1>4, <1>7, <1>8, <1>9, <1>10, <1>11, HookAlone

LEMMA AuditSerial ==
  ASSUME ~Overlap, SerialInv, IInv', ~raced', NEW c \in Calls,
         RecordRoundLimit(c) \/ RecordPartialCoverage(c)
  PROVE  SerialInv'
<1> DEFINE h == hook[c]
<1>1. h.pc \in {"audit_limit", "audit_partial"}
  BY DEF RecordRoundLimit, RecordPartialCoverage
<1>2. human.pc = "idle" /\ \A d \in Calls \ {c} : hook[d].pc = "idle"
  BY <1>1, OnlyProcess DEF SerialInv
<1>3. h \in Hook /\ hook \in [Calls -> Hook]
  BY HookTypes DEF SerialInv, IInv, TypeOK
<1>4. h.decision \in {"limit", "clean"}
  BY <1>1 DEF SerialInv, HookIsFresh, IInv, Evidence, HookOK
<1>5. /\ hook'[c] = [h EXCEPT !.pc = IF h.pc = "audit_limit" THEN "store" ELSE "answer"]
      /\ \A d \in Calls \ {c} : hook'[d] = hook[d]
      /\ UNCHANGED <<session, human, granted, denials>>
  BY <1>3 DEF RecordRoundLimit, RecordPartialCoverage, historyVars
<1>6. /\ hook'[c].pc = IF h.pc = "audit_limit" THEN "store" ELSE "answer"
      /\ hook'[c].decision = h.decision /\ hook'[c].req = h.req /\ hook'[c].mem = h.mem
      /\ hook'[c].window = h.window /\ hook'[c].blocking = h.blocking
  BY <1>3, <1>5 DEF Hook
<1>7. HookIsFresh(hook'[c], session) /\ DenialIsCounted(hook'[c], session, denials)
  <2>1. HookIsFresh(h, session)
    BY DEF SerialInv
  <2> HIDE DEF h
  <2> QED
    BY <1>1, <1>4, <1>6, <2>1 DEF HookIsFresh, DenialIsCounted
<1> QED
  BY <1>2, <1>5, <1>7, HookAlone DEF SerialInv

LEMMA PrintSerial ==
  ASSUME ~Overlap, SerialInv, IInv', ~raced', NEW c \in Calls,
         FailOpen(c) \/ PrintAnswer(c) \/ Kill(c)
  PROVE  SerialInv'
<1> DEFINE h == hook[c]
<1>1. h.pc # "idle"
  BY DEF FailOpen, PrintAnswer, Kill
<1>2. human.pc = "idle" /\ \A d \in Calls \ {c} : hook[d].pc = "idle"
  BY <1>1, OnlyProcess DEF SerialInv
<1>3. /\ hook'[c] = IdleHook /\ \A d \in Calls \ {c} : hook'[d] = hook[d]
      /\ UNCHANGED <<session, human, granted>>
  BY DEF FailOpen, PrintAnswer, Kill, SerialInv, IInv, TypeOK, historyVars
<1>4. HookIsFresh(hook'[c], session) /\ DenialIsCounted(hook'[c], session, denials')
  BY <1>3, IdleIsFresh DEF IdleHook
<1>5. \A k \in Kinds, r \in Rules : denials'[k][r] <= session.loops[k].denied[r]
  <2>t. /\ h.req.kind \in Kinds /\ denials \in [Kinds -> [Rules -> Nat]]
        /\ \A k \in Kinds, r \in Rules :
             session.loops[k].denied[r] \in Nat /\ denials[k][r] <= session.loops[k].denied[r]
    BY HookTypes DEF SerialInv, Session, LoopState
  <2>1. CASE PrintAnswer(c) /\ h.decision = "deny" /\ h.req.tracked
    <3>1. \A r \in h.blocking : denials[h.req.kind][r] < session.loops[h.req.kind].denied[r]
      BY <2>1 DEF SerialInv, DenialIsCounted, PrintAnswer
    <3>2. denials' = [denials EXCEPT ![h.req.kind] =
                        [r \in Rules |-> IF r \in h.blocking THEN denials[h.req.kind][r] + 1
                                         ELSE denials[h.req.kind][r]]]
      BY <2>1, <2>t DEF PrintAnswer
    <3> HIDE DEF h
    <3> QED
      BY <2>t, <3>1, <3>2
  <2>2. CASE ~(PrintAnswer(c) /\ h.decision = "deny" /\ h.req.tracked)
    <3>1. denials' = denials
      BY <2>2 DEF FailOpen, PrintAnswer, Kill, historyVars
    <3> QED
      BY <2>t, <3>1
  <2> QED
    BY <2>1, <2>2
<1> QED
  BY <1>2, <1>3, <1>4, <1>5, HookAlone DEF SerialInv

LEMMA TurnSerial ==
  ASSUME ~Overlap, SerialInv, IInv', ~raced', NEW c \in Calls,
         NEW head \in Heads \cup {NoValue}, RecordTurnStart(c, head)
  PROVE  SerialInv' /\ session' = [session EXCEPT !.turnStart = head]
<1>1. hook[c].pc = "turn"
  BY DEF RecordTurnStart
<1>2. human.pc = "idle" /\ \A d \in Calls \ {c} : hook[d].pc = "idle"
  BY <1>1, OnlyProcess DEF SerialInv
<1>3. hook[c].mem = session /\ session \in Session
  BY <1>1 DEF SerialInv, HookIsFresh, IInv, TypeOK
<1>4. session' = [session EXCEPT !.turnStart = head]
  <2>1. CASE session.turnStart = head
    BY <1>3, <2>1 DEF RecordTurnStart, Session
  <2>2. CASE session.turnStart # head
    BY <1>1, <1>3, <2>2, StoreAlone DEF RecordTurnStart, SerialInv
  <2> QED
    BY <2>1, <2>2
<1>5. session'.loops = session.loops /\ session'.overrides = session.overrides
  BY <1>3, <1>4 DEF Session
<1>6. /\ hook'[c] = IdleHook /\ \A d \in Calls \ {c} : hook'[d] = hook[d]
      /\ UNCHANGED <<human, granted, denials>>
  BY DEF RecordTurnStart, SerialInv, IInv, TypeOK
<1>7. HookIsFresh(hook'[c], session') /\ DenialIsCounted(hook'[c], session', denials')
  BY <1>6, IdleIsFresh DEF IdleHook
<1> QED
  BY <1>2, <1>4, <1>5, <1>6, <1>7, HookAlone DEF SerialInv

-----------------------------------------------------------------------------
(* The steps of check-override, and of the pruning.                        *)

\* The invariant after a step that leaves every hook alone while they are idle.
LEMMA HumanAlone ==
  ASSUME SerialInv, IInv', ~raced', \A c \in Calls : hook[c].pc = "idle", hook' = hook,
         HumanIsFresh',
         \A k \in Kinds, r \in Rules : denials'[k][r] <= session'.loops[k].denied[r],
         granted' \subseteq session'.overrides
  PROVE  SerialInv'
<1>1. \A c \in Calls : HookIsFresh(hook'[c], session') /\ DenialIsCounted(hook'[c], session', denials')
  BY IdleIsFresh
<1>2. Alone'
  BY DEF Alone
<1> QED
  BY <1>1, <1>2 DEF SerialInv

LEMMA OverrideSerial ==
  ASSUME ~Overlap, SerialInv, IInv', ~raced', HumanStep
  PROVE  SerialInv'
<1>t. /\ session \in Session /\ human \in Human
      /\ \A k \in Kinds, r \in Rules : denials[k][r] <= session.loops[k].denied[r]
      /\ granted \subseteq session.overrides
  BY DEF SerialInv, IInv, TypeOK
<1>1. ASSUME NEW rules \in OverrideSets, StartOverride(rules)
      PROVE  SerialInv'
  <2>1. \A c \in Calls : hook[c].pc = "idle"
    BY <1>1 DEF StartOverride, MayStart, AllIdle
  <2>2. session = [session EXCEPT !.overrides = @ \cup (rules \ rules)]
    BY <1>t DEF Session
  <2>3. HumanIsFresh'
    BY <1>1, <2>2 DEF StartOverride, HumanIsFresh
  <2> QED
    BY <1>1, <1>t, <2>1, <2>3, HumanAlone DEF StartOverride, historyVars
<1>2. ASSUME NEW r \in Rules, PushOverride(r)
      PROVE  SerialInv'
  <2>1. \A c \in Calls : hook[c].pc = "idle"
    BY <1>2 DEF PushOverride, SerialInv, Alone
  <2>2. /\ human.todo \subseteq human.rules /\ r \in human.todo
        /\ human.mem = [session EXCEPT !.overrides = @ \cup (human.rules \ human.todo)]
    BY <1>2 DEF PushOverride, SerialInv, HumanIsFresh
  <2>3. /\ human'.todo = human.todo \ {r} /\ human'.rules = human.rules
        /\ human'.mem = [human.mem EXCEPT !.overrides = @ \cup {r}]
    BY <1>2, <1>t DEF PushOverride, Human
  <2>4. human'.mem = [session EXCEPT !.overrides = @ \cup (human'.rules \ human'.todo)]
    <3>1. (human.rules \ human.todo) \cup {r} = human'.rules \ human'.todo
      BY <2>2, <2>3
    <3>2. human'.mem = [session EXCEPT !.overrides = (@ \cup (human.rules \ human.todo)) \cup {r}]
      BY <1>t, <2>2, <2>3 DEF Session
    <3> QED
      BY <3>1, <3>2
  <2>5. HumanIsFresh'
    BY <1>2, <2>2, <2>3, <2>4 DEF HumanIsFresh, PushOverride
  <2> QED
    BY <1>2, <1>t, <2>1, <2>5, HumanAlone DEF PushOverride, historyVars
<1>3. CASE StoreOverride
  <2>1. \A c \in Calls : hook[c].pc = "idle"
    BY <1>3 DEF StoreOverride, HumanStoring, SerialInv, Alone
  <2>2. session' = [session EXCEPT !.overrides = @ \cup human.rules]
    BY <1>3, <2>1 DEF StoreOverride, StoreOutcomes, HumanStoring, Storing, SerialInv, HumanIsFresh
  <2>3. session'.loops = session.loops /\ session'.overrides = session.overrides \cup human.rules
    BY <1>t, <2>2 DEF Session
  <2>4. HumanIsFresh'
    BY <1>3 DEF StoreOverride, HumanIsFresh, IdleHuman
  <2> QED
    BY <1>3, <1>t, <2>1, <2>3, <2>4, HumanAlone DEF StoreOverride
<1>4. CASE KillOverride
  <2>1. \A c \in Calls : hook[c].pc = "idle"
    BY <1>4 DEF KillOverride, SerialInv, Alone
  <2>2. HumanIsFresh'
    BY <1>4 DEF KillOverride, HumanIsFresh, IdleHuman
  <2> QED
    BY <1>4, <1>t, <2>1, <2>2, HumanAlone DEF KillOverride, historyVars
<1> QED
  BY <1>1, <1>2, <1>3, <1>4 DEF HumanStep

LEMMA PruneSerial ==
  ASSUME SerialInv, IInv', ~raced', PruneStale
  PROVE  SerialInv'
<1>1. \A c \in Calls : hook[c].pc = "idle"
  BY DEF PruneStale, AllIdle
<1>2. HumanIsFresh'
  BY DEF PruneStale, AllIdle, HumanIsFresh
<1>3. \A k \in Kinds, r \in Rules : denials'[k][r] <= session'.loops[k].denied[r]
  BY DEF PruneStale, PerRule, EmptySession, EmptyLoop
<1>4. granted' \subseteq session'.overrides
  BY DEF PruneStale
<1> QED
  BY <1>1, <1>2, <1>3, <1>4, HumanAlone DEF PruneStale

-----------------------------------------------------------------------------
(* The invariant.                                                          *)

LEMMA InitSerial == Init => SerialInv
<1> SUFFICES ASSUME Init PROVE SerialInv
  OBVIOUS
<1>1. IInv
  BY InitType, InitEvidence DEF IInv
<1>2. \A c \in Calls : hook[c].pc = "idle"
  BY DEF Init, IdleHook
<1>3. human.pc = "idle"
  BY DEF Init, IdleHuman
<1>4. Alone /\ HumanIsFresh
  BY <1>2, <1>3 DEF Alone, HumanIsFresh
<1>5. \A c \in Calls : HookIsFresh(hook[c], session) /\ DenialIsCounted(hook[c], session, denials)
  BY <1>2, IdleIsFresh
<1>6. \A k \in Kinds, r \in Rules : denials[k][r] <= session.loops[k].denied[r]
  BY DEF Init, PerRule, EmptySession, EmptyLoop
<1>7. granted \subseteq session.overrides
  BY DEF Init
<1>8. ~raced
  BY DEF Init
<1> QED
  BY <1>1, <1>4, <1>5, <1>6, <1>7, <1>8 DEF SerialInv

LEMMA StepSerial ==
  ASSUME ~Overlap, SerialInv, [Next]_vars
  PROVE  SerialInv'
<1>i. IInv' /\ ~raced'
  BY StepType, StepEvidence, NobodyRaces DEF SerialInv, IInv
<1>1. CASE HumanStep
  BY <1>1, <1>i, OverrideSerial
<1>2. CASE PruneStale
  BY <1>2, <1>i, PruneSerial
<1>3. ASSUME NEW c \in Calls, HookStep(c)
      PROVE  SerialInv'
  BY <1>3, <1>i, StartSerial, JudgedSerial, StoreSerial, AuditSerial, PrintSerial, TurnSerial
     DEF HookStep
<1>4. CASE UNCHANGED vars
  BY <1>4, <1>i DEF vars, historyVars, SerialInv, Alone, HumanIsFresh
<1> QED
  BY <1>1, <1>2, <1>3, <1>4 DEF Next

\* While processes of a session do not overlap, the one that runs works on what
\* the session file holds, and nothing that was recorded is missing from it.
THEOREM SerialInductive ==
  ASSUME ~Overlap
  PROVE  Spec => []SerialInv
<1>1. SerialInv /\ [Next]_vars => SerialInv'
  BY StepSerial
<1> QED
  BY <1>1, InitSerial, PTL DEF Spec

-----------------------------------------------------------------------------
(* What it promises.                                                       *)

\* "This rule will not be re-checked for this session": no judge of a hook that
\* starts after an override was recorded is handed the overridden rule.
THEOREM OverridesAreHonoured ==
  ASSUME ~Overlap
  PROVE  Spec => OverrideHonoured
<1> DEFINE A == \A c \in Calls :
       (hook[c].pc = "idle" /\ hook'[c].pc = "pipeline" /\ hook'[c].req.tracked)
         => hook'[c].window \cap granted = {}
<1>1. SerialInv /\ SerialInv' /\ [Next]_vars => [A]_vars
  <2> SUFFICES ASSUME SerialInv, SerialInv', [Next]_vars, UNCHANGED vars \/ Next,
                      NEW c \in Calls, hook[c].pc = "idle", hook'[c].pc = "pipeline",
                      hook'[c].req.tracked
               PROVE  hook'[c].window \cap granted = {}
    OBVIOUS
  <2>1. hook'[c].window \subseteq Candidates(session', hook'[c].req.kind, hook'[c].req.artifact)
    BY DEF SerialInv, HookIsFresh
  <2>2. granted' \subseteq session'.overrides
    BY DEF SerialInv
  <2>3. hook'[c].window \cap session'.overrides = {}
    BY <2>1 DEF Candidates, Excludes
  <2>4. hook # hook'
    OBVIOUS
  <2>5. granted \subseteq granted'
    <3>1. CASE PruneStale
      BY <3>1, <2>4 DEF PruneStale
    <3>2. CASE UNCHANGED vars
      BY <3>2, <2>4 DEF vars
    <3>3. CASE HumanStep
      BY <3>3, <2>4 DEF HumanStep, StartOverride, PushOverride, StoreOverride, KillOverride
    <3>4. ASSUME NEW d \in Calls, HookStep(d)
          PROVE  granted \subseteq granted'
      BY <3>4 DEF HookStep, StartHook, FailOpen, Judged, RecordRoundLimit, StoreSession,
         RecordPartialCoverage, PrintAnswer, Kill, StartTurn, RecordTurnStart, historyVars
    <3> QED
      BY <3>1, <3>2, <3>3, <3>4 DEF Next
  <2> QED
    BY <2>2, <2>3, <2>5
<1>2. Spec => [][A]_vars
  BY <1>1, SerialInductive, PTL DEF Spec
<1> QED
  BY <1>2 DEF OverrideHonoured

\* A denial is printed only while a rule it names has been denied fewer than
\* MaxRounds times in its loop.
THEOREM DenialsAreBudgeted ==
  ASSUME ~Overlap
  PROVE  Spec => BudgetedDeny
<1> DEFINE A == \A c \in Calls :
       (PrintAnswer(c) /\ hook[c].req.tracked /\ hook[c].decision = "deny")
         => \E r \in hook[c].blocking : denials[hook[c].req.kind][r] < MaxRounds
<1>1. SerialInv => [A]_vars
  <2> SUFFICES ASSUME SerialInv, NEW c \in Calls, PrintAnswer(c), hook[c].req.tracked,
                      hook[c].decision = "deny"
               PROVE  \E r \in hook[c].blocking : denials[hook[c].req.kind][r] < MaxRounds
    OBVIOUS
  <2> DEFINE kind == hook[c].req.kind
  <2>1. /\ \A r \in hook[c].blocking : denials[kind][r] < session.loops[kind].denied[r]
        /\ \E r \in hook[c].blocking : session.loops[kind].denied[r] <= MaxRounds
    BY DEF PrintAnswer, SerialInv, DenialIsCounted
  <2>2. hook[c].blocking \subseteq Rules /\ kind \in Kinds
    BY HookTypes DEF Hook
  <2>3. \A r \in Rules :
          denials[kind][r] \in Nat /\ session.loops[kind].denied[r] \in Nat /\ MaxRounds \in Nat
    BY <2>2, HookTypes DEF Session, LoopState
  <2> HIDE DEF kind
  <2>4. PICK r \in hook[c].blocking :
          session.loops[kind].denied[r] <= MaxRounds /\ denials[kind][r] < session.loops[kind].denied[r]
    BY <2>1
  <2>5. denials[kind][r] < MaxRounds
    BY <2>2, <2>3, <2>4
  <2> QED
    BY <2>4, <2>5 DEF kind
<1>2. Spec => [][A]_vars
  BY <1>1, SerialInductive, PTL
<1> QED
  BY <1>2 DEF BudgetedDeny

-----------------------------------------------------------------------------
(* The session file implements the ledger.                                 *)

LEMMA InitLedger == Init => Ledger!Init
BY DEF Init, Ledger!Init, Ledger!Kinds, Kinds, EmptySession, EmptyLoop

\* A step that leaves the session file alone is none of the ledger's.
LEMMA SameSession == session' = session => UNCHANGED Ledger!vars
BY DEF Ledger!vars

\* The store of a judged round is the ledger's round, or no step when every
\* applicable rule was settled and no judge ran.
LEMMA StoreLedger ==
  ASSUME ~Overlap, SerialInv, IInv', ~raced', NEW c \in Calls, StoreSession(c)
  PROVE  [Ledger!Next]_(Ledger!vars)
<1>1. hook[c].pc = "store"
  BY DEF StoreSession
<1>2. /\ hook[c].req.kind \in Kinds /\ hook[c].req.artifact \in Artifacts
      /\ hook[c].window \in SUBSET Rules /\ hook[c].blocking \in SUBSET hook[c].window
      /\ hook[c].window \subseteq Candidates(session, hook[c].req.kind, hook[c].req.artifact)
      /\ session \in Session
  BY <1>1, HookTypes DEF SerialInv, HookIsFresh
<1>3. PICK kind \in Kinds, a \in Artifacts, window \in SUBSET Rules, way \in SUBSET Rules :
        /\ way \subseteq window
        /\ kind = hook[c].req.kind /\ a = hook[c].req.artifact
        /\ window = hook[c].window /\ way = hook[c].blocking
  BY <1>2
<1>4. session' = RecordVerdicts(session, kind, a, window, way)
  BY <1>3, StoreSerial
<1>5. session \in Session /\ window \subseteq Candidates(session, kind, a)
  BY <1>2, <1>3
<1>6. session' = [session EXCEPT !.loops[kind] = JudgedLoop(session.loops[kind], a, window, way)]
  BY <1>4 DEF RecordVerdicts
<1>7. /\ session.loops \in [Kinds -> LoopState]
      /\ session'.overrides = session.overrides /\ session'.turnStart = session.turnStart
      /\ session'.loops = [session.loops EXCEPT ![kind] = JudgedLoop(session.loops[kind], a, window, way)]
  BY <1>5, <1>6 DEF Session
<1>8. session.loops[kind] \in LoopState
  BY <1>3, <1>7
<1>9. CASE window = {}
  <2>1. way = {}
    BY <1>3, <1>9
  <2>2. JudgedLoop(session.loops[kind], a, window, way) = session.loops[kind]
    BY <1>8, <1>9, <2>1 DEF JudgedLoop, LoopState
  <2>3. session'.loops = session.loops
    BY <1>7, <2>2
  <2> QED
    BY <1>7, <2>3 DEF Ledger!vars
<1>10. CASE window # {}
  <2> DEFINE new == JudgedLoop(session.loops[kind], a, window, way)
  <2>1. /\ new.rounds = session.loops[kind].rounds + 1
        /\ new.cleared = [r \in Rules |-> IF r \in way THEN NoValue ELSE IF r \in window THEN a
                                          ELSE session.loops[kind].cleared[r]]
        /\ new.denied = [r \in Rules |-> IF r \in way THEN session.loops[kind].denied[r] + 1
                                         ELSE session.loops[kind].denied[r]]
    BY <1>3, <1>10 DEF JudgedLoop
  <2>2. window \cap session.overrides = {}
    BY <1>5 DEF Candidates, Excludes
  <2> HIDE DEF new
  <2>3. \A k \in Kinds : session'.loops[k] = IF k = kind THEN new ELSE session.loops[k]
    BY <1>3, <1>7 DEF new
  <2>4. Ledger!Round(kind, a, window, way)
    <3>1. [k \in Kinds |-> session'.loops[k].rounds]
            = [[k \in Kinds |-> session.loops[k].rounds] EXCEPT ![kind] = @ + 1]
      BY <1>3, <2>1, <2>3
    <3>2. [k \in Kinds |-> session'.loops[k].cleared]
            = [[k \in Kinds |-> session.loops[k].cleared] EXCEPT ![kind] =
                 [r \in Rules |-> IF r \in way THEN NoValue ELSE IF r \in window THEN a ELSE @[r]]]
      <4> DEFINE was == [k \in Kinds |-> session.loops[k].cleared]
      <4>1. was[kind] = session.loops[kind].cleared
        BY <1>3
      <4>2. new.cleared = [r \in Rules |-> IF r \in way THEN NoValue ELSE IF r \in window THEN a ELSE was[kind][r]]
        BY <2>1, <4>1
      <4>3. [k \in Kinds |-> session'.loops[k].cleared] = [was EXCEPT ![kind] = new.cleared]
        BY <1>3, <2>3
      <4> HIDE DEF was
      <4> QED
        BY <4>2, <4>3 DEF was
    <3>3. [k \in Kinds |-> session'.loops[k].denied]
            = [[k \in Kinds |-> session.loops[k].denied] EXCEPT ![kind] =
                 [r \in Rules |-> IF r \in way THEN @[r] + 1 ELSE @[r]]]
      <4> DEFINE was == [k \in Kinds |-> session.loops[k].denied]
      <4>1. was[kind] = session.loops[kind].denied
        BY <1>3
      <4>2. new.denied = [r \in Rules |-> IF r \in way THEN was[kind][r] + 1 ELSE was[kind][r]]
        BY <2>1, <4>1
      <4>3. [k \in Kinds |-> session'.loops[k].denied] = [was EXCEPT ![kind] = new.denied]
        BY <1>3, <2>3
      <4> HIDE DEF was
      <4> QED
        BY <4>2, <4>3 DEF was
    <3> QED
      BY <1>7, <1>10, <2>2, <3>1, <3>2, <3>3 DEF Ledger!Round
  <2>5. kind \in Ledger!Kinds
    BY <1>3 DEF Ledger!Kinds, Kinds
  <2> QED
    BY <1>3, <2>4, <2>5 DEF Ledger!Next
<1> QED
  BY <1>9, <1>10

LEMMA TurnLedger ==
  ASSUME ~Overlap, SerialInv, IInv', ~raced', NEW c \in Calls,
         NEW head \in Heads \cup {NoValue}, RecordTurnStart(c, head)
  PROVE  [Ledger!Next]_(Ledger!vars)
<1>1. session' = [session EXCEPT !.turnStart = head] /\ session \in Session
  BY TurnSerial DEF SerialInv, IInv, TypeOK
<1>2. session'.loops = session.loops /\ session'.overrides = session.overrides
      /\ session'.turnStart = head
  BY <1>1 DEF Session
<1>3. Ledger!Turn(head)
  BY <1>2 DEF Ledger!Turn
<1> QED
  BY <1>3 DEF Ledger!Next

LEMMA OverrideLedger ==
  ASSUME SerialInv, HumanStep
  PROVE  [Ledger!Next]_(Ledger!vars)
<1>1. CASE StoreOverride
  <2>1. session \in Session /\ human \in Human
    BY DEF SerialInv, IInv, TypeOK
  <2>2. \A c \in Calls : hook[c].pc = "idle"
    BY <1>1 DEF StoreOverride, HumanStoring, SerialInv, Alone
  <2>3. session' = [session EXCEPT !.overrides = @ \cup human.rules]
    BY <1>1, <2>2 DEF StoreOverride, StoreOutcomes, HumanStoring, Storing, SerialInv, HumanIsFresh
  <2>4. /\ session'.loops = session.loops /\ session'.turnStart = session.turnStart
        /\ session'.overrides = session.overrides \cup human.rules
    BY <2>1, <2>3 DEF Session
  <2>5. Ledger!Override(human.rules)
    BY <2>4 DEF Ledger!Override
  <2> QED
    BY <2>1, <2>5 DEF Ledger!Next, Human
<1>2. CASE ~StoreOverride
  <2>1. session' = session
    BY <1>2 DEF HumanStep, StartOverride, PushOverride, KillOverride
  <2> QED
    BY <2>1, SameSession
<1> QED
  BY <1>1, <1>2

LEMMA StepLedger ==
  ASSUME ~Overlap, SerialInv, [Next]_vars
  PROVE  [Ledger!Next]_(Ledger!vars)
<1>i. IInv' /\ ~raced'
  BY StepType, StepEvidence, NobodyRaces DEF SerialInv, IInv
<1>1. CASE HumanStep
  BY <1>1, OverrideLedger
<1>2. CASE PruneStale
  <2>1. session' = EmptySession
    BY <1>2 DEF PruneStale
  <2>2. Ledger!Forget
    BY <2>1 DEF Ledger!Forget, Ledger!Kinds, Kinds, EmptySession, EmptyLoop
  <2> QED
    BY <2>2 DEF Ledger!Next
<1>3. ASSUME NEW c \in Calls, HookStep(c)
      PROVE  [Ledger!Next]_(Ledger!vars)
  <2>1. CASE StoreSession(c)
    BY <2>1, <1>i, StoreLedger
  <2>2. ASSUME NEW head \in Heads \cup {NoValue}, RecordTurnStart(c, head)
        PROVE  [Ledger!Next]_(Ledger!vars)
    BY <2>2, <1>i, TurnLedger
  <2>3. CASE \/ (\E r \in Requests : StartHook(c, r)) \/ FailOpen(c) \/ Judged(c)
             \/ RecordRoundLimit(c) \/ RecordPartialCoverage(c) \/ PrintAnswer(c)
             \/ Kill(c) \/ StartTurn(c)
    <3>1. session' = session
      BY <2>3 DEF StartHook, FailOpen, Judged, RecordRoundLimit, RecordPartialCoverage,
                  PrintAnswer, Kill, StartTurn
    <3> QED
      BY <3>1, SameSession
  <2> QED
    BY <1>3, <2>1, <2>2, <2>3 DEF HookStep
<1>4. CASE UNCHANGED vars
  BY <1>4, SameSession DEF vars
<1> QED
  BY <1>1, <1>2, <1>3, <1>4 DEF Next

\* Every store of the session file is one step of a memory that loses nothing:
\* without overlap the file implements the ledger.
THEOREM SessionIsAtomic ==
  ASSUME ~Overlap
  PROVE  Spec => AtomicSession
<1>1. SerialInv /\ [Next]_vars => [Ledger!Next]_(Ledger!vars)
  BY StepLedger
<1>2. Spec => Ledger!Init /\ [][Ledger!Next]_(Ledger!vars)
  BY <1>1, InitLedger, SerialInductive, PTL DEF Spec
<1> QED
  BY <1>2 DEF AtomicSession, Ledger!Spec

-----------------------------------------------------------------------------
(* The rotation.                                                           *)

LEMMA DivisionFacts ==
  ASSUME NEW a \in Int, NEW n \in Nat \ {0}
  PROVE  /\ a \div n \in Int /\ a % n \in 0..(n - 1)
         /\ a = n * (a \div n) + (a % n)
  OBVIOUS

LEMMA SmallMultiple ==
  ASSUME NEW n \in Nat \ {0}, NEW t \in Int, n * t < n, -n < n * t
  PROVE  t = 0
<1>1. CASE t >= 1
  <2>1. n * t = n + n * (t - 1)
    OBVIOUS
  <2>2. n * (t - 1) >= 0
    BY <1>1
  <2> QED
    BY <2>1, <2>2
<1>2. CASE t <= -1
  <2>1. n * t = -n + n * (t + 1)
    OBVIOUS
  <2>2. n * (t + 1) <= 0
    BY <1>2
  <2> QED
    BY <2>1, <2>2
<1> QED
  BY <1>1, <1>2

LEMMA ModUnique ==
  ASSUME NEW n \in Nat \ {0}, NEW q \in Int, NEW r \in 0..(n - 1), NEW a \in Int, a = n * q + r
  PROVE  a % n = r
<1> PICK b \in Int, s \in 0..(n - 1) : b = a \div n /\ s = a % n /\ a = n * b + s
  BY DivisionFacts
<1>1. n * (b - q) = r - s
  OBVIOUS
<1>2. b - q = 0
  BY <1>1, SmallMultiple
<1> QED
  BY <1>1, <1>2

LEMMA ShiftedBy ==
  ASSUME NEW x \in Int, NEW u \in Int, NEW v \in Int, NEW y \in Int, NEW z \in Int,
         NEW d \in Int, NEW m \in Int, NEW o \in Int,
         x - u = y + d, d = v + m, u + v = z + o
  PROVE  x - o = (y + z) + m
  OBVIOUS

LEMMA Products ==
  /\ \A a, b \in Int : a * b \in Int
  /\ \A a, b, c \in Int : (a + b) * c = a * c + c * b /\ c * (a + b) = c * a + c * b
  OBVIOUS

\* The index of x counted from an offset of j strides of the width.
LEMMA IndexAfter ==
  ASSUME NEW n \in Nat \ {0}, NEW width \in Nat \ {0}, NEW first \in Int, NEW x \in Int,
         NEW d \in Int, NEW e \in Int, x - first * width = n * e + d,
         NEW j \in Int, NEW m \in 0..(n - 1), d = width * j + m
  PROVE  (x - (((first + j) * width) % n)) % n = m
<1>0. \A b, g \in Int : b = n * g + m => b % n = m
  BY ModUnique
<1> DEFINE u == first * width
           v == width * j
           p == (first + j) * width
<1>1. u \in Int /\ v \in Int /\ p \in Int /\ p = u + v
  BY Products
<1> PICK y \in Int : y = n * e
  BY Products
<1>2. x - u = y + d /\ d = v + m
  OBVIOUS
<1> HIDE DEF u, v, p
<1> PICK f, o : f = p \div n /\ o = p % n
  OBVIOUS
<1>3. f \in Int /\ o \in 0..(n - 1) /\ p = n * f + o
  BY <1>1, DivisionFacts
<1> PICK z \in Int : z = n * f
  BY <1>3, Products
<1>4. x - o = (y + z) + m
  <2>1. m \in Int /\ o \in Int /\ u + v = z + o
    BY <1>1, <1>3
  <2> QED
    BY <1>1, <1>2, <2>1, ShiftedBy
<1>5. y + z = n * (e + f)
  BY <1>3, Products
<1> PICK b, g : b = x - o /\ g = e + f
  OBVIOUS
<1>6. b \in Int /\ g \in Int /\ b = n * g + m
  BY <1>3, <1>4, <1>5
<1>7. b % n = m
  BY <1>0, <1>6, Zenon
<1> QED
  BY <1>7 DEF p

\* A turn of the window: whatever the round, one of the next ones reaches x.
LEMMA TurnReaches ==
  ASSUME NEW n \in Nat \ {0}, NEW width \in Nat \ {0}, NEW first \in Int, NEW x \in Int
  PROVE  \E j \in 0..((n - 1) \div width) :
           (x - (((first + j) * width) % n)) % n < width
<1>0. \A d, e, j \in Int : \A m \in 0..(n - 1) :
        x - first * width = n * e + d /\ d = width * j + m =>
          (x - (((first + j) * width) % n)) % n = m
  BY IndexAfter
<1> PICK d, e : d = (x - first * width) % n /\ e = (x - first * width) \div n
  OBVIOUS
<1>1. x - first * width \in Int
  OBVIOUS
<1>2. d \in 0..(n - 1) /\ e \in Int /\ x - first * width = n * e + d
  BY <1>1, DivisionFacts
<1> PICK j, m : j = d \div width /\ m = d % width
  OBVIOUS
<1>3. j \in Int /\ m \in 0..(width - 1) /\ d = width * j + m
  <2>1. d \in Int
    BY <1>2
  <2> QED
    BY <2>1, DivisionFacts
<1>4. j >= 0
  <2> SUFFICES ASSUME j <= -1 PROVE FALSE
    BY <1>3
  <2>1. width * j = -width + width * (j + 1)
    BY <1>3
  <2>2. width * (j + 1) <= 0
    BY <1>3
  <2> QED
    BY <1>2, <1>3, <2>1, <2>2
<1>5. j <= (n - 1) \div width
  <2> PICK b, s : b = (n - 1) \div width /\ s = (n - 1) % width
    OBVIOUS
  <2>1. b \in Int /\ s \in 0..(width - 1) /\ n - 1 = width * b + s
    <3>1. n - 1 \in Int
      OBVIOUS
    <3> QED
      BY <3>1, DivisionFacts
  <2> SUFFICES ASSUME j >= b + 1 PROVE FALSE
    BY <1>3, <2>1
  <2>2. width * j = width * b + width + width * (j - (b + 1))
    BY <1>3, <2>1
  <2>3. width * (j - (b + 1)) >= 0
    BY <1>3, <2>1
  <2>4. width * j >= width * b + width
    <3>1. j - (b + 1) \in Int /\ width \in Int
      BY <1>3, <2>1
    <3>2. width * (j - (b + 1)) \in Int /\ width * b \in Int
      BY <2>1, <3>1, Products
    <3> QED
      BY <2>2, <2>3, <3>2
  <2> QED
    BY <1>2, <1>3, <2>1, <2>4
<1>6. m \in 0..(n - 1)
  <2> PICK w \in Int : w = width * j
    BY <1>3
  <2>1. w >= 0
    BY <1>3, <1>4
  <2>2. d = w + m
    BY <1>3
  <2>3. d \in 0..(n - 1) /\ m \in Nat
    BY <1>2, <1>3
  <2> QED
    BY <2>1, <2>2, <2>3
<1>7. (x - (((first + j) * width) % n)) % n = m
  <2>1. d \in Int
    BY <1>2
  <2> QED
    BY <1>0, <1>2, <1>3, <1>6, <2>1, Zenon
<1>8. j \in 0..((n - 1) \div width)
  BY <1>3, <1>4, <1>5
<1> WITNESS j \in 0..((n - 1) \div width)
<1> QED
  BY <1>3, <1>7

\* A full turn of the rotation, less one round, as a quotient.
LEMMA LongestWaitIs ==
  ASSUME NEW n \in Nat \ {0}, NEW width \in Nat \ {0}
  PROVE  (n + width - 1) \div width - 1 = (n - 1) \div width
<1> PICK b, s : b = (n - 1) \div width /\ s = (n - 1) % width
  OBVIOUS
<1> PICK q, t : q = (n + width - 1) \div width /\ t = (n + width - 1) % width
  OBVIOUS
<1>1. b \in Int /\ s \in 0..(width - 1) /\ n - 1 = width * b + s
  <2>1. n - 1 \in Int
    OBVIOUS
  <2> QED
    BY <2>1, DivisionFacts
<1>2. q \in Int /\ t \in 0..(width - 1) /\ n + width - 1 = width * q + t
  <2>1. n + width - 1 \in Int
    OBVIOUS
  <2> QED
    BY <2>1, DivisionFacts
<1>3. width * (q - (b + 1)) = s - t
  <2>1. width * (q - (b + 1)) = width * q - width * b - width
    BY <1>1, <1>2
  <2> QED
    BY <1>1, <1>2, <2>1
<1>4. q - (b + 1) = 0
  <2>1. q - (b + 1) \in Int
    BY <1>1, <1>2
  <2>2. s - t < width /\ -width < s - t
    BY <1>1, <1>2
  <2> QED
    BY <1>3, <2>1, <2>2, SmallMultiple
<1> QED
  BY <1>1, <1>2, <1>4

\* Among as many rounds in a row as a turn has, one hands a rule to the judge.
LEMMA WaitIsShort ==
  ASSUME NEW rest \in SUBSET Rules, NEW pinned \in SUBSET Rules,
         Cardinality(pinned) < MaxRulesJudged, NEW r \in rest,
         NEW rounds \in Nat, NEW w \in Nat,
         \A i \in 1..w : i <= rounds /\ r \notin Rotated(rest, rounds - i, Remaining(pinned))
  PROVE  w <= LongestWait(rest, pinned)
<1> DEFINE n == Cardinality(rest)
           width == Remaining(pinned)
           turn == (n - 1) \div width
           first == rounds - (turn + 1)
           x == IndexIn(r, rest)
<1>1. n \in Nat \ {0}
  BY RulesAreFinite, FS_EmptySet
<1>2. width \in Nat \ {0}
  BY RulesAreFinite, CapIsPositive DEF Remaining
<1>3. x \in Int
  BY RulesAreFinite DEF IndexIn
<1>4. LongestWait(rest, pinned) = turn
  BY <1>1, <1>2, LongestWaitIs DEF LongestWait
<1>5. \A round : r \in Rotated(rest, round, width) <=> (x - ((round * width) % n)) % n < width
  BY <1>1 DEF Rotated, RotationOffset
<1> HIDE DEF n, width, x
<1>6. turn \in Int
  BY <1>1, <1>2, DivisionFacts
<1> HIDE DEF turn
<1>7. SUFFICES ASSUME w >= turn + 1
               PROVE  FALSE
  BY <1>4, <1>6
<1>8. PICK j \in 0..turn : (x - (((first + j) * width) % n)) % n < width
  <2>1. first \in Int
    BY <1>6
  <2> HIDE DEF first
  <2> QED
    BY <1>1, <1>2, <1>3, <2>1, TurnReaches DEF turn
<1>9. first + j = rounds - (turn + 1 - j) /\ turn + 1 - j \in 1..w
  BY <1>6, <1>7
<1>10. r \notin Rotated(rest, first + j, width)
  <2>1. r \notin Rotated(rest, rounds - (turn + 1 - j), width)
    BY <1>9 DEF width
  <2> QED
    BY <1>9, <2>1
<1> QED
  BY <1>5, <1>8, <1>10

\* An unpinned candidate that is not in the window was missed by the rotation.
LEMMA MissedByRotation ==
  ASSUME NEW s \in Session, NEW kind \in Kinds, NEW a \in Artifacts,
         NEW r \in Candidates(s, kind, a) \ Denied(s.loops[kind]),
         r \notin GatherRules(s, kind, a),
         Cardinality(Candidates(s, kind, a) \cap Denied(s.loops[kind])) < MaxRulesJudged
  PROVE  r \notin Rotated(Candidates(s, kind, a) \ Denied(s.loops[kind]), s.loops[kind].rounds,
                          Remaining(Candidates(s, kind, a) \cap Denied(s.loops[kind])))
<1> DEFINE C == Candidates(s, kind, a)
           D == Denied(s.loops[kind])
<1>1. ~(Cardinality(C) <= MaxRulesJudged)
  BY DEF GatherRules
<1>2. r \notin SelectJudgedWindow(C, D, s.loops[kind].rounds)
  BY <1>1 DEF GatherRules
<1>3. C \cap D \in SUBSET Rules
  BY LoopAssumption DEF Candidates
<1>4. ~(Cardinality(C \cap D) >= MaxRulesJudged)
  BY <1>3, RulesAreFinite, CapIsPositive
<1> QED
  BY <1>2, <1>4 DEF SelectJudgedWindow

\* A step of one hook keeps the windows that wait to be stored fresh.
LEMMA WindowsStay ==
  ASSUME ~Overlap, RotationInv, [Next]_vars
  PROVE  \A c \in Calls : WindowIsFresh(hook'[c], session')
<1>t. hook \in [Calls -> Hook] /\ session \in Session
  BY DEF RotationInv, SerialInv, IInv, TypeOK
<1>i. \A h, s : h.pc = "idle" => WindowIsFresh(h, s)
  BY DEF WindowIsFresh
<1>1. ASSUME NEW c \in Calls, HookStep(c)
      PROVE  \A d \in Calls : WindowIsFresh(hook'[d], session')
  <2>1. hook[c].pc # "idle" \/ MayStart
    BY <1>1 DEF HookStep, StartHook, FailOpen, Judged, RecordRoundLimit, StoreSession,
                RecordPartialCoverage, PrintAnswer, Kill, StartTurn, RecordTurnStart
  <2>2. \A d \in Calls \ {c} : hook[d].pc = "idle"
    BY <2>1, OnlyProcess DEF RotationInv, SerialInv
  <2>3. \A d \in Calls \ {c} : hook'[d] = hook[d]
    BY <1>1, <1>t DEF HookStep, StartHook, FailOpen, Judged, RecordRoundLimit, StoreSession,
                RecordPartialCoverage, PrintAnswer, Kill, StartTurn, RecordTurnStart
  <2>4. WindowIsFresh(hook'[c], session')
    <3>1. ASSUME NEW r \in Requests, StartHook(c, r)
          PROVE  WindowIsFresh(hook'[c], session')
      <4> DEFINE s == IF r.tracked THEN session ELSE EmptySession
      <4>1. /\ hook'[c].req = r /\ hook'[c].window = GatherRules(s, r.kind, r.artifact)
            /\ session' = session
        BY <1>t, <3>1 DEF StartHook, IdleHook
      <4> QED
        BY <4>1 DEF WindowIsFresh
    <3>2. CASE FailOpen(c) \/ PrintAnswer(c) \/ Kill(c)
      BY <1>i, <1>t, <3>2 DEF FailOpen, PrintAnswer, Kill, IdleHook
    <3>3. CASE Judged(c)
      <4>1. /\ hook'[c].req = hook[c].req /\ hook'[c].window = hook[c].window
            /\ hook[c].pc = "pipeline" /\ session' = session
        BY <1>t, <3>3 DEF Judged, Hook
      <4> QED
        BY <4>1 DEF RotationInv, WindowIsFresh
    <3>4. CASE RecordRoundLimit(c)
      <4>1. /\ hook'[c].req = hook[c].req /\ hook'[c].window = hook[c].window
            /\ hook[c].pc = "audit_limit" /\ session' = session
        BY <1>t, <3>4 DEF RecordRoundLimit, Hook
      <4> QED
        BY <4>1 DEF RotationInv, WindowIsFresh
    <3>5. CASE StoreSession(c) \/ RecordPartialCoverage(c)
      <4>1. CASE StoreSession(c)
        BY <1>t, <4>1 DEF StoreSession, Hook, WindowIsFresh
      <4>2. CASE RecordPartialCoverage(c)
        BY <1>t, <4>2 DEF RecordPartialCoverage, Hook, WindowIsFresh
      <4> QED
        BY <3>5, <4>1, <4>2
    <3>6. CASE StartTurn(c) \/ \E head \in Heads \cup {NoValue} : RecordTurnStart(c, head)
      <4>1. CASE StartTurn(c)
        <5>1. hook'[c] = [IdleHook EXCEPT !.pc = "turn", !.mem = session]
          BY <1>t, <4>1 DEF StartTurn
        <5> QED
          BY <5>1 DEF IdleHook, WindowIsFresh
      <4>2. ASSUME NEW head, RecordTurnStart(c, head)
            PROVE  WindowIsFresh(hook'[c], session')
        <5>1. hook'[c] = IdleHook
          BY <1>t, <4>2 DEF RecordTurnStart
        <5> QED
          BY <5>1 DEF IdleHook, WindowIsFresh
      <4> QED
        BY <3>6, <4>1, <4>2
    <3> QED
      BY <1>1, <3>1, <3>2, <3>3, <3>4, <3>5, <3>6 DEF HookStep
  <2> QED
    BY <1>i, <2>2, <2>3, <2>4
<1>2. CASE HumanStep \/ PruneStale
  <2>1. hook' = hook
    BY <1>2 DEF HumanStep, StartOverride, PushOverride, StoreOverride, KillOverride, PruneStale
  <2>2. session' = session \/ \A c \in Calls : hook[c].pc = "idle"
    BY <1>2 DEF HumanStep, StartOverride, PushOverride, StoreOverride, KillOverride, PruneStale,
                AllIdle, HumanStoring, RotationInv, SerialInv, Alone
  <2> QED
    BY <1>i, <2>1, <2>2 DEF RotationInv
<1>3. CASE UNCHANGED vars
  BY <1>3 DEF vars, RotationInv
<1> QED
  BY <1>1, <1>2, <1>3 DEF Next

LEMMA OnePosition ==
  ASSUME NEW n \in Nat, NEW v \in Nat, NEW i \in 1..(v + 1), i # 1
  PROVE  i - 1 \in 1..v /\ (n + 1) - i = n - (i - 1)
  OBVIOUS

\* The rotation the round that judged the window of h leaves behind counts that
\* round: one more for a rule it left out again, none for a rule it judged.
LEMMA RoundIsCounted ==
  ASSUME NEW h, h.req.kind \in Kinds, h.req.artifact \in Artifacts, session \in Session,
         h.window = GatherRules(session, h.req.kind, h.req.artifact),
         rotation \in [Kinds -> [pinned : SUBSET Rules, rest : SUBSET Rules,
                                 waited : [Rules -> Nat]]],
         WaitIsCounted(rotation[h.req.kind], session.loops[h.req.kind].rounds)
  PROVE  WaitIsCounted(Waited(h), session.loops[h.req.kind].rounds + 1)
<1> PICK kind, a, n : kind = h.req.kind /\ a = h.req.artifact /\ n = session.loops[kind].rounds
  OBVIOUS
<1> DEFINE pinned == Candidates(session, kind, a) \cap Denied(session.loops[kind])
           rest   == Candidates(session, kind, a) \ Denied(session.loops[kind])
           was    == rotation[kind]
           now    == Waited(h)
<1>1. kind \in Kinds /\ a \in Artifacts /\ n \in Nat
  BY DEF Session, LoopState
<1>2. /\ pinned \in SUBSET Rules /\ rest \in SUBSET Rules
      /\ was.waited \in [Rules -> Nat] /\ was.pinned \in SUBSET Rules /\ was.rest \in SUBSET Rules
  BY <1>1, LoopAssumption DEF Candidates
<1>3. /\ now.pinned = pinned /\ now.rest = rest
      /\ now.waited = [r \in Rules |->
           IF r \notin rest \/ r \in h.window THEN 0
           ELSE IF rest = was.rest /\ pinned = was.pinned THEN was.waited[r] + 1 ELSE 1]
  BY DEF Waited
<1>4. ASSUME Cardinality(pinned) < MaxRulesJudged, NEW r \in rest, r \notin h.window
      PROVE  r \notin Rotated(rest, n, Remaining(pinned))
  BY <1>1, <1>4, MissedByRotation
<1>5. WaitIsCounted(was, n)
  OBVIOUS
<1> HIDE DEF pinned, rest, was, now
<1>6. now.pinned \in SUBSET Rules /\ now.rest \in SUBSET Rules /\ now.waited \in [Rules -> Nat]
  BY <1>2, <1>3
<1>7. ASSUME Cardinality(now.pinned) < MaxRulesJudged, NEW r \in now.rest,
             NEW i \in 1..now.waited[r]
      PROVE  i <= n + 1 /\ r \notin Rotated(now.rest, (n + 1) - i, Remaining(now.pinned))
  <2>1. r \in Rules /\ r \in rest /\ now.waited[r] \in Nat /\ was.waited[r] \in Nat
    BY <1>2, <1>3, <1>6, <1>7
  <2>2. r \notin h.window
    BY <1>3, <1>7, <2>1
  <2>3. r \notin Rotated(rest, n, Remaining(pinned))
    BY <1>3, <1>4, <1>7, <2>1, <2>2
  <2>4. CASE i = 1
    BY <1>1, <1>3, <2>3, <2>4
  <2>5. CASE i # 1
    <3>1. rest = was.rest /\ pinned = was.pinned /\ now.waited[r] = was.waited[r] + 1
      BY <1>3, <1>7, <2>1, <2>2, <2>5
    <3> PICK w, v : w = now.waited[r] /\ v = was.waited[r]
      OBVIOUS
    <3>2. i - 1 \in 1..v /\ (n + 1) - i = n - (i - 1)
      <4>1. v \in Nat /\ w = v + 1 /\ i \in 1..w /\ n \in Nat
        BY <1>1, <1>7, <2>1, <3>1
      <4>2. i \in 1..(v + 1) /\ i # 1
        BY <2>5, <4>1
      <4>3. n \in Nat /\ v \in Nat
        BY <4>1
      <4> QED
        BY <4>2, <4>3, OnePosition, Zenon
    <3>3. i - 1 <= n /\ r \notin Rotated(was.rest, n - (i - 1), Remaining(was.pinned))
      BY <1>3, <1>5, <1>7, <2>1, <3>1, <3>2 DEF WaitIsCounted
    <3> QED
      BY <1>1, <1>3, <1>7, <3>1, <3>2, <3>3
  <2> QED
    BY <2>4, <2>5
<1>8. WaitIsCounted(now, n + 1)
  BY <1>6, <1>7 DEF WaitIsCounted
<1> QED
  BY <1>8 DEF now

\* A round that is stored is counted by the rotation, or it judged nothing.
LEMMA StoreRotation ==
  ASSUME ~Overlap, RotationInv, IInv', ~raced', NEW c \in Calls, StoreSession(c)
  PROVE  /\ rotation' \in [Kinds -> [pinned : SUBSET Rules, rest : SUBSET Rules,
                                     waited : [Rules -> Nat]]]
         /\ \A k \in Kinds : WaitIsCounted(rotation'[k], session'.loops[k].rounds)
<1> PICK h : h = hook[c]
  OBVIOUS
<1> DEFINE kind == h.req.kind
           new  == JudgedLoop(session.loops[kind], h.req.artifact, h.window, h.blocking)
<1>1. /\ session' = RecordVerdicts(session, kind, h.req.artifact, h.window, h.blocking)
      /\ h.pc = "store" /\ h.req.tracked
  BY StoreSerial DEF RotationInv, StoreSession, SerialInv, HookIsFresh
<1>2. /\ kind \in Kinds /\ h.req.artifact \in Artifacts /\ session \in Session
  BY <1>1, HookTypes DEF RotationInv, SerialInv, IInv, TypeOK
<1>3. h.window = GatherRules(session, kind, h.req.artifact)
  BY <1>1 DEF RotationInv, WindowIsFresh
<1>4. rotation' = IF h.window = {} THEN rotation ELSE [rotation EXCEPT ![kind] = Waited(h)]
  BY DEF StoreSession
<1>5. /\ rotation \in [Kinds -> [pinned : SUBSET Rules, rest : SUBSET Rules, waited : [Rules -> Nat]]]
      /\ \A k \in Kinds : WaitIsCounted(rotation[k], session.loops[k].rounds)
  BY DEF RotationInv
<1>6. /\ \A k \in Kinds \ {kind} : session'.loops[k].rounds = session.loops[k].rounds
      /\ session'.loops[kind].rounds = IF h.window = {} THEN session.loops[kind].rounds
                                       ELSE session.loops[kind].rounds + 1
  <2>1. session.loops \in [Kinds -> LoopState]
    BY <1>2 DEF Session
  <2>2. session'.loops = [session.loops EXCEPT ![kind] = new]
    BY <1>1, <1>2 DEF RecordVerdicts, Session
  <2>3. new.rounds = IF h.window = {} THEN session.loops[kind].rounds
                     ELSE session.loops[kind].rounds + 1
    BY DEF JudgedLoop
  <2> HIDE DEF new
  <2> QED
    BY <1>2, <2>1, <2>2, <2>3
<1>7. CASE h.window = {}
  BY <1>4, <1>5, <1>6, <1>7
<1>8. CASE h.window # {}
  <2>1. WaitIsCounted(Waited(h), session'.loops[kind].rounds)
    BY <1>2, <1>3, <1>5, <1>6, <1>8, RoundIsCounted
  <2>2. Waited(h) \in [pinned : SUBSET Rules, rest : SUBSET Rules, waited : [Rules -> Nat]]
    <3>1. Waited(h) = [pinned |-> Waited(h).pinned, rest |-> Waited(h).rest,
                       waited |-> Waited(h).waited]
      BY DEF Waited
    <3> QED
      BY <2>1, <3>1 DEF WaitIsCounted
  <2> QED
    BY <1>2, <1>4, <1>5, <1>6, <1>8, <2>1, <2>2
<1> QED
  BY <1>7, <1>8

\* No other step stores a round; what it does leave behind is the rotation.
LEMMA RotationStays ==
  ASSUME ~Overlap, RotationInv, IInv', ~raced', [Next]_vars, ~(\E c \in Calls : StoreSession(c)),
         ~PruneStale
  PROVE  /\ rotation' = rotation
         /\ session'.loops = session.loops
<1>t. session \in Session /\ SerialInv
  BY DEF RotationInv, SerialInv, IInv, TypeOK
<1>1. ASSUME NEW c \in Calls, HookStep(c)
      PROVE  rotation' = rotation /\ session'.loops = session.loops
  <2>1. ASSUME NEW head \in Heads \cup {NoValue}, RecordTurnStart(c, head)
        PROVE  rotation' = rotation /\ session'.loops = session.loops
    BY <1>t, <2>1, TurnSerial DEF RecordTurnStart, Session
  <2>2. CASE \E r \in Requests : StartHook(c, r)
    BY <2>2 DEF StartHook, historyVars
  <2>3. CASE Judged(c)
    BY <2>3 DEF Judged
  <2>4. CASE FailOpen(c) \/ RecordRoundLimit(c) \/ RecordPartialCoverage(c) \/ PrintAnswer(c)
             \/ Kill(c) \/ StartTurn(c)
    BY <2>4 DEF FailOpen, RecordRoundLimit, RecordPartialCoverage, PrintAnswer, Kill,
                StartTurn, historyVars
  <2> QED
    BY <1>1, <2>1, <2>2, <2>3, <2>4 DEF HookStep
<1>2. CASE HumanStep
  <2>1. CASE StoreOverride
    <3>1. \A c \in Calls : hook[c].pc = "idle"
      BY <2>1, <1>t DEF StoreOverride, HumanStoring, SerialInv, Alone
    <3>2. session' = [session EXCEPT !.overrides = @ \cup human.rules]
      BY <1>t, <2>1, <3>1 DEF StoreOverride, StoreOutcomes, HumanStoring, Storing, SerialInv,
                              HumanIsFresh
    <3> QED
      BY <1>t, <2>1, <3>2 DEF StoreOverride, Session
  <2>2. CASE ~StoreOverride
    BY <1>2, <2>2 DEF HumanStep, StartOverride, PushOverride, KillOverride, historyVars
  <2> QED
    BY <2>1, <2>2
<1>3. CASE UNCHANGED vars
  BY <1>3 DEF vars, historyVars
<1> QED
  BY <1>1, <1>2, <1>3 DEF Next

\* A rotation that counts nothing is counted right.
LEMMA FreshIsCounted ==
  /\ FreshRotation \in [Kinds -> [pinned : SUBSET Rules, rest : SUBSET Rules,
                                  waited : [Rules -> Nat]]]
  /\ \A k \in Kinds : WaitIsCounted(FreshRotation[k], EmptySession.loops[k].rounds)
  BY DEF FreshRotation, WaitIsCounted

LEMMA InitRotation == Init => RotationInv
<1> SUFFICES ASSUME Init
             PROVE  RotationInv
  OBVIOUS
<1>1. \A c \in Calls : WindowIsFresh(hook[c], session)
  BY DEF Init, IdleHook, WindowIsFresh
<1>2. rotation = FreshRotation /\ session = EmptySession
  BY DEF Init
<1> QED
  BY <1>1, <1>2, FreshIsCounted, InitSerial DEF RotationInv

LEMMA StepRotation ==
  ASSUME ~Overlap, RotationInv, [Next]_vars
  PROVE  RotationInv'
<1>1. SerialInv' /\ IInv' /\ ~raced'
  BY StepSerial DEF RotationInv, SerialInv
<1>2. \A c \in Calls : WindowIsFresh(hook'[c], session')
  BY WindowsStay
<1>3. /\ rotation' \in [Kinds -> [pinned : SUBSET Rules, rest : SUBSET Rules,
                                  waited : [Rules -> Nat]]]
      /\ \A k \in Kinds : WaitIsCounted(rotation'[k], session'.loops[k].rounds)
  <2>1. CASE \E c \in Calls : StoreSession(c)
    BY <1>1, <2>1, StoreRotation
  <2>2. CASE PruneStale
    BY <2>2, FreshIsCounted DEF PruneStale
  <2>3. CASE ~(\E c \in Calls : StoreSession(c)) /\ ~PruneStale
    BY <1>1, <2>3, RotationStays DEF RotationInv
  <2> QED
    BY <2>1, <2>2, <2>3
<1> QED
  BY <1>1, <1>2, <1>3 DEF RotationInv

\* What is counted is short.
LEMMA RotationIsFair == RotationInv => NoRuleStarves
<1> SUFFICES ASSUME RotationInv, NEW k \in Kinds,
                    Cardinality(rotation[k].pinned) < MaxRulesJudged, NEW r \in rotation[k].rest
             PROVE  rotation[k].waited[r] <= LongestWait(rotation[k].rest, rotation[k].pinned)
  BY DEF NoRuleStarves
<1> PICK rot, n : rot = rotation[k] /\ n = session.loops[k].rounds
  OBVIOUS
<1>1. WaitIsCounted(rot, n)
  BY DEF RotationInv
<1>2. n \in Nat
  BY DEF RotationInv, SerialInv, IInv, TypeOK, Session, LoopState
<1>3. /\ rot.rest \in SUBSET Rules /\ rot.pinned \in SUBSET Rules /\ rot.waited[r] \in Nat
      /\ \A i \in 1..rot.waited[r] :
           i <= n /\ r \notin Rotated(rot.rest, n - i, Remaining(rot.pinned))
  BY <1>1 DEF WaitIsCounted
<1> QED
  BY <1>2, <1>3, WaitIsShort

\* Of the rules the cap pushes out of the window and that no hook has denied,
\* none is left out of more rounds in a row than a turn of the rotation takes,
\* as long as the candidates and the denied ones among them stay the same.
THEOREM NoRuleIsStarved ==
  ASSUME ~Overlap
  PROVE  Spec => []NoRuleStarves
<1>1. RotationInv /\ [Next]_vars => RotationInv'
  BY StepRotation
<1> QED
  BY <1>1, InitRotation, RotationIsFair, PTL DEF Spec
=============================================================================
