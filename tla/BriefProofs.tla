---------------------------- MODULE BriefProofs ----------------------------
(***************************************************************************)
(* Proofs about the record and the memory of a session, for any number of  *)
(* hooks, agents, decisions and folders: what the lock and the second read *)
(* under it keep in the record, what is reported and told, and what the    *)
(* memory withholds.                                                       *)
(***************************************************************************)
EXTENDS Brief, FiniteSetTheorems, TLAPS

Changes ==
  {NoteFolders(notes) : notes \in SUBSET (Folders \X BOOLEAN)}
    \cup {RecordBrief(keys) : keys \in SUBSET Decisions}
    \cup [op : {"report", "checks"}, keys : [Streams -> SUBSET Decisions]]
    \cup {ShowSummary(ruleSet) : ruleSet \in RuleSets}

Hooks ==
  [pc : {"idle", "next", "wait", "hold", "send", "store", "print"},
   agent : Agents \cup {Nobody}, agenda : Seq(Changes), seen : SUBSET Decisions,
   shown : SUBSET Decisions, rendered : BOOLEAN, loaded : Ledgers,
   news : SUBSET (Streams \X Decisions)]

TypeOK ==
  /\ memory \in [Agents -> SUBSET Decisions]
  /\ ledger \in Ledgers /\ standing \in Ledgers
  /\ proc \in [Procs -> Hooks]
  /\ context \in [Agents -> SUBSET Decisions]
  /\ lost \in [Agents -> SUBSET Decisions]

\* Who holds the lock has read what the record still holds.
LockProtects ==
  \A p \in Procs :
    /\ proc[p].pc \in {"wait", "hold"} => proc[p].agenda # <<>>
    /\ proc[p].pc = "hold" => lock = p /\ proc[p].loaded = ledger

Sound == TypeOK /\ LockProtects

-----------------------------------------------------------------------------
(* Records and changes.                                                    *)

LEMMA TailType ==
  ASSUME NEW S, NEW s \in Seq(S), s # <<>>
  PROVE  Head(s) \in S /\ Tail(s) \in Seq(S)
  OBVIOUS

\* A change is of one of five forms.
LEMMA ChangeForms ==
  ASSUME NEW change \in Changes
  PROVE  \/ \E notes \in SUBSET (Folders \X BOOLEAN) : change = [op |-> "folders", notes |-> notes]
         \/ \E keys \in SUBSET Decisions : change = [op |-> "brief", keys |-> keys]
         \/ \E op \in {"report", "checks"}, keys \in [Streams -> SUBSET Decisions] :
              change = [op |-> op, keys |-> keys]
         \/ \E ruleSet \in SUBSET Decisions : change = [op |-> "summary", ruleSet |-> ruleSet]
  BY BriefAssumption DEF Changes, NoteFolders, RecordBrief, ShowSummary

LEMMA ChangeTypes ==
  /\ \A notes \in SUBSET (Folders \X BOOLEAN) : NoteFolders(notes) \in Changes
  /\ \A keys \in SUBSET Decisions : RecordBrief(keys) \in Changes
  /\ \A op \in {"report", "checks"}, keys \in [Streams -> SUBSET Decisions] :
       [op |-> op, keys |-> keys] \in Changes
  /\ \A ruleSet \in RuleSets : ShowSummary(ruleSet) \in Changes
<1>1. \A notes \in SUBSET (Folders \X BOOLEAN) : NoteFolders(notes) \in Changes
  BY DEF Changes
<1>2. \A keys \in SUBSET Decisions : RecordBrief(keys) \in Changes
  BY DEF Changes
<1>3. \A op \in {"report", "checks"}, keys \in [Streams -> SUBSET Decisions] :
        [op |-> op, keys |-> keys] \in Changes
  BY DEF Changes
<1>4. \A ruleSet \in RuleSets : ShowSummary(ruleSet) \in Changes
  BY DEF Changes
<1> QED
  BY <1>1, <1>2, <1>3, <1>4

\* A summary that is due has counts, and shows another line.
LEMMA DueType ==
  ASSUME NEW l \in Ledgers, NEW ruleSet \in SUBSET Decisions
  PROVE  /\ Due(l, ruleSet) \in Counts \cup {Nothing}
         /\ Due(l, ruleSet) # Nothing => Line(Due(l, ruleSet)) \notin {Nothing, Line(l.last)}
<1>1. IsFiniteSet(l.briefed \cap ruleSet) /\ IsFiniteSet(ruleSet)
  BY BriefAssumption, FS_Subset DEF Ledgers
<1>2. IsFiniteSet(Gaps(l)) /\ IsFiniteSet(l.covered)
  BY BriefAssumption, FS_Subset DEF Ledgers, Gaps
<1>3. CountsOf(l, ruleSet) \in Counts
  BY <1>1, <1>2, FS_CardinalityType DEF CountsOf, Counts
<1> DEFINE now == CountsOf(l, ruleSet)
<1>4. Due(l, ruleSet) = IF (now.added = 0 /\ now.gaps = 0) \/ Line(now) \in {Nothing, Line(l.last)}
                        THEN Nothing ELSE now
  BY DEF Due
<1> HIDE DEF now
<1> QED
  BY <1>3, <1>4 DEF now

\* What a change makes of a record.
LEMMA ChangedForms ==
  ASSUME NEW l \in Ledgers, NEW change \in Changes
  PROVE  /\ change.op = "folders" => Changed(l, change) = Noted(l, change.notes)
         /\ change.op = "brief" => Changed(l, change) = [l EXCEPT !.briefed = @ \cup change.keys]
         /\ change.op \in {"report", "checks"} =>
              Changed(l, change) =
                [l EXCEPT !.reported = [s \in Streams |-> l.reported[s] \cup change.keys[s]]]
         /\ change.op = "summary" =>
              Changed(l, change) = IF Due(l, change.ruleSet) = Nothing THEN l
                                   ELSE [l EXCEPT !.last = Due(l, change.ruleSet)]
  BY DEF Changed

LEMMA NotedFields ==
  ASSUME NEW l \in Ledgers, NEW notes \in SUBSET (Folders \X BOOLEAN)
  PROVE  /\ Noted(l, notes) \in Ledgers
         /\ Noted(l, notes).briefed = l.briefed /\ Noted(l, notes).last = l.last
         /\ Noted(l, notes).reported = l.reported
         /\ Noted(l, notes).covered = l.covered \cup {n[1] : n \in {m \in notes : m[2]}}
         /\ Noted(l, notes).uncovered =
              l.uncovered \cup {n[1] : n \in {m \in notes : ~m[2] /\ WouldChange(l, m)}}
<1> DEFINE C == {n[1] : n \in {m \in notes : m[2]}}
           U == {n[1] : n \in {m \in notes : ~m[2] /\ WouldChange(l, m)}}
<1>1. \A n \in notes : n[1] \in Folders
  OBVIOUS
<1>2. C \in SUBSET Folders /\ U \in SUBSET Folders
  BY <1>1
<1>3. Noted(l, notes) = [l EXCEPT !.covered = l.covered \cup C, !.uncovered = l.uncovered \cup U]
  BY DEF Noted
<1> HIDE DEF C, U
<1>4. /\ Noted(l, notes) \in Ledgers
      /\ Noted(l, notes).briefed = l.briefed /\ Noted(l, notes).last = l.last
      /\ Noted(l, notes).reported = l.reported
      /\ Noted(l, notes).covered = l.covered \cup C
      /\ Noted(l, notes).uncovered = l.uncovered \cup U
  BY <1>2, <1>3 DEF Ledgers
<1> QED
  BY <1>4 DEF C, U

LEMMA ChangedType ==
  ASSUME NEW l \in Ledgers, NEW change \in Changes
  PROVE  /\ Changed(l, change) \in Ledgers
         /\ change.op # "summary" => Changed(l, change).last = l.last
<1>1. ASSUME NEW notes \in SUBSET (Folders \X BOOLEAN), change = [op |-> "folders", notes |-> notes]
      PROVE  Changed(l, change) \in Ledgers /\ Changed(l, change).last = l.last
  BY <1>1, ChangedForms, NotedFields
<1>2. ASSUME NEW keys \in SUBSET Decisions, change = [op |-> "brief", keys |-> keys]
      PROVE  Changed(l, change) \in Ledgers /\ Changed(l, change).last = l.last
  BY <1>2, ChangedForms DEF Ledgers
<1>3. ASSUME NEW op \in {"report", "checks"}, NEW keys \in [Streams -> SUBSET Decisions],
             change = [op |-> op, keys |-> keys]
      PROVE  Changed(l, change) \in Ledgers /\ Changed(l, change).last = l.last
  <2>1. [s \in Streams |-> l.reported[s] \cup keys[s]] \in [Streams -> SUBSET Decisions]
    BY DEF Ledgers
  <2> QED
    BY <1>3, <2>1, ChangedForms DEF Ledgers
<1>4. ASSUME NEW ruleSet \in SUBSET Decisions, change = [op |-> "summary", ruleSet |-> ruleSet]
      PROVE  Changed(l, change) \in Ledgers
  BY <1>4, DueType, ChangedForms DEF Ledgers
<1> QED
  BY <1>1, <1>2, <1>3, <1>4, ChangeForms

\* What the record a change leaves claims, in the record and in the history of
\* what was accepted: the first keeps the second.
Keeps(st, l) ==
  /\ st.briefed \subseteq l.briefed
  /\ st.covered \subseteq l.covered
  /\ st.uncovered \subseteq l.uncovered \cup l.covered
  /\ \A s \in Streams : st.reported[s] \subseteq l.reported[s]

LEMMA AcceptFolders ==
  ASSUME NEW notes \in SUBSET (Folders \X BOOLEAN), standing \in Ledgers,
         Accept([op |-> "folders", notes |-> notes])
  PROVE  /\ standing' \in Ledgers
         /\ \A l \in Ledgers : Keeps(standing, l) => Keeps(standing', Noted(l, notes))
<1> DEFINE C == {n[1] : n \in {m \in notes : m[2]}}
           U == {n[1] : n \in {m \in notes : ~m[2]}}
<1>1. \A n \in notes : n[1] \in Folders
  OBVIOUS
<1>2. C \in SUBSET Folders /\ U \in SUBSET Folders
  BY <1>1
<1>3. standing' = [standing EXCEPT !.covered = standing.covered \cup C,
                                   !.uncovered = standing.uncovered \cup U]
  BY DEF Accept
<1> HIDE DEF C, U
<1>4. /\ standing' \in Ledgers
      /\ standing'.briefed = standing.briefed /\ standing'.reported = standing.reported
      /\ standing'.covered = standing.covered \cup C
      /\ standing'.uncovered = standing.uncovered \cup U
  BY <1>2, <1>3 DEF Ledgers
<1>5. ASSUME NEW l \in Ledgers, Keeps(standing, l)
      PROVE  Keeps(standing', Noted(l, notes))
  <2> DEFINE V == {n[1] : n \in {m \in notes : ~m[2] /\ WouldChange(l, m)}}
  <2>1. U \subseteq V \cup l.covered \cup l.uncovered
    BY DEF U, WouldChange
  <2>2. /\ Noted(l, notes).briefed = l.briefed
        /\ Noted(l, notes).reported = l.reported
        /\ Noted(l, notes).covered = l.covered \cup C
        /\ Noted(l, notes).uncovered = l.uncovered \cup V
    BY NotedFields DEF C
  <2> HIDE DEF V
  <2> QED
    BY <1>4, <1>5, <2>1, <2>2 DEF Keeps
<1> QED
  BY <1>4, <1>5

LEMMA AcceptKeeps ==
  ASSUME NEW change \in Changes, standing \in Ledgers, Accept(change)
  PROVE  /\ standing' \in Ledgers
         /\ \A l \in Ledgers : Keeps(standing, l) => Keeps(standing', Changed(l, change))
<1>1. ASSUME NEW notes \in SUBSET (Folders \X BOOLEAN), change = [op |-> "folders", notes |-> notes]
      PROVE  /\ standing' \in Ledgers
             /\ \A l \in Ledgers : Keeps(standing, l) => Keeps(standing', Changed(l, change))
  BY <1>1, AcceptFolders, ChangedForms
<1>2. ASSUME NEW keys \in SUBSET Decisions, change = [op |-> "brief", keys |-> keys]
      PROVE  /\ standing' \in Ledgers
             /\ \A l \in Ledgers : Keeps(standing, l) => Keeps(standing', Changed(l, change))
  <2>1. standing' = [standing EXCEPT !.briefed = standing.briefed \cup keys]
    BY <1>2 DEF Accept
  <2>2. \A l \in Ledgers : Changed(l, change) = [l EXCEPT !.briefed = l.briefed \cup keys]
    BY <1>2, ChangedForms
  <2> QED
    BY <2>1, <2>2 DEF Ledgers, Keeps
<1>3. ASSUME NEW op \in {"report", "checks"}, NEW keys \in [Streams -> SUBSET Decisions],
             change = [op |-> op, keys |-> keys]
      PROVE  /\ standing' \in Ledgers
             /\ \A l \in Ledgers : Keeps(standing, l) => Keeps(standing', Changed(l, change))
  <2> DEFINE Both(l) == [s \in Streams |-> l.reported[s] \cup keys[s]]
  <2>1. standing' = [standing EXCEPT !.reported = Both(standing)]
    BY <1>3 DEF Accept
  <2>2. ASSUME NEW l \in Ledgers
        PROVE  Changed(l, change) = [l EXCEPT !.reported = Both(l)]
    <3>1. change.op \in {"report", "checks"} /\ change.keys = keys
      BY <1>3
    <3>2. Changed(l, change) =
            [l EXCEPT !.reported = [s \in Streams |-> l.reported[s] \cup change.keys[s]]]
      BY <3>1, ChangedForms
    <3> QED
      BY <3>1, <3>2
  <2>3. \A l \in Ledgers : /\ Both(l) \in [Streams -> SUBSET Decisions]
                           /\ \A s \in Streams : Both(l)[s] = l.reported[s] \cup keys[s]
    BY DEF Ledgers
  <2> HIDE DEF Both
  <2> QED
    BY <2>1, <2>2, <2>3 DEF Ledgers, Keeps
<1>4. ASSUME NEW ruleSet \in SUBSET Decisions, change = [op |-> "summary", ruleSet |-> ruleSet]
      PROVE  /\ standing' \in Ledgers
             /\ \A l \in Ledgers : Keeps(standing, l) => Keeps(standing', Changed(l, change))
  <2>1. standing' = standing
    BY <1>4 DEF Accept
  <2>2. ASSUME NEW l \in Ledgers, NEW m, m = Changed(l, change)
        PROVE  /\ m.briefed = l.briefed /\ m.covered = l.covered
               /\ m.uncovered = l.uncovered /\ m.reported = l.reported
    <3>1. m = IF Due(l, ruleSet) = Nothing THEN l ELSE [l EXCEPT !.last = Due(l, ruleSet)]
      BY <1>4, <2>2, ChangedForms
    <3> QED
      BY <3>1 DEF Ledgers
  <2> QED
    BY <2>1, <2>2 DEF Keeps
<1> QED
  BY <1>1, <1>2, <1>3, <1>4, ChangeForms

\* A change that is settled leaves nothing to keep that is not there.
LEMMA SettledKeeps ==
  ASSUME NEW change \in Changes, standing \in Ledgers, NEW l \in Ledgers,
         Keeps(standing, l), Settled(l, change), Accept(change)
  PROVE  Keeps(standing', l)
<1>1. ASSUME NEW notes \in SUBSET (Folders \X BOOLEAN), change = [op |-> "folders", notes |-> notes]
      PROVE  Keeps(standing', l)
  <2>1. \A n \in notes : ~WouldChange(l, n)
    BY <1>1 DEF Settled
  <2>2. {n[1] : n \in {m \in notes : m[2]}} \subseteq l.covered
    BY <2>1 DEF WouldChange
  <2>3. {n[1] : n \in {m \in notes : ~m[2] /\ WouldChange(l, m)}} = {}
    BY <2>1
  <2>4. Keeps(standing', Noted(l, notes))
    BY <1>1, AcceptFolders
  <2>5. /\ Noted(l, notes).briefed = l.briefed
        /\ Noted(l, notes).reported = l.reported
        /\ Noted(l, notes).covered = l.covered \cup {n[1] : n \in {m \in notes : m[2]}}
        /\ Noted(l, notes).uncovered =
             l.uncovered \cup {n[1] : n \in {m \in notes : ~m[2] /\ WouldChange(l, m)}}
    BY NotedFields
  <2> QED
    BY <2>2, <2>3, <2>4, <2>5 DEF Keeps
<1>2. ASSUME NEW keys \in [Streams -> SUBSET Decisions], change = [op |-> "checks", keys |-> keys]
      PROVE  Keeps(standing', l)
  <2>1. \A s \in Streams : keys[s] \subseteq l.reported[s]
    BY <1>2 DEF Settled, New
  <2>2. /\ standing'.briefed = standing.briefed /\ standing'.covered = standing.covered
        /\ standing'.uncovered = standing.uncovered
        /\ standing'.reported = [s \in Streams |-> standing.reported[s] \cup keys[s]]
    BY <1>2 DEF Accept, Ledgers
  <2> QED
    BY <2>1, <2>2 DEF Keeps
<1>3. ASSUME change.op = "summary"
      PROVE  Keeps(standing', l)
  BY <1>3 DEF Accept
<1>4. change.op \in {"folders", "checks", "summary"}
  BY DEF Settled
<1> QED
  BY <1>1, <1>2, <1>3, <1>4, ChangeForms

-----------------------------------------------------------------------------
(* The lock.                                                               *)

LEMMA EmptyLedgerType == EmptyLedger \in Ledgers
  BY DEF EmptyLedger, Ledgers

LEMMA IdleType == Idle \in Hooks
<1>1. <<>> \in Seq(Changes)
  OBVIOUS
<1> QED
  BY <1>1, EmptyLedgerType DEF Idle, Hooks

\* What a step must respect that moves one hook.
LEMMA HookMoves ==
  ASSUME Sound, NEW p \in Procs, NEW s \in Hooks,
         proc' = [proc EXCEPT ![p] = s],
         s.pc \in {"wait", "hold"} => s.agenda # <<>>,
         s.pc = "hold" => lock' = p /\ s.loaded = ledger',
         \A q \in Procs \ {p} : lock = q => lock' = q /\ ledger' = ledger,
         ledger' \in Ledgers, standing' \in Ledgers,
         memory' \in [Agents -> SUBSET Decisions],
         context' \in [Agents -> SUBSET Decisions],
         lost' \in [Agents -> SUBSET Decisions]
  PROVE  Sound'
<1>1. /\ proc' \in [Procs -> Hooks]
      /\ proc'[p] = s
      /\ \A q \in Procs \ {p} : proc'[q] = proc[q]
  BY DEF Sound, TypeOK
<1>2. TypeOK'
  BY <1>1 DEF Sound, TypeOK
<1>3. LockProtects'
  BY <1>1 DEF Sound, LockProtects
<1> QED
  BY <1>2, <1>3 DEF Sound

\* What the invariant says of one hook.
LEMMA HookFacts ==
  ASSUME Sound, NEW p \in Procs
  PROVE  /\ proc[p] \in Hooks
         /\ proc[p].agenda \in Seq(Changes)
         /\ proc[p].pc \in {"wait", "hold"} => proc[p].agenda # <<>>
         /\ proc[p].pc = "hold" => lock = p /\ proc[p].loaded = ledger
         /\ proc[p].agenda # <<>> => /\ Head(proc[p].agenda) \in Changes
                                    /\ Tail(proc[p].agenda) \in Seq(Changes)
         /\ ledger \in Ledgers /\ standing \in Ledgers
         /\ memory \in [Agents -> SUBSET Decisions]
         /\ context \in [Agents -> SUBSET Decisions]
         /\ lost \in [Agents -> SUBSET Decisions]
<1>1. proc[p] \in Hooks
  BY DEF Sound, TypeOK
<1>2. proc[p].agenda \in Seq(Changes)
  BY <1>1 DEF Hooks
<1>3. proc[p].agenda # <<>> => /\ Head(proc[p].agenda) \in Changes
                              /\ Tail(proc[p].agenda) \in Seq(Changes)
  BY <1>2, TailType
<1> QED
  BY <1>1, <1>2, <1>3 DEF Sound, TypeOK, LockProtects

\* A hook that starts.
LEMMA StartSound ==
  ASSUME Sound, NEW p \in Procs, NEW s \in Hooks, s.pc = "next", Start(p, s),
         UNCHANGED <<context, lost, standing>>
  PROVE  Sound'
<1>1. /\ proc' = [proc EXCEPT ![p] = s]
      /\ UNCHANGED <<memory, ledger, lock>>
  BY DEF Start
<1> QED
  BY <1>1, HookFacts, HookMoves

LEMMA StartBriefSound ==
  ASSUME Sound, NEW p \in Procs, NEW a \in Agents, NEW file \in Files, StartBrief(p, a, file)
  PROVE  Sound'
<1> DEFINE fresh == Top(file) \ memory[a]
           note  == NoteFolders({<<FolderOf[file], Governs[file] # <<>>>>})
<1>1. PICK reached \in {fresh \ left : left \in SUBSET Long} :
        \E shown \in {reached \ trimmed : trimmed \in SUBSET Long} :
          Start(p, [Idle EXCEPT
            !.pc = "next", !.agent = a, !.seen = memory[a], !.shown = shown,
            !.rendered = (reached # {}),
            !.agenda = IF reached = {} THEN <<note>>
                       ELSE <<note, RecordBrief(shown), ReportAdded(reached)>>])
  BY DEF StartBrief
<1>12. PICK shown \in {reached \ trimmed : trimmed \in SUBSET Long} :
          Start(p, [Idle EXCEPT
            !.pc = "next", !.agent = a, !.seen = memory[a], !.shown = shown,
            !.rendered = (reached # {}),
            !.agenda = IF reached = {} THEN <<note>>
                       ELSE <<note, RecordBrief(shown), ReportAdded(reached)>>])
  BY <1>1
<1>2. Top(file) \in SUBSET Decisions
  <2>1. Governs[file] \in Seq(Decisions)
    BY BriefAssumption
  <2>2. \A i \in DOMAIN Governs[file] : Governs[file][i] \in Decisions
    BY <2>1
  <2> QED
    BY <2>2 DEF Top
<1>3. memory[a] \in SUBSET Decisions
  BY DEF Sound, TypeOK
<1>4. note \in Changes
  <2>1. (Governs[file] # <<>>) \in BOOLEAN
    OBVIOUS
  <2>2. <<FolderOf[file], Governs[file] # <<>>>> \in Folders \X BOOLEAN
    BY <2>1, BriefAssumption
  <2> QED
    BY <2>2, ChangeTypes
<1>5. reached \in SUBSET Decisions /\ shown \in SUBSET Decisions
  BY <1>2
<1>6. RecordBrief(shown) \in Changes
  BY <1>5, ChangeTypes
<1>7. ReportAdded(reached) \in Changes
  <2>1. [t \in Streams |-> IF t = "added" THEN reached ELSE {}] \in [Streams -> SUBSET Decisions]
    BY <1>5
  <2> QED
    BY <2>1, ChangeTypes DEF ReportAdded
<1> DEFINE agenda == IF reached = {} THEN <<note>> ELSE <<note, RecordBrief(shown), ReportAdded(reached)>>
           s == [Idle EXCEPT !.pc = "next", !.agent = a, !.seen = memory[a], !.shown = shown,
                             !.rendered = (reached # {}), !.agenda = agenda]
<1> HIDE DEF note
<1>8. agenda \in Seq(Changes)
  BY <1>4, <1>6, <1>7
<1> HIDE DEF agenda
<1>9. s \in Hooks /\ s.pc = "next"
  BY <1>3, <1>5, <1>8, EmptyLedgerType DEF Idle, Hooks
<1>10. Start(p, s)
  BY <1>12 DEF agenda
<1> HIDE DEF s
<1>11. UNCHANGED <<context, lost, standing>>
  BY DEF StartBrief
<1> QED
  BY <1>9, <1>10, <1>11, StartSound

LEMMA StartGateSound ==
  ASSUME Sound, NEW p \in Procs, StartGate(p)
  PROVE  Sound'
<1>1. PICK round \in Rounds :
        Start(p, [Idle EXCEPT !.pc = "next",
                    !.agenda = <<NoteFolders(round.notes), ReportChecks(round.used, round.breached)>>])
  BY DEF StartGate
<1>2. /\ round.notes \in SUBSET (Folders \X BOOLEAN)
      /\ round.used \in SUBSET Decisions /\ round.breached \in SUBSET Decisions
  BY BriefAssumption
<1>3. NoteFolders(round.notes) \in Changes
  BY <1>2, ChangeTypes
<1>4. ReportChecks(round.used, round.breached) \in Changes
  <2>1. [s \in Streams |-> CASE s = "used" -> round.used [] s = "breached" -> round.breached
                           [] OTHER -> {}] \in [Streams -> SUBSET Decisions]
    BY <1>2
  <2> QED
    BY <2>1, ChangeTypes DEF ReportChecks
<1> DEFINE agenda == <<NoteFolders(round.notes), ReportChecks(round.used, round.breached)>>
           s == [Idle EXCEPT !.pc = "next", !.agenda = agenda]
<1>5. agenda \in Seq(Changes)
  BY <1>3, <1>4
<1>6. Start(p, s)
  BY <1>1
<1> HIDE DEF agenda
<1>7. s \in Hooks /\ s.pc = "next"
  BY <1>5, IdleType DEF Idle, Hooks
<1> HIDE DEF s
<1> QED
  BY <1>6, <1>7, StartSound DEF StartGate, history

LEMMA StartSummarySound ==
  ASSUME Sound, NEW p \in Procs, StartSummary(p)
  PROVE  Sound'
<1>1. PICK ruleSet \in RuleSets :
        Start(p, [Idle EXCEPT !.pc = "next", !.agenda = <<ShowSummary(ruleSet)>>])
  BY DEF StartSummary
<1> DEFINE agenda == <<ShowSummary(ruleSet)>>
           s == [Idle EXCEPT !.pc = "next", !.agenda = agenda]
<1>2. agenda \in Seq(Changes)
  BY ChangeTypes
<1>3. Start(p, s)
  BY <1>1
<1> HIDE DEF agenda
<1>4. s \in Hooks /\ s.pc = "next"
  BY <1>2, IdleType DEF Idle, Hooks
<1> HIDE DEF s
<1> QED
  BY <1>3, <1>4, StartSound DEF StartSummary, history

\* A hook whose first change is done or dropped.
Popped(s) == [s EXCEPT !.agenda = Tail(@), !.pc = "next", !.loaded = EmptyLedger]

LEMMA PopIsHook ==
  ASSUME Sound, NEW p \in Procs, proc[p].agenda # <<>>
  PROVE  /\ Popped(proc[p]) \in Hooks
         /\ Popped(proc[p]).pc = "next"
         /\ Popped(proc[p]).agent = proc[p].agent
         /\ Popped(proc[p]).seen = proc[p].seen /\ Popped(proc[p]).shown = proc[p].shown
         /\ Pop(p) = [proc EXCEPT ![p] = Popped(proc[p])]
<1>1. proc[p] \in Hooks /\ Tail(proc[p].agenda) \in Seq(Changes)
  BY HookFacts
<1>2. proc \in [Procs -> Hooks]
  BY DEF Sound, TypeOK
<1>3. Pop(p) = [proc EXCEPT ![p] = Popped(proc[p])]
  BY <1>1, <1>2 DEF Pop, Popped
<1> QED
  BY <1>1, <1>3, EmptyLedgerType DEF Popped, Hooks

\* What a hook learns is pairs of a stream and a decision.
LEMMA InformedIsHook ==
  ASSUME Sound, NEW p \in Procs, proc[p].agenda # <<>>,
         NEW news \in SUBSET (Streams \X Decisions)
  PROVE  \E s \in Hooks :
           /\ s.news = news /\ s.pc = IF news = {} THEN "next" ELSE "send"
           /\ s.agent = proc[p].agent /\ s.seen = proc[p].seen /\ s.shown = proc[p].shown
           /\ Informed(p, news) = [proc EXCEPT ![p] = s]
<1> DEFINE s == [Popped(proc[p]) EXCEPT !.news = news, !.pc = IF news = {} THEN "next" ELSE "send"]
<1>1. /\ Popped(proc[p]) \in Hooks
      /\ Popped(proc[p]).agent = proc[p].agent
      /\ Popped(proc[p]).seen = proc[p].seen /\ Popped(proc[p]).shown = proc[p].shown
      /\ Pop(p) = [proc EXCEPT ![p] = Popped(proc[p])]
  BY PopIsHook
<1>2. proc \in [Procs -> Hooks]
  BY DEF Sound, TypeOK
<1>3. Informed(p, news) = [proc EXCEPT ![p] = s]
  BY <1>1, <1>2 DEF Informed
<1>4. (IF news = {} THEN "next" ELSE "send") \in {"next", "send"}
  OBVIOUS
<1>5. /\ s \in Hooks /\ s.news = news
      /\ s.pc = IF news = {} THEN "next" ELSE "send"
      /\ s.agent = proc[p].agent /\ s.seen = proc[p].seen /\ s.shown = proc[p].shown
  BY <1>1, <1>4 DEF Hooks
<1> HIDE DEF s
<1> QED
  BY <1>3, <1>5

LEMMA CheckSound ==
  ASSUME Sound, NEW p \in Procs, Check(p)
  PROVE  Sound'
<1>1. /\ proc[p].pc = "next" /\ proc[p].agenda # <<>>
      /\ UNCHANGED <<memory, ledger, lock, context, lost>>
  BY DEF Check
<1>2. CASE proc' = Pop(p) /\ Accept(Head(proc[p].agenda))
  <2>1. standing' \in Ledgers
    BY <1>1, <1>2, HookFacts, AcceptKeeps
  <2> QED
    BY <1>1, <1>2, <2>1, PopIsHook, HookFacts, HookMoves
<1>3. CASE proc' = [proc EXCEPT ![p].pc = "wait"] /\ UNCHANGED standing
  <2> DEFINE s == [proc[p] EXCEPT !.pc = "wait"]
  <2>1. s \in Hooks /\ s.pc = "wait" /\ s.agenda # <<>>
    BY <1>1, HookFacts DEF Hooks
  <2>2. proc' = [proc EXCEPT ![p] = s]
    BY <1>3, HookFacts DEF Sound, TypeOK
  <2> HIDE DEF s
  <2> QED
    BY <1>1, <1>3, <2>1, <2>2, HookFacts, HookMoves
<1> QED
  BY <1>2, <1>3 DEF Check

\* A hook that waits has a change to make.
LEMMA WaitingFacts ==
  ASSUME Sound, NEW p \in Procs, Waiting(p)
  PROVE  proc[p].agenda # <<>>
  BY HookFacts DEF Waiting

LEMMA AcquireSound ==
  ASSUME Sound, NEW p \in Procs, Acquire(p)
  PROVE  Sound'
<1>1. /\ proc[p].agenda # <<>> /\ lock = Nobody /\ lock' = p
      /\ UNCHANGED <<memory, ledger, context, lost, standing>>
  BY WaitingFacts DEF Acquire, history
<1> DEFINE s == [proc[p] EXCEPT !.pc = "hold", !.loaded = ledger]
<1>2. s \in Hooks /\ s.pc = "hold" /\ s.agenda # <<>> /\ s.loaded = ledger
  BY <1>1, HookFacts DEF Hooks
<1>3. proc' = [proc EXCEPT ![p] = s]
  BY HookFacts DEF Sound, TypeOK, Acquire
<1> HIDE DEF s
<1>4. \A q \in Procs : lock # q
  BY <1>1, BriefAssumption
<1> QED
  BY <1>1, <1>2, <1>3, <1>4, HookFacts, HookMoves

LEMMA GiveUpSound ==
  ASSUME Sound, NEW p \in Procs, GiveUp(p)
  PROVE  Sound'
<1>1. proc' = Pop(p) /\ UNCHANGED <<memory, ledger, lock, context, lost, standing>>
  BY DEF GiveUp, history
<1>2. proc[p].agenda # <<>>
  BY WaitingFacts DEF GiveUp
<1> QED
  BY <1>1, <1>2, PopIsHook, HookFacts, HookMoves

\* What a commit does, in terms of the record itself.
LEMMA CommitFacts ==
  ASSUME Sound, NEW p \in Procs, Commit(p)
  PROVE  \E written \in BOOLEAN, change \in Changes :
           LET after == Changed(ledger, change)
               news  == IF written /\ change.op \in {"report", "checks"}
                        THEN Pairs(New(ledger, change)) ELSE {}
               shows == change.op = "summary" /\ after # ledger
           IN  /\ proc[p].pc = "hold" /\ proc[p].agenda # <<>> /\ lock = p
               /\ change = Head(proc[p].agenda)
               /\ ledger' = IF written THEN after ELSE ledger
               /\ stale' = IF written THEN stale \ {Record} ELSE stale
               /\ IF written \/ after = ledger THEN Accept(change) ELSE standing' = standing
               /\ proc' = Informed(p, news)
               /\ told' = IF ~shows THEN told ELSE IF written THEN Line(after.last) ELSE Nothing
               /\ repeated' = (repeated \/ (shows /\ Line(after.last) = told))
               /\ UNCHANGED <<memory, context, lost, emitted, twice>>
<1> DEFINE change == Head(proc[p].agenda)
<1>1. /\ proc[p].pc = "hold" /\ proc[p].agenda # <<>> /\ lock = p /\ proc[p].loaded = ledger
      /\ change \in Changes
  BY HookFacts DEF Commit
<1>2. PICK written \in {Changed(ledger, change) # ledger, FALSE} :
        /\ ledger' = IF written THEN Changed(ledger, change) ELSE ledger
        /\ stale' = IF written THEN stale \ {Record} ELSE stale
        /\ IF written \/ Changed(ledger, change) = ledger THEN Accept(change) ELSE UNCHANGED standing
        /\ proc' = Informed(p, News(change, written, ledger))
        /\ told' = IF ~(change.op = "summary" /\ Changed(ledger, change) # ledger) THEN told
                   ELSE IF written THEN Line(Changed(ledger, change).last) ELSE Nothing
        /\ repeated' = (repeated \/ (/\ change.op = "summary" /\ Changed(ledger, change) # ledger
                                     /\ Line(Changed(ledger, change).last) = told))
  BY <1>1 DEF Commit, Written
<1>3. written \in BOOLEAN
  OBVIOUS
<1>4. UNCHANGED <<memory, context, lost, emitted, twice>>
  BY DEF Commit
<1> HIDE DEF change
<1>5. News(change, written, ledger) =
        IF written /\ change.op \in {"report", "checks"} THEN Pairs(New(ledger, change)) ELSE {}
  BY DEF News
<1>6. change = Head(proc[p].agenda)
  BY DEF change
<1> change \in Changes
  BY <1>1
<1> WITNESS written \in BOOLEAN, change \in Changes
<1> QED
  BY <1>1, <1>2, <1>4, <1>5, <1>6

LEMMA CommitSound ==
  ASSUME Sound, NEW p \in Procs, Commit(p)
  PROVE  Sound'
<1>1. PICK written \in BOOLEAN, change \in Changes, news \in SUBSET (Streams \X Decisions) :
        /\ proc[p].agenda # <<>> /\ lock = p
        /\ ledger' = IF written THEN Changed(ledger, change) ELSE ledger
        /\ Accept(change) \/ standing' = standing
        /\ proc' = Informed(p, news)
        /\ UNCHANGED <<memory, context, lost>>
  BY CommitFacts DEF Pairs
<1>2. ledger' \in Ledgers /\ standing' \in Ledgers
  BY <1>1, HookFacts, ChangedType, AcceptKeeps
<1>3. PICK s \in Hooks : s.pc \in {"next", "send"} /\ proc' = [proc EXCEPT ![p] = s]
  BY <1>1, InformedIsHook
<1>4. \A q \in Procs \ {p} : lock # q
  BY <1>1
<1> QED
  BY <1>1, <1>2, <1>3, <1>4, HookFacts, HookMoves

LEMMA SendSound ==
  ASSUME Sound, NEW p \in Procs, Send(p)
  PROVE  Sound'
<1>1. UNCHANGED <<memory, ledger, lock, context, lost, standing>>
  BY DEF Send
<1> DEFINE s == [proc[p] EXCEPT !.pc = "next", !.news = {}]
<1>2. s \in Hooks /\ s.pc = "next"
  BY HookFacts DEF Hooks
<1>3. proc' = [proc EXCEPT ![p] = s]
  BY HookFacts DEF Sound, TypeOK, Send
<1> HIDE DEF s
<1> QED
  BY <1>1, <1>2, <1>3, HookFacts, HookMoves

LEMMA FinishSound ==
  ASSUME Sound, NEW p \in Procs, Finish(p)
  PROVE  Sound'
<1>1. UNCHANGED <<memory, ledger, lock, context, lost, standing>>
  BY DEF Finish, history
<1> DEFINE s == IF proc[p].rendered THEN [proc[p] EXCEPT !.pc = "store"] ELSE Idle
<1>2. s \in Hooks /\ s.pc \in {"store", "idle"}
  BY HookFacts, IdleType DEF Hooks, Idle
<1>3. proc' = [proc EXCEPT ![p] = s]
  BY DEF Finish
<1> HIDE DEF s
<1> QED
  BY <1>1, <1>2, <1>3, HookFacts, HookMoves

\* Of the memory a store leaves.
LEMMA StoredFacts ==
  ASSUME Sound, NEW p \in Procs, StoreMemory(p)
  PROVE  LET s == [proc[p] EXCEPT !.pc = "print"]
         IN  /\ \E stored \in SUBSET Decisions :
                  /\ stored \in {proc[p].seen \cup proc[p].shown, memory[proc[p].agent], {}}
                     \/ proc[p].agent \notin Agents
                  /\ memory' = [memory EXCEPT ![proc[p].agent] = stored]
             /\ proc[p].pc = "store"
             /\ s \in Hooks /\ s.pc = "print" /\ s.agent = proc[p].agent
             /\ s.seen = proc[p].seen /\ s.shown = proc[p].shown
             /\ proc' = [proc EXCEPT ![p] = s]
             /\ UNCHANGED <<ledger, lock, context, lost, standing, emitted, twice, told, repeated>>
<1> DEFINE s == [proc[p] EXCEPT !.pc = "print"]
           a == proc[p].agent
<1>1. /\ s \in Hooks /\ s.pc = "print" /\ s.agent = proc[p].agent
      /\ s.seen = proc[p].seen /\ s.shown = proc[p].shown
  BY HookFacts DEF Hooks
<1>2. proc' = [proc EXCEPT ![p] = s]
  BY HookFacts DEF Sound, TypeOK, StoreMemory
<1>3. PICK stored \in {Remembers(p), memory[a]} \cup (IF Storing(a) = {p} THEN {} ELSE {{}}) :
        memory' = [memory EXCEPT ![a] = stored]
  BY DEF StoreMemory
<1>4. \E t \in SUBSET Decisions :
        /\ t \in {proc[p].seen \cup proc[p].shown, memory[a], {}} \/ a \notin Agents
        /\ memory' = [memory EXCEPT ![a] = t]
  <2>1. CASE a \in Agents
    <3>1. Remembers(p) \in SUBSET Decisions /\ memory[a] \in SUBSET Decisions
      BY <2>1, HookFacts DEF Remembers, Hooks
    <3>2. stored \in {proc[p].seen \cup proc[p].shown, memory[a], {}}
      BY <1>3 DEF Remembers
    <3> QED
      BY <1>3, <3>1, <3>2 DEF Remembers
  <2>2. CASE a \notin Agents
    <3>1. memory' = memory
      BY <1>3, <2>2, HookFacts
    <3>2. [memory EXCEPT ![a] = {}] = memory
      BY <2>2, HookFacts
    <3> QED
      BY <2>2, <3>1, <3>2
  <2> QED
    BY <2>1, <2>2
<1> QED
  BY <1>1, <1>2, <1>4 DEF StoreMemory

LEMMA StoreMemorySound ==
  ASSUME Sound, NEW p \in Procs, StoreMemory(p)
  PROVE  Sound'
<1> DEFINE s == [proc[p] EXCEPT !.pc = "print"]
<1>1. PICK stored \in SUBSET Decisions : memory' = [memory EXCEPT ![proc[p].agent] = stored]
  BY StoredFacts
<1>2. /\ s \in Hooks /\ s.pc = "print" /\ proc' = [proc EXCEPT ![p] = s]
      /\ UNCHANGED <<ledger, lock, context, lost, standing>>
  BY StoredFacts
<1>3. memory' \in [Agents -> SUBSET Decisions]
  BY <1>1, HookFacts
<1> HIDE DEF s
<1> QED
  BY <1>2, <1>3, HookFacts, HookMoves

LEMMA PrintSound ==
  ASSUME Sound, NEW p \in Procs, PrintBrief(p)
  PROVE  Sound'
<1>1. proc' = [proc EXCEPT ![p] = Idle] /\ UNCHANGED <<memory, ledger, lock, lost, standing>>
  BY DEF PrintBrief
<1>2. context' \in [Agents -> SUBSET Decisions]
  <2>1. context' = [context EXCEPT ![proc[p].agent] = context[proc[p].agent] \cup proc[p].shown]
    BY DEF PrintBrief
  <2>2. proc[p].shown \in SUBSET Decisions
    BY HookFacts DEF Hooks
  <2> QED
    BY <2>1, <2>2, HookFacts
<1>3. Idle.pc = "idle"
  BY DEF Idle
<1> QED
  BY <1>1, <1>2, <1>3, IdleType, HookFacts, HookMoves

LEMMA KillSound ==
  ASSUME Sound, NEW p \in Procs, Kill(p)
  PROVE  Sound'
<1>1. proc' = [proc EXCEPT ![p] = Idle] /\ UNCHANGED <<memory, ledger, context, standing>>
  BY DEF Kill
<1>2. lost' \in [Agents -> SUBSET Decisions]
  <2>1. lost' \in {lost, [lost EXCEPT ![proc[p].agent] = lost[proc[p].agent] \cup proc[p].shown]}
    BY DEF Kill
  <2>2. proc[p].shown \in SUBSET Decisions
    BY HookFacts DEF Hooks
  <2> QED
    BY <2>1, <2>2, HookFacts
<1>3. \A q \in Procs \ {p} : lock = q => lock' = q
  BY DEF Kill
<1>4. Idle.pc = "idle"
  BY DEF Idle
<1> QED
  BY <1>1, <1>2, <1>3, <1>4, IdleType, HookFacts, HookMoves

\* Steps that move no hook, when the record and the lock stay or no hook holds the lock.
LEMMA OthersSound ==
  ASSUME Sound, proc' = proc,
         \/ (lock' = lock \/ \A p \in Procs : lock # p) /\ ledger' = ledger
         \/ lock' = lock /\ \A p \in Procs : lock # p,
         ledger' \in Ledgers, standing' \in Ledgers,
         memory' \in [Agents -> SUBSET Decisions],
         context' \in [Agents -> SUBSET Decisions],
         lost' \in [Agents -> SUBSET Decisions]
  PROVE  Sound'
<1>1. TypeOK'
  BY DEF Sound, TypeOK
<1>2. LockProtects'
  BY DEF Sound, LockProtects
<1> QED
  BY <1>1, <1>2 DEF Sound

LEMMA EmptyContextSound ==
  ASSUME Sound, NEW a \in Agents, EmptyContext(a)
  PROVE  Sound'
<1>1. /\ UNCHANGED <<ledger, lock, proc, standing>>
      /\ context' = [context EXCEPT ![a] = {}]
      /\ \/ memory' = [memory EXCEPT ![a] = {}] /\ lost' = [lost EXCEPT ![a] = {}]
         \/ memory' = memory /\ lost' = [lost EXCEPT ![a] = lost[a] \cup memory[a]]
  BY DEF EmptyContext, Reset
<1>2. TypeOK
  BY DEF Sound
<1>3. /\ memory' \in [Agents -> SUBSET Decisions] /\ context' \in [Agents -> SUBSET Decisions]
      /\ lost' \in [Agents -> SUBSET Decisions]
  BY <1>1, <1>2 DEF TypeOK
<1> QED
  BY <1>1, <1>2, <1>3, OthersSound DEF TypeOK

LEMMA PruneLedgerSound ==
  ASSUME Sound, PruneLedger
  PROVE  Sound'
  BY OthersSound, EmptyLedgerType DEF PruneLedger, Sound, TypeOK

LEMMA WeekSound ==
  ASSUME Sound, Week
  PROVE  Sound'
  BY OthersSound DEF Week, Sound, TypeOK, history

LEMMA PruneMemorySound ==
  ASSUME Sound, NEW a \in Agents, PruneMemory(a)
  PROVE  Sound'
<1>1. /\ UNCHANGED <<ledger, lock, proc, standing, context>>
      /\ memory' = [memory EXCEPT ![a] = {}]
      /\ lost' = lost \/ lost' = [lost EXCEPT ![a] = {}]
  BY DEF PruneMemory
<1>2. TypeOK
  BY DEF Sound
<1>3. memory' \in [Agents -> SUBSET Decisions] /\ lost' \in [Agents -> SUBSET Decisions]
  BY <1>1, <1>2 DEF TypeOK
<1> QED
  BY <1>1, <1>2, <1>3, OthersSound DEF TypeOK

LEMMA OthersLockSound ==
  ASSUME Sound, OthersLock
  PROVE  Sound'
<1>1. UNCHANGED <<memory, ledger, proc, context, lost, standing>>
  BY DEF OthersLock, history
<1>2. \A p \in Procs : lock # p
  BY BriefAssumption DEF OthersLock
<1> QED
  BY <1>1, <1>2, OthersSound DEF Sound, TypeOK

\* One step is one of these.
LEMMA Steps ==
  ASSUME Next
  PROVE  \/ \E p \in Procs :
              \/ Check(p) \/ Acquire(p) \/ GiveUp(p) \/ Commit(p) \/ Send(p)
              \/ Finish(p) \/ StoreMemory(p) \/ PrintBrief(p) \/ Kill(p)
              \/ StartGate(p) \/ StartSummary(p)
              \/ \E a \in Agents, file \in Files : StartBrief(p, a, file)
         \/ \E a \in Agents : EmptyContext(a) \/ PruneMemory(a)
         \/ Week \/ PruneLedger \/ OthersLock
  BY DEF Next, Step

LEMMA NextSound == Sound /\ [Next]_vars => Sound'
<1> SUFFICES ASSUME Sound, [Next]_vars PROVE Sound'
  OBVIOUS
<1>1. CASE UNCHANGED vars
  BY <1>1 DEF Sound, TypeOK, LockProtects, vars, history
<1>2. CASE Next
  BY <1>2, Steps, CheckSound, AcquireSound, GiveUpSound, CommitSound, SendSound, FinishSound,
     StoreMemorySound, PrintSound, KillSound, StartGateSound, StartSummarySound,
     StartBriefSound, EmptyContextSound, PruneMemorySound, WeekSound, PruneLedgerSound,
     OthersLockSound
<1> QED
  BY <1>1, <1>2

LEMMA InitSound == Init => Sound
<1> SUFFICES ASSUME Init PROVE Sound
  OBVIOUS
<1>1. ledger \in Ledgers /\ standing \in Ledgers
  BY BriefAssumption DEF Init
<1>2. ledger.briefed \in SUBSET Decisions
  BY <1>1 DEF Ledgers
<1>3. TypeOK
  BY <1>1, <1>2, IdleType DEF Init, TypeOK
<1>4. LockProtects
  BY DEF Init, Idle, LockProtects
<1> QED
  BY <1>3, <1>4 DEF Sound

\* The state is type-correct, and the lock isolates each read of the record from
\* its rewrite.
THEOREM Isolated == Spec => []Sound
<1>1. Init => Sound
  BY InitSound
<1>2. Sound /\ [Next]_vars => Sound'
  BY NextSound
<1> QED
  BY <1>1, <1>2, PTL DEF Spec

-----------------------------------------------------------------------------
(* What the record keeps.                                                  *)

\* Steps that leave the record, and what is known of it, as they are.
Quiet == UNCHANGED <<ledger, standing, told, repeated>>

LEMMA QuietSteps ==
  ASSUME [Next]_vars
  PROVE  (\E p \in Procs : Check(p) \/ Commit(p)) \/ PruneLedger \/ Quiet
<1>1. ASSUME NEW p \in Procs, Acquire(p)
      PROVE  Quiet
  BY <1>1 DEF Acquire, Quiet, history
<1>2. ASSUME NEW p \in Procs, GiveUp(p)
      PROVE  Quiet
  BY <1>2 DEF GiveUp, Quiet, history
<1>3. ASSUME NEW p \in Procs, Send(p)
      PROVE  Quiet
  BY <1>3 DEF Send, Quiet
<1>4. ASSUME NEW p \in Procs, Finish(p)
      PROVE  Quiet
  BY <1>4 DEF Finish, Quiet, history
<1>5. ASSUME NEW p \in Procs, StoreMemory(p)
      PROVE  Quiet
  BY <1>5 DEF StoreMemory, Quiet
<1>6. ASSUME NEW p \in Procs, PrintBrief(p) \/ Kill(p)
      PROVE  Quiet
  BY <1>6 DEF PrintBrief, Kill, Quiet
<1>7. ASSUME NEW p \in Procs, StartGate(p)
      PROVE  Quiet
  BY <1>7 DEF StartGate, Start, Quiet, history
<1>8. ASSUME NEW p \in Procs, StartSummary(p)
      PROVE  Quiet
  BY <1>8 DEF StartSummary, Start, Quiet, history
<1>9. ASSUME NEW p \in Procs, NEW a \in Agents, NEW file \in Files, StartBrief(p, a, file)
      PROVE  Quiet
  BY <1>9 DEF StartBrief, Start, Quiet
<1>10. ASSUME NEW a \in Agents, EmptyContext(a) \/ PruneMemory(a)
       PROVE  Quiet
  BY <1>10 DEF EmptyContext, PruneMemory, Quiet
<1>11. CASE OthersLock \/ Week
  BY <1>11 DEF OthersLock, Week, Quiet, history
<1>12. CASE UNCHANGED vars
  BY <1>12 DEF vars, history, Quiet
<1>13. CASE Next
  BY <1>13, <1>1, <1>2, <1>3, <1>4, <1>5, <1>6, <1>7, <1>8, <1>9, <1>10, <1>11, Steps
<1> QED
  BY <1>12, <1>13

LEMMA KeepsNext == Sound /\ Keeps(standing, ledger) /\ [Next]_vars => Keeps(standing, ledger)'
<1> SUFFICES ASSUME Sound, Keeps(standing, ledger), [Next]_vars
             PROVE  Keeps(standing', ledger')
  BY DEF Keeps
<1>1. ASSUME NEW p \in Procs, Check(p)
      PROVE  Keeps(standing', ledger')
  <2> DEFINE change == Head(proc[p].agenda)
  <2>1. change \in Changes /\ ledger' = ledger
    BY <1>1, HookFacts DEF Check
  <2>2. (Settled(ledger, change) /\ Accept(change)) \/ standing' = standing
    BY <1>1 DEF Check
  <2> HIDE DEF change
  <2> QED
    BY <2>1, <2>2, SettledKeeps DEF Sound, TypeOK
<1>2. ASSUME NEW p \in Procs, Commit(p)
      PROVE  Keeps(standing', ledger')
  <2>1. PICK written \in BOOLEAN, change \in Changes :
          /\ ledger' = IF written THEN Changed(ledger, change) ELSE ledger
          /\ IF written \/ Changed(ledger, change) = ledger
             THEN Accept(change) ELSE standing' = standing
    BY <1>2, CommitFacts
  <2>2. CASE written \/ Changed(ledger, change) = ledger
    <3>1. ledger' = Changed(ledger, change) /\ Accept(change)
      BY <2>1, <2>2
    <3> QED
      BY <3>1, AcceptKeeps DEF Sound, TypeOK
  <2>3. CASE ~(written \/ Changed(ledger, change) = ledger)
    BY <2>1, <2>3
  <2> QED
    BY <2>2, <2>3
<1>3. CASE PruneLedger
  BY <1>3 DEF PruneLedger, Keeps, EmptyLedger
<1>4. CASE UNCHANGED <<ledger, standing>>
  BY <1>4
<1>5. \/ \E p \in Procs : Check(p) \/ Commit(p)
      \/ PruneLedger \/ UNCHANGED <<ledger, standing>>
  BY QuietSteps DEF Quiet
<1> QED
  BY <1>1, <1>2, <1>3, <1>4, <1>5

LEMMA KeepsIsLedgerKeeps == Keeps(standing, ledger) <=> LedgerKeeps
  BY DEF Keeps, LedgerKeeps, Gaps

\* What the record accepted stays in it, however hooks overlap, wait, lose
\* writes and die.
THEOREM RecordKeeps == Spec => []LedgerKeeps
<1>1. Init => Keeps(standing, ledger)
  BY DEF Init, Keeps
<1>2. Init => Sound
  BY InitSound
<1>3. Sound /\ [Next]_vars => Sound'
  BY NextSound
<1>4. Sound /\ Keeps(standing, ledger) /\ [Next]_vars => Keeps(standing, ledger)'
  BY KeepsNext
<1>5. Keeps(standing, ledger) => LedgerKeeps
  BY KeepsIsLedgerKeeps
<1> QED
  BY <1>1, <1>2, <1>3, <1>4, <1>5, PTL DEF Spec

-----------------------------------------------------------------------------
(* What the user is told.                                                  *)

\* The line told last is the one on record, or none is known to be.
ToldIsRecorded == told \in {Nothing, Line(ledger.last)} /\ ~repeated

LEMMA ToldNext == Sound /\ ToldIsRecorded /\ [Next]_vars => ToldIsRecorded'
<1> SUFFICES ASSUME Sound, ToldIsRecorded, [Next]_vars
             PROVE  ToldIsRecorded'
  OBVIOUS
<1>1. ASSUME NEW p \in Procs, Commit(p)
      PROVE  ToldIsRecorded'
  <2>1. PICK written \in BOOLEAN, change \in Changes :
          LET after == Changed(ledger, change)
              shows == change.op = "summary" /\ after # ledger
          IN  /\ ledger' = IF written THEN after ELSE ledger
              /\ told' = IF ~shows THEN told ELSE IF written THEN Line(after.last) ELSE Nothing
              /\ repeated' = (repeated \/ (shows /\ Line(after.last) = told))
    BY <1>1, CommitFacts
  <2> DEFINE after == Changed(ledger, change)
  <2>2. ledger \in Ledgers
    BY DEF Sound, TypeOK
  <2>3. CASE change.op # "summary"
    BY <2>1, <2>2, <2>3, ChangedType DEF ToldIsRecorded
  <2>4. CASE change.op = "summary" /\ after = ledger
    BY <2>1, <2>4 DEF ToldIsRecorded
  <2>5. CASE change.op = "summary" /\ after # ledger
    <3>1. change.ruleSet \in SUBSET Decisions
      BY <2>5, ChangeForms
    <3>2. after = IF Due(ledger, change.ruleSet) = Nothing THEN ledger
                  ELSE [ledger EXCEPT !.last = Due(ledger, change.ruleSet)]
      BY <2>2, <2>5, ChangedForms
    <3>3. Due(ledger, change.ruleSet) # Nothing /\ after.last = Due(ledger, change.ruleSet)
      BY <2>2, <2>5, <3>2 DEF Ledgers
    <3>4. Line(after.last) \notin {Nothing, Line(ledger.last)}
      BY <2>2, <3>1, <3>3, DueType
    <3> HIDE DEF after
    <3>5. ~repeated' /\ told' = IF written THEN Line(after.last) ELSE Nothing
      BY <2>1, <2>5, <3>4 DEF ToldIsRecorded, after
    <3>6. written => ledger' = after
      BY <2>1 DEF after
    <3> QED
      BY <3>5, <3>6 DEF ToldIsRecorded
  <2> QED
    BY <2>3, <2>4, <2>5
<1>2. CASE PruneLedger
  BY <1>2 DEF PruneLedger, ToldIsRecorded
<1>3. CASE UNCHANGED <<ledger, told, repeated>>
  BY <1>3 DEF ToldIsRecorded
<1>4. \/ \E p \in Procs : Commit(p)
      \/ PruneLedger \/ UNCHANGED <<ledger, told, repeated>>
  <2>1. \A p \in Procs : Check(p) => UNCHANGED <<ledger, told, repeated>>
    BY DEF Check
  <2> QED
    BY <2>1, QuietSteps DEF Quiet
<1> QED
  BY <1>1, <1>2, <1>3, <1>4

\* A summary line that is on record is not told again.
THEOREM SummariesAreNews == Spec => []SummaryTellsNews
<1>1. Init => ToldIsRecorded
  BY DEF Init, ToldIsRecorded
<1>2. Init => Sound
  BY InitSound
<1>3. Sound /\ [Next]_vars => Sound'
  BY NextSound
<1>4. Sound /\ ToldIsRecorded /\ [Next]_vars => ToldIsRecorded'
  BY ToldNext
<1>5. ToldIsRecorded => SummaryTellsNews
  BY DEF ToldIsRecorded, SummaryTellsNews
<1> QED
  BY <1>1, <1>2, <1>3, <1>4, <1>5, PTL DEF Spec

-----------------------------------------------------------------------------
(* What telemetry is told.                                                 *)

\* What is about to be sent is on record, was not sent, and no two hooks are
\* about to send the same.
NewsIsNew ==
  /\ twice = {} /\ emitted \subseteq Pairs(ledger.reported)
  /\ \A p \in Procs : proc[p].pc = "send" => /\ proc[p].news \subseteq Pairs(ledger.reported)
                                            /\ proc[p].news \cap emitted = {}
  /\ \A p, q \in Procs : p # q /\ proc[p].pc = "send" /\ proc[q].pc = "send"
                           => proc[p].news \cap proc[q].news = {}

\* A change reports on top of what was reported, and what is new was not.
LEMMA ReportsGrow ==
  ASSUME NEW l \in Ledgers, NEW change \in Changes
  PROVE  /\ Pairs(l.reported) \subseteq Pairs(Changed(l, change).reported)
         /\ change.op \in {"report", "checks"} =>
              /\ Pairs(New(l, change)) \subseteq Pairs(Changed(l, change).reported)
              /\ Pairs(New(l, change)) \cap Pairs(l.reported) = {}
<1>1. CASE change.op \in {"report", "checks"}
  <2> DEFINE reported == [s \in Streams |-> l.reported[s] \cup change.keys[s]]
  <2>1. Changed(l, change) = [l EXCEPT !.reported = reported]
    BY <1>1, ChangedForms
  <2> HIDE DEF reported
  <2>2. Changed(l, change).reported = reported
    BY <2>1 DEF Ledgers
  <2>3. Changed(l, change).reported = [s \in Streams |-> l.reported[s] \cup change.keys[s]]
    BY <2>2 DEF reported
  <2> QED
    BY <2>3 DEF Pairs, New
<1>2. CASE change.op = "folders"
  <2>1. PICK notes \in SUBSET (Folders \X BOOLEAN) : change = [op |-> "folders", notes |-> notes]
    BY <1>2, ChangeForms
  <2>2. Changed(l, change).reported = l.reported
    BY <2>1, ChangedForms, NotedFields
  <2> QED
    BY <1>2, <2>2
<1>3. CASE change.op = "brief"
  <2>1. Changed(l, change).reported = l.reported
    BY <1>3, ChangedForms DEF Ledgers
  <2> QED
    BY <1>3, <2>1
<1>4. CASE change.op = "summary"
  <2>1. Changed(l, change).reported = l.reported
    BY <1>4, ChangedForms DEF Ledgers
  <2> QED
    BY <1>4, <2>1
<1> QED
  BY <1>1, <1>2, <1>3, <1>4, ChangeForms

\* A step that reports nothing and after which no further hook is about to.
NoNews ==
  /\ UNCHANGED <<ledger, emitted, twice>>
  /\ \A q \in Procs : proc'[q] = proc[q] \/ proc'[q].pc # "send"

LEMMA NoNewsKeeps ==
  ASSUME NewsIsNew, NoNews
  PROVE  NewsIsNew'
  BY DEF NewsIsNew, NoNews

\* A hook that moves, but not to where it sends.
LEMMA MovesSilently ==
  ASSUME Sound, NEW p \in Procs, NEW s, s.pc # "send",
         proc' = [proc EXCEPT ![p] = s], UNCHANGED <<ledger, emitted, twice>>
  PROVE  NoNews
  BY DEF Sound, TypeOK, NoNews

LEMMA StartsSilently ==
  ASSUME Sound, NEW p \in Procs, UNCHANGED <<emitted, twice>>, NEW hook,
         hook.pc = "next", Start(p, hook)
  PROVE  NoNews
  BY MovesSilently DEF Start

LEMMA SilentSteps ==
  ASSUME Sound, [Next]_vars
  PROVE  (\E p \in Procs : Commit(p) \/ Send(p)) \/ PruneLedger \/ NoNews
<1>1. ASSUME NEW p \in Procs, Check(p)
      PROVE  NoNews
  <2>1. proc[p].agenda # <<>> /\ UNCHANGED <<ledger, emitted, twice>>
    BY <1>1 DEF Check
  <2>2. CASE proc' = Pop(p)
    BY <2>1, <2>2, PopIsHook, MovesSilently
  <2>3. CASE proc' = [proc EXCEPT ![p].pc = "wait"]
    <3>1. proc' = [proc EXCEPT ![p] = [proc[p] EXCEPT !.pc = "wait"]]
      BY <2>3, HookFacts DEF Sound, TypeOK
    <3>2. [proc[p] EXCEPT !.pc = "wait"].pc = "wait"
      BY HookFacts DEF Hooks
    <3> QED
      BY <2>1, <3>1, <3>2, MovesSilently
  <2> QED
    BY <1>1, <2>2, <2>3 DEF Check
<1>2. ASSUME NEW p \in Procs, Acquire(p)
      PROVE  NoNews
  <2> DEFINE s == [proc[p] EXCEPT !.pc = "hold", !.loaded = ledger]
  <2>1. UNCHANGED <<ledger, emitted, twice>> /\ proc' = [proc EXCEPT ![p] = s]
    BY <1>2, HookFacts DEF Acquire, history, Sound, TypeOK
  <2>2. s.pc = "hold"
    BY HookFacts DEF Hooks
  <2> HIDE DEF s
  <2> QED
    BY <2>1, <2>2, MovesSilently
<1>3. ASSUME NEW p \in Procs, GiveUp(p)
      PROVE  NoNews
  <2>1. proc' = Pop(p) /\ UNCHANGED <<ledger, emitted, twice>>
    BY <1>3 DEF GiveUp, history
  <2>2. proc[p].agenda # <<>>
    BY <1>3, WaitingFacts DEF GiveUp
  <2> QED
    BY <2>1, <2>2, PopIsHook, MovesSilently
<1>4. ASSUME NEW p \in Procs, Finish(p)
      PROVE  NoNews
  <2> DEFINE s == IF proc[p].rendered THEN [proc[p] EXCEPT !.pc = "store"] ELSE Idle
  <2>1. UNCHANGED <<ledger, emitted, twice>> /\ proc' = [proc EXCEPT ![p] = s]
    BY <1>4 DEF Finish, history
  <2>2. s.pc \in {"store", "idle"}
    BY HookFacts DEF Hooks, Idle
  <2> HIDE DEF s
  <2> QED
    BY <2>1, <2>2, MovesSilently
<1>5. ASSUME NEW p \in Procs, StoreMemory(p)
      PROVE  NoNews
  <2> DEFINE s == [proc[p] EXCEPT !.pc = "print"]
  <2>1. /\ s.pc = "print" /\ proc' = [proc EXCEPT ![p] = s]
        /\ UNCHANGED <<ledger, emitted, twice>>
    BY <1>5, StoredFacts
  <2> HIDE DEF s
  <2> QED
    BY <2>1, MovesSilently
<1>6. ASSUME NEW p \in Procs, PrintBrief(p) \/ Kill(p)
      PROVE  NoNews
  <2>1. UNCHANGED <<ledger, emitted, twice>> /\ proc' = [proc EXCEPT ![p] = Idle]
    BY <1>6 DEF PrintBrief, Kill
  <2>2. Idle.pc = "idle"
    BY DEF Idle
  <2> QED
    BY <2>1, <2>2, MovesSilently
<1>7. ASSUME NEW p \in Procs, StartGate(p) \/ StartSummary(p)
      PROVE  NoNews
  <2>1. PICK agenda : Start(p, [Idle EXCEPT !.pc = "next", !.agenda = agenda])
    BY <1>7 DEF StartGate, StartSummary
  <2>2. UNCHANGED <<emitted, twice>>
    BY <1>7 DEF StartGate, StartSummary, history
  <2>3. [Idle EXCEPT !.pc = "next", !.agenda = agenda].pc = "next"
    BY DEF Idle
  <2> QED
    BY <2>1, <2>2, <2>3, StartsSilently
<1>8. ASSUME NEW p \in Procs, NEW a \in Agents, NEW file \in Files, StartBrief(p, a, file)
      PROVE  NoNews
  <2>1. PICK shown, rendered, agenda :
          Start(p, [Idle EXCEPT !.pc = "next", !.agent = a, !.seen = memory[a], !.shown = shown,
                                !.rendered = rendered, !.agenda = agenda])
    BY <1>8 DEF StartBrief
  <2>2. UNCHANGED <<emitted, twice>>
    BY <1>8 DEF StartBrief
  <2>3. [Idle EXCEPT !.pc = "next", !.agent = a, !.seen = memory[a], !.shown = shown,
                     !.rendered = rendered, !.agenda = agenda].pc = "next"
    BY DEF Idle
  <2> QED
    BY <2>1, <2>2, <2>3, StartsSilently
<1>9. ASSUME NEW a \in Agents, EmptyContext(a) \/ PruneMemory(a)
      PROVE  NoNews
  BY <1>9 DEF EmptyContext, PruneMemory, NoNews
<1>10. CASE OthersLock \/ Week
  BY <1>10 DEF OthersLock, Week, NoNews, history
<1>11. CASE UNCHANGED vars
  BY <1>11 DEF vars, history, NoNews
<1>12. CASE Next
  BY <1>12, <1>1, <1>2, <1>3, <1>4, <1>5, <1>6, <1>7, <1>8, <1>9, <1>10, Steps
<1> QED
  BY <1>11, <1>12

\* Who has keys to send has written the record within the week.
NewsIsFresh == Record \in stale => \A p \in Procs : proc[p].pc # "send"

\* Only a week without a hook makes a file stale.
LEMMA StaleShrinks ==
  ASSUME [Next]_vars
  PROVE  Week \/ stale' \subseteq stale
<1>1. ASSUME NEW p \in Procs, Check(p) \/ Acquire(p) \/ GiveUp(p) \/ Send(p) \/ Finish(p)
                             \/ PrintBrief(p) \/ Kill(p)
      PROVE  stale' \subseteq stale
  BY <1>1 DEF Check, Acquire, GiveUp, Send, Finish, PrintBrief, Kill
<1>2. ASSUME NEW p \in Procs, Commit(p) \/ StoreMemory(p)
      PROVE  stale' \subseteq stale
  BY <1>2 DEF Commit, Written, StoreMemory
<1>3. ASSUME NEW p \in Procs, StartGate(p) \/ StartSummary(p)
                             \/ \E a \in Agents, file \in Files : StartBrief(p, a, file)
      PROVE  stale' \subseteq stale
  BY <1>3 DEF StartGate, StartSummary, StartBrief, Start
<1>4. ASSUME NEW a \in Agents, EmptyContext(a) \/ PruneMemory(a)
      PROVE  stale' \subseteq stale
  BY <1>4 DEF EmptyContext, PruneMemory
<1>5. CASE PruneLedger \/ OthersLock \/ UNCHANGED vars
  BY <1>5 DEF PruneLedger, OthersLock, vars
<1> QED
  BY <1>1, <1>2, <1>3, <1>4, <1>5, Steps

LEMMA FreshNext == Sound /\ NewsIsFresh /\ [Next]_vars => NewsIsFresh'
<1> SUFFICES ASSUME Sound, NewsIsFresh, [Next]_vars, Record \in stale', NEW p \in Procs
             PROVE  proc'[p].pc # "send"
  BY DEF NewsIsFresh
<1>1. CASE Week
  BY <1>1 DEF Week
<1>2. CASE Record \in stale
  <2>1. proc[p].pc # "send"
    BY <1>2 DEF NewsIsFresh
  <2>2. ASSUME NEW q \in Procs, Commit(q)
        PROVE  proc'[p].pc # "send"
    <3>1. proc[q].agenda # <<>> /\ proc' = Informed(q, {})
      BY <2>2, CommitFacts
    <3>2. {} \in SUBSET (Streams \X Decisions)
      OBVIOUS
    <3>3. PICK s : s.pc = "next" /\ proc' = [proc EXCEPT ![q] = s]
      BY <3>1, <3>2, InformedIsHook
    <3> QED
      BY <2>1, <3>3 DEF Sound, TypeOK
  <2>3. ASSUME NEW q \in Procs, Send(q)
        PROVE  FALSE
    BY <1>2, <2>3 DEF Send, NewsIsFresh
  <2>4. CASE PruneLedger
    BY <2>1, <2>4 DEF PruneLedger
  <2>5. CASE NoNews
    BY <2>1, <2>5 DEF NoNews
  <2> QED
    BY <2>2, <2>3, <2>4, <2>5, SilentSteps
<1> QED
  BY <1>1, <1>2, StaleShrinks

LEMMA NewsNext == Sound /\ NewsIsFresh /\ NewsIsNew /\ [Next]_vars => NewsIsNew'
<1> SUFFICES ASSUME Sound, NewsIsFresh, NewsIsNew, [Next]_vars
             PROVE  NewsIsNew'
  OBVIOUS
<1>1. ASSUME NEW p \in Procs, Commit(p)
      PROVE  NewsIsNew'
  <2>1. PICK written \in BOOLEAN, change \in Changes :
          LET news == IF written /\ change.op \in {"report", "checks"}
                      THEN Pairs(New(ledger, change)) ELSE {}
          IN  /\ proc[p].agenda # <<>>
              /\ ledger' = IF written THEN Changed(ledger, change) ELSE ledger
              /\ proc' = Informed(p, news)
              /\ UNCHANGED <<emitted, twice>>
    BY <1>1, CommitFacts
  <2> DEFINE new == IF written /\ change.op \in {"report", "checks"}
                    THEN Pairs(New(ledger, change)) ELSE {}
  <2>2. ledger \in Ledgers
    BY HookFacts
  <2>3. new \in SUBSET (Streams \X Decisions)
    BY DEF Pairs
  <2>4. PICK news \in SUBSET (Streams \X Decisions) :
          /\ news = new /\ proc[p].agenda # <<>>
          /\ proc' = Informed(p, news) /\ UNCHANGED <<emitted, twice>>
    BY <2>1, <2>3
  <2>5. /\ Pairs(ledger.reported) \subseteq Pairs(ledger'.reported)
        /\ news \subseteq Pairs(ledger'.reported)
        /\ news \cap Pairs(ledger.reported) = {}
    BY <2>1, <2>2, <2>4, ReportsGrow
  <2> HIDE DEF new
  <2>6. PICK s \in Hooks : /\ s.news = news /\ s.pc = IF news = {} THEN "next" ELSE "send"
                           /\ proc' = [proc EXCEPT ![p] = s]
    BY <2>4, InformedIsHook
  <2>7. proc'[p] = s /\ \A q \in Procs \ {p} : proc'[q] = proc[q]
    BY <2>6 DEF Sound, TypeOK
  <2>8. \A q \in Procs : proc'[q].pc = "send" => proc'[q].news \subseteq Pairs(ledger'.reported)
    BY <2>5, <2>6, <2>7 DEF NewsIsNew
  <2>9. \A q \in Procs : proc'[q].pc = "send" => proc'[q].news \cap emitted = {}
    BY <2>5, <2>6, <2>7 DEF NewsIsNew
  <2>10. \A q \in Procs \ {p} : proc[q].pc = "send" => proc[q].news \cap news = {}
    BY <2>5 DEF NewsIsNew
  <2>11. \A q, r \in Procs : q # r /\ proc'[q].pc = "send" /\ proc'[r].pc = "send"
                               => proc'[q].news \cap proc'[r].news = {}
    BY <2>6, <2>7, <2>10 DEF NewsIsNew
  <2>12. twice' = {} /\ emitted' \subseteq Pairs(ledger'.reported)
    BY <2>5, <2>4 DEF NewsIsNew
  <2> QED
    BY <2>4, <2>8, <2>9, <2>11, <2>12 DEF NewsIsNew
<1>2. ASSUME NEW p \in Procs, Send(p)
      PROVE  NewsIsNew'
  <2> DEFINE s == [proc[p] EXCEPT !.pc = "next", !.news = {}]
  <2>1. /\ proc[p].pc = "send" /\ ledger' = ledger
        /\ emitted' = emitted \cup proc[p].news
        /\ twice' = twice \cup (emitted \cap proc[p].news)
    BY <1>2 DEF Send
  <2>2. s.pc = "next"
    BY HookFacts DEF Hooks
  <2>3. proc' = [proc EXCEPT ![p] = s]
    BY <1>2, HookFacts DEF Sound, TypeOK, Send
  <2> HIDE DEF s
  <2>4. proc'[p] = s /\ \A q \in Procs \ {p} : proc'[q] = proc[q]
    BY <2>3 DEF Sound, TypeOK
  <2>5. /\ twice' = {} /\ emitted' \subseteq Pairs(ledger.reported)
    BY <2>1 DEF NewsIsNew
  <2>6. \A q \in Procs : proc'[q].pc = "send" =>
          /\ proc'[q].news \subseteq Pairs(ledger.reported)
          /\ proc'[q].news \cap emitted' = {}
    BY <2>1, <2>2, <2>4 DEF NewsIsNew
  <2>7. \A q, r \in Procs : q # r /\ proc'[q].pc = "send" /\ proc'[r].pc = "send"
                              => proc'[q].news \cap proc'[r].news = {}
    BY <2>2, <2>4 DEF NewsIsNew
  <2> QED
    BY <2>1, <2>5, <2>6, <2>7 DEF NewsIsNew
<1>3. CASE PruneLedger
  BY <1>3 DEF PruneLedger, NewsIsFresh, NewsIsNew
<1> QED
  BY <1>1, <1>2, <1>3, NoNewsKeeps, SilentSteps

\* However hooks overlap and die, no decision is reported twice.
THEOREM NothingReportedTwice == Spec => []ReportedOnce
<1>1. Init => NewsIsNew
  BY DEF Init, NewsIsNew, Idle
<1>2. Init => Sound
  BY InitSound
<1>3. Sound /\ [Next]_vars => Sound'
  BY NextSound
<1>4. Sound /\ NewsIsFresh /\ NewsIsNew /\ [Next]_vars => NewsIsNew'
  BY NewsNext
<1>5. NewsIsNew => ReportedOnce
  BY DEF NewsIsNew, ReportedOnce
<1>6. Init => NewsIsFresh
  BY DEF Init, NewsIsFresh
<1>7. Sound /\ NewsIsFresh /\ [Next]_vars => NewsIsFresh'
  BY FreshNext
<1> QED
  BY <1>1, <1>2, <1>3, <1>4, <1>5, <1>6, <1>7, PTL DEF Spec

-----------------------------------------------------------------------------
(* What the memory withholds.                                              *)

Printing(a) == UNION {proc[p].shown : p \in {q \in Briefing(a) : proc[q].pc = "print"}}

\* What an agent's context has, is about to have, or missed by a kill.
Covered(a) == context[a] \cup lost[a] \cup Printing(a)

\* Every copy of a memory is covered: the file, and what hooks read of it.
MemoryCovered ==
  \A a \in Agents :
    /\ memory[a] \subseteq Covered(a)
    /\ \A p \in Briefing(a) : proc[p].seen \subseteq Covered(a)

\* A step that moves one hook covers what it leaves behind.
LEMMA MovesCovered ==
  ASSUME Sound, MemoryCovered, NEW p \in Procs, NEW s, proc' = [proc EXCEPT ![p] = s],
         \A a \in Agents : context[a] \subseteq context'[a] /\ lost[a] \subseteq lost'[a],
         proc[p].pc = "print" /\ proc[p].agent \in Agents =>
           proc[p].shown \subseteq context'[proc[p].agent] \cup lost'[proc[p].agent],
         s.pc # "idle" /\ s.agent \in Agents => s.seen \subseteq Covered(s.agent),
         \A a \in Agents :
           memory'[a] \subseteq Covered(a) \cup (IF s.pc = "print" /\ s.agent = a THEN s.shown ELSE {})
  PROVE  MemoryCovered'
<1>1. proc'[p] = s /\ \A q \in Procs \ {p} : proc'[q] = proc[q]
  BY DEF Sound, TypeOK
<1>2. ASSUME NEW a \in Agents
      PROVE  Covered(a) \subseteq Covered(a)'
  <2>1. ASSUME NEW d \in Printing(a)
        PROVE  d \in Covered(a)'
    <3>1. PICK q \in Procs : /\ proc[q].pc = "print" /\ proc[q].agent = a /\ d \in proc[q].shown
      BY <2>1 DEF Printing, Briefing
    <3>2. CASE q = p
      BY <1>2, <3>1, <3>2 DEF Covered
    <3>3. CASE q # p
      <4>1. q \in Briefing(a)' /\ proc'[q].pc = "print" /\ d \in proc'[q].shown
        BY <1>1, <3>1, <3>3 DEF Briefing
      <4> QED
        BY <4>1 DEF Covered, Printing
    <3> QED
      BY <3>2, <3>3
  <2> QED
    BY <2>1, <1>2 DEF Covered
<1>3. ASSUME NEW a \in Agents
      PROVE  memory'[a] \subseteq Covered(a)'
  <2>1. CASE s.pc = "print" /\ s.agent = a
    <3>1. p \in Briefing(a)' /\ proc'[p].pc = "print" /\ proc'[p].shown = s.shown
      BY <1>1, <2>1 DEF Briefing
    <3>2. s.shown \subseteq Covered(a)'
      BY <3>1 DEF Covered, Printing
    <3> QED
      BY <1>2, <1>3, <2>1, <3>2
  <2>2. CASE ~(s.pc = "print" /\ s.agent = a)
    BY <1>2, <1>3, <2>2
  <2> QED
    BY <2>1, <2>2
<1>4. ASSUME NEW a \in Agents, NEW q \in Briefing(a)'
      PROVE  proc'[q].seen \subseteq Covered(a)'
  <2>1. q \in Procs /\ proc'[q].pc # "idle" /\ proc'[q].agent = a
    BY <1>4 DEF Briefing
  <2>2. CASE q = p
    BY <1>1, <1>2, <1>4, <2>1, <2>2
  <2>3. CASE q # p
    <3>1. q \in Briefing(a) /\ proc'[q].seen = proc[q].seen
      BY <1>1, <2>1, <2>3 DEF Briefing
    <3> QED
      BY <1>2, <1>4, <3>1 DEF MemoryCovered
  <2> QED
    BY <2>2, <2>3
<1> QED
  BY <1>3, <1>4 DEF MemoryCovered

\* A hook that goes on with what it was started with.
SameBrief(s, t) == s.agent = t.agent /\ s.seen = t.seen /\ s.shown = t.shown

GoesOn(p, s) ==
  /\ proc' = [proc EXCEPT ![p] = s]
  /\ UNCHANGED <<memory, context, lost, again, strayed>>
  /\ proc[p].pc \notin {"idle", "print"} /\ s.pc # "print"
  /\ s.pc = "idle" \/ SameBrief(s, proc[p])

LEMMA GoesOnCovered ==
  ASSUME Sound, MemoryCovered, NEW p \in Procs, NEW s, GoesOn(p, s)
  PROVE  MemoryCovered'
<1>1. s.pc # "idle" /\ s.agent \in Agents => s.seen \subseteq Covered(s.agent)
  BY DEF GoesOn, SameBrief, MemoryCovered, Briefing
<1>2. \A a \in Agents :
        memory'[a] \subseteq Covered(a) \cup (IF s.pc = "print" /\ s.agent = a THEN s.shown ELSE {})
  BY DEF GoesOn, MemoryCovered
<1>3. /\ proc' = [proc EXCEPT ![p] = s] /\ proc[p].pc # "print"
      /\ \A a \in Agents : context[a] \subseteq context'[a] /\ lost[a] \subseteq lost'[a]
  BY DEF GoesOn
<1> QED
  BY <1>1, <1>2, <1>3, MovesCovered

LEMMA RecordStepsGoOn ==
  ASSUME Sound, NEW p \in Procs,
         Check(p) \/ Acquire(p) \/ GiveUp(p) \/ Commit(p) \/ Send(p) \/ Finish(p)
  PROVE  \E s : GoesOn(p, s)
<1>1. CASE Check(p)
  <2>1. /\ proc[p].pc = "next" /\ proc[p].agenda # <<>>
        /\ UNCHANGED <<memory, context, lost, again, strayed>>
    BY <1>1 DEF Check
  <2>2. CASE proc' = Pop(p)
    <3>1. GoesOn(p, Popped(proc[p]))
      BY <2>1, <2>2, PopIsHook DEF GoesOn, SameBrief
    <3> QED
      BY <3>1
  <2>3. CASE proc' = [proc EXCEPT ![p].pc = "wait"]
    <3> DEFINE s == [proc[p] EXCEPT !.pc = "wait"]
    <3>1. proc' = [proc EXCEPT ![p] = s]
      BY <2>3, HookFacts DEF Sound, TypeOK
    <3>2. SameBrief(s, proc[p]) /\ s.pc # "print"
      BY HookFacts DEF Hooks, SameBrief
    <3> HIDE DEF s
    <3>3. GoesOn(p, s)
      BY <2>1, <3>1, <3>2 DEF GoesOn
    <3> QED
      BY <3>3
  <2> QED
    BY <1>1, <2>2, <2>3 DEF Check
<1>2. CASE Acquire(p)
  <2> DEFINE s == [proc[p] EXCEPT !.pc = "hold", !.loaded = ledger]
  <2>1. /\ proc[p].pc \in {"wait", "next"} /\ UNCHANGED <<memory, context, lost, again, strayed>>
    BY <1>2 DEF Acquire, Waiting, history
  <2>2. proc' = [proc EXCEPT ![p] = s]
    BY <1>2, HookFacts DEF Acquire, Sound, TypeOK
  <2>3. SameBrief(s, proc[p]) /\ s.pc # "print"
    BY HookFacts DEF Hooks, SameBrief
  <2> HIDE DEF s
  <2>4. GoesOn(p, s)
    BY <2>1, <2>2, <2>3 DEF GoesOn
  <2> QED
    BY <2>4
<1>3. CASE GiveUp(p)
  <2>1. /\ proc[p].pc \in {"wait", "next"} /\ UNCHANGED <<memory, context, lost, again, strayed>>
        /\ proc' = Pop(p)
    BY <1>3 DEF GiveUp, Waiting, history
  <2>2. proc[p].agenda # <<>>
    BY <1>3, WaitingFacts DEF GiveUp
  <2>3. GoesOn(p, Popped(proc[p]))
    BY <2>1, <2>2, PopIsHook DEF GoesOn, SameBrief
  <2> QED
    BY <2>3
<1>4. CASE Commit(p)
  <2>1. PICK news \in SUBSET (Streams \X Decisions) :
          /\ proc[p].pc = "hold" /\ proc[p].agenda # <<>> /\ proc' = Informed(p, news)
          /\ UNCHANGED <<memory, context, lost>>
    BY <1>4, CommitFacts DEF Pairs
  <2>2. PICK s \in Hooks : /\ SameBrief(s, proc[p]) /\ s.pc # "print"
                           /\ proc' = [proc EXCEPT ![p] = s]
    BY <2>1, InformedIsHook DEF SameBrief
  <2>3. UNCHANGED <<again, strayed>>
    BY <1>4 DEF Commit
  <2>4. GoesOn(p, s)
    BY <2>1, <2>2, <2>3 DEF GoesOn
  <2> QED
    BY <2>4
<1>5. CASE Send(p)
  <2> DEFINE s == [proc[p] EXCEPT !.pc = "next", !.news = {}]
  <2>1. proc[p].pc = "send" /\ UNCHANGED <<memory, context, lost, again, strayed>>
    BY <1>5 DEF Send
  <2>2. proc' = [proc EXCEPT ![p] = s]
    BY <1>5, HookFacts DEF Send, Sound, TypeOK
  <2>3. SameBrief(s, proc[p]) /\ s.pc # "print"
    BY HookFacts DEF Hooks, SameBrief
  <2> HIDE DEF s
  <2>4. GoesOn(p, s)
    BY <2>1, <2>2, <2>3 DEF GoesOn
  <2> QED
    BY <2>4
<1>6. CASE Finish(p)
  <2> DEFINE s == IF proc[p].rendered THEN [proc[p] EXCEPT !.pc = "store"] ELSE Idle
  <2>1. /\ proc[p].pc = "next" /\ UNCHANGED <<memory, context, lost, again, strayed>>
        /\ proc' = [proc EXCEPT ![p] = s]
    BY <1>6 DEF Finish, history
  <2>2. s.pc # "print" /\ (s.pc = "idle" \/ SameBrief(s, proc[p]))
    BY HookFacts DEF Hooks, Idle, SameBrief
  <2> HIDE DEF s
  <2>3. GoesOn(p, s)
    BY <2>1, <2>2 DEF GoesOn
  <2> QED
    BY <2>3
<1> QED
  BY <1>1, <1>2, <1>3, <1>4, <1>5, <1>6

LEMMA RecordStepsCovered ==
  ASSUME Sound, MemoryCovered, NEW p \in Procs,
         Check(p) \/ Acquire(p) \/ GiveUp(p) \/ Commit(p) \/ Send(p) \/ Finish(p)
  PROVE  MemoryCovered'
  BY RecordStepsGoOn, GoesOnCovered

LEMMA StoreMemoryCovered ==
  ASSUME Sound, MemoryCovered, NEW p \in Procs, StoreMemory(p)
  PROVE  MemoryCovered'
<1> DEFINE s == [proc[p] EXCEPT !.pc = "print"]
           a == proc[p].agent
<1>1. /\ proc[p].pc = "store" /\ UNCHANGED <<context, lost>>
      /\ s \in Hooks /\ s.pc = "print" /\ s.agent = a
      /\ s.seen = proc[p].seen /\ s.shown = proc[p].shown
      /\ proc' = [proc EXCEPT ![p] = s]
  BY StoredFacts
<1>2. PICK stored \in SUBSET Decisions :
        /\ stored \in {proc[p].seen \cup proc[p].shown, memory[a], {}} \/ a \notin Agents
        /\ memory' = [memory EXCEPT ![a] = stored]
  BY StoredFacts
<1> HIDE DEF s
<1>3. s.agent \in Agents => s.seen \subseteq Covered(s.agent)
  BY <1>1 DEF MemoryCovered, Briefing
<1>4. \A b \in Agents :
        memory'[b] \subseteq Covered(b) \cup (IF s.pc = "print" /\ s.agent = b THEN s.shown ELSE {})
  <2> TAKE b \in Agents
  <2>1. CASE b = a
    <3>1. memory'[b] = stored
      BY <1>2, <2>1, HookFacts
    <3>2. memory[b] \subseteq Covered(b)
      BY DEF MemoryCovered
    <3> QED
      BY <1>1, <1>2, <1>3, <2>1, <3>1, <3>2
  <2>2. CASE b # a
    <3>1. memory'[b] = memory[b]
      BY <1>2, <2>2, HookFacts
    <3> QED
      BY <3>1 DEF MemoryCovered
  <2> QED
    BY <2>1, <2>2
<1>5. /\ proc[p].pc # "print"
      /\ \A b \in Agents : context[b] \subseteq context'[b] /\ lost[b] \subseteq lost'[b]
  BY <1>1
<1> QED
  BY <1>1, <1>3, <1>4, <1>5, MovesCovered

LEMMA EndsCovered ==
  ASSUME Sound, MemoryCovered, NEW p \in Procs, PrintBrief(p) \/ Kill(p)
  PROVE  MemoryCovered'
<1> DEFINE a == proc[p].agent
<1>1. /\ proc' = [proc EXCEPT ![p] = Idle] /\ memory' = memory
      /\ lost' = lost \/ lost' = [lost EXCEPT ![a] = lost[a] \cup proc[p].shown]
      /\ context' = context \/ context' = [context EXCEPT ![a] = context[a] \cup proc[p].shown]
  BY DEF PrintBrief, Kill
<1>2. proc[p].pc = "print" =>
        \/ lost' = [lost EXCEPT ![a] = lost[a] \cup proc[p].shown]
        \/ context' = [context EXCEPT ![a] = context[a] \cup proc[p].shown]
  BY DEF PrintBrief, Kill
<1>3. Idle.pc = "idle"
  BY DEF Idle
<1> HIDE DEF a
<1>4. \A b \in Agents : context[b] \subseteq context'[b] /\ lost[b] \subseteq lost'[b]
  BY <1>1, HookFacts
<1>5. proc[p].pc = "print" /\ a \in Agents => proc[p].shown \subseteq context'[a] \cup lost'[a]
  BY <1>2, HookFacts
<1>6. \A b \in Agents :
        memory'[b] \subseteq Covered(b) \cup (IF Idle.pc = "print" /\ Idle.agent = b THEN Idle.shown ELSE {})
  BY <1>1 DEF MemoryCovered
<1> QED
  BY <1>1, <1>3, <1>4, <1>5, <1>6, MovesCovered DEF a

LEMMA StartsCovered ==
  ASSUME Sound, MemoryCovered, NEW p \in Procs, UNCHANGED <<context, lost>>,
         NEW hook, hook.pc = "next", Start(p, hook),
         hook.seen = {} \/ hook.seen = memory[hook.agent]
  PROVE  MemoryCovered'
<1>1. /\ proc' = [proc EXCEPT ![p] = hook] /\ proc[p].pc = "idle"
      /\ \A b \in Agents : context[b] \subseteq context'[b] /\ lost[b] \subseteq lost'[b]
  BY DEF Start
<1>2. hook.agent \in Agents => hook.seen \subseteq Covered(hook.agent)
  BY DEF MemoryCovered
<1>3. \A b \in Agents :
        memory'[b] \subseteq Covered(b) \cup (IF hook.pc = "print" /\ hook.agent = b THEN hook.shown ELSE {})
  BY DEF MemoryCovered, Start
<1> QED
  BY <1>1, <1>2, <1>3, MovesCovered

LEMMA HookStartsCovered ==
  ASSUME Sound, MemoryCovered, NEW p \in Procs,
         \/ StartGate(p) \/ StartSummary(p)
         \/ \E a \in Agents, file \in Files : StartBrief(p, a, file)
  PROVE  MemoryCovered'
<1>1. CASE StartGate(p) \/ StartSummary(p)
  <2>1. PICK agenda : Start(p, [Idle EXCEPT !.pc = "next", !.agenda = agenda])
    BY <1>1 DEF StartGate, StartSummary
  <2>2. UNCHANGED <<context, lost>>
    BY <1>1 DEF StartGate, StartSummary, history
  <2> DEFINE s == [Idle EXCEPT !.pc = "next", !.agenda = agenda]
  <2>3. s.pc = "next" /\ s.seen = {}
    BY DEF Idle
  <2> HIDE DEF s
  <2>4. Start(p, s)
    BY <2>1 DEF s
  <2> QED
    BY <2>2, <2>3, <2>4, StartsCovered
<1>2. ASSUME NEW a \in Agents, NEW file \in Files, StartBrief(p, a, file)
      PROVE  MemoryCovered'
  <2>1. PICK shown, rendered, agenda :
          Start(p, [Idle EXCEPT !.pc = "next", !.agent = a, !.seen = memory[a], !.shown = shown,
                                !.rendered = rendered, !.agenda = agenda])
    BY <1>2 DEF StartBrief
  <2>2. UNCHANGED <<context, lost>>
    BY <1>2 DEF StartBrief
  <2> DEFINE s == [Idle EXCEPT !.pc = "next", !.agent = a, !.seen = memory[a], !.shown = shown,
                               !.rendered = rendered, !.agenda = agenda]
  <2>3. s.pc = "next" /\ s.agent = a /\ s.seen = memory[a]
    BY DEF Idle
  <2>4. Start(p, s)
    BY <2>1
  <2> HIDE DEF s
  <2> QED
    BY <2>2, <2>3, <2>4, StartsCovered
<1> QED
  BY <1>1, <1>2

LEMMA StateTypes ==
  ASSUME Sound
  PROVE  /\ memory \in [Agents -> SUBSET Decisions]
         /\ context \in [Agents -> SUBSET Decisions]
         /\ lost \in [Agents -> SUBSET Decisions]
  BY DEF Sound, TypeOK

LEMMA SameHooks ==
  ASSUME proc' = proc, NEW a
  PROVE  Briefing(a)' = Briefing(a) /\ Printing(a)' = Printing(a)
<1>1. Briefing(a)' = Briefing(a)
  BY DEF Briefing
<1> QED
  BY <1>1 DEF Printing

LEMMA EmptyContextCovered ==
  ASSUME Sound, MemoryCovered, NEW a \in Agents, EmptyContext(a)
  PROVE  MemoryCovered'
<1>1. /\ proc' = proc /\ Briefing(a) = {}
      /\ context' = [context EXCEPT ![a] = {}]
      /\ \/ memory' = [memory EXCEPT ![a] = {}] /\ lost' = [lost EXCEPT ![a] = {}]
         \/ memory' = memory /\ lost' = [lost EXCEPT ![a] = lost[a] \cup memory[a]]
  BY DEF EmptyContext, Reset
<1>2. \A b \in Agents : Briefing(b)' = Briefing(b) /\ Printing(b)' = Printing(b)
  BY <1>1, SameHooks
<1>3. memory'[a] \subseteq lost'[a] /\ Briefing(a)' = {}
  BY <1>1, <1>2, StateTypes
<1>4. ASSUME NEW b \in Agents \ {a}
      PROVE  memory'[b] = memory[b] /\ Covered(b)' = Covered(b)
  BY <1>1, <1>2, <1>4, StateTypes DEF Covered
<1>5. ASSUME NEW b \in Agents
      PROVE  memory'[b] \subseteq Covered(b)' /\ \A p \in Briefing(b)' : proc'[p].seen \subseteq Covered(b)'
  <2>1. CASE b = a
    BY <1>3, <2>1 DEF Covered
  <2>2. CASE b # a
    BY <1>1, <1>2, <1>4, <2>2 DEF MemoryCovered
  <2> QED
    BY <2>1, <2>2
<1> QED
  BY <1>5 DEF MemoryCovered

LEMMA PruneMemoryCovered ==
  ASSUME Sound, MemoryCovered, NEW a \in Agents, PruneMemory(a)
  PROVE  MemoryCovered'
<1>1. /\ proc' = proc /\ context' = context
      /\ memory' = [memory EXCEPT ![a] = {}]
      /\ lost' = IF Briefing(a) = {} THEN [lost EXCEPT ![a] = {}] ELSE lost
  BY DEF PruneMemory
<1>2. \A b \in Agents : Briefing(b)' = Briefing(b) /\ Printing(b)' = Printing(b)
  BY <1>1, SameHooks
<1>3. CASE lost' = lost
  <2>1. \A b \in Agents : memory'[b] \subseteq memory[b] /\ Covered(b)' = Covered(b)
    BY <1>1, <1>2, <1>3, StateTypes DEF Covered
  <2> QED
    BY <1>1, <1>2, <2>1 DEF MemoryCovered
<1>4. CASE Briefing(a) = {} /\ lost' = [lost EXCEPT ![a] = {}]
  <2>1. memory'[a] = {} /\ Briefing(a)' = {}
    BY <1>1, <1>2, <1>4, StateTypes
  <2>2. \A b \in Agents \ {a} : memory'[b] = memory[b] /\ Covered(b)' = Covered(b)
    BY <1>1, <1>2, <1>4, StateTypes DEF Covered
  <2>3. ASSUME NEW b \in Agents
        PROVE  memory'[b] \subseteq Covered(b)' /\ \A p \in Briefing(b)' : proc'[p].seen \subseteq Covered(b)'
    BY <1>1, <1>2, <2>1, <2>2 DEF MemoryCovered
  <2> QED
    BY <2>3 DEF MemoryCovered
<1> QED
  BY <1>1, <1>3, <1>4

LEMMA StaysCovered ==
  ASSUME MemoryCovered, UNCHANGED <<proc, memory, context, lost>>
  PROVE  MemoryCovered'
  BY DEF MemoryCovered, Covered, Printing, Briefing

LEMMA MemoryNext == Sound /\ MemoryCovered /\ [Next]_vars => MemoryCovered'
<1> SUFFICES ASSUME Sound, MemoryCovered, [Next]_vars
             PROVE  MemoryCovered'
  OBVIOUS
<1>1. CASE UNCHANGED vars
  BY <1>1, StaysCovered DEF vars, history
<1>2. CASE PruneLedger
  BY <1>2, StaysCovered DEF PruneLedger
<1>3. CASE OthersLock \/ Week
  BY <1>3, StaysCovered DEF OthersLock, Week, history
<1>4. CASE Next
  BY <1>4, <1>2, <1>3, Steps, RecordStepsCovered, StoreMemoryCovered, EndsCovered,
     HookStartsCovered, EmptyContextCovered, PruneMemoryCovered
<1> QED
  BY <1>1, <1>4

LEMMA InitCovered == Init => MemoryCovered
<1> SUFFICES ASSUME Init PROVE MemoryCovered
  OBVIOUS
<1>1. \A a \in Agents : Briefing(a) = {}
  BY DEF Init, Idle, Briefing
<1> QED
  BY <1>1 DEF Init, MemoryCovered, Covered

\* Decisions are withheld only from agents that have them, are about to, or
\* were to be told by a hook that was killed.
THEOREM WithheldIsBacked == Spec => []WithheldWasStated
<1>1. Init => MemoryCovered
  BY InitCovered
<1>2. Init => Sound
  BY InitSound
<1>3. Sound /\ [Next]_vars => Sound'
  BY NextSound
<1>4. Sound /\ MemoryCovered /\ [Next]_vars => MemoryCovered'
  BY MemoryNext
<1>5. MemoryCovered => WithheldWasStated
  BY DEF MemoryCovered, Covered, Printing, WithheldWasStated
<1> QED
  BY <1>1, <1>2, <1>3, <1>4, <1>5, PTL DEF Spec
-----------------------------------------------------------------------------
(* What an agent is told twice.                                            *)

\* The hooks of an agent that did not stray run one at a time, each from the
\* memory that is on disk, and until it has printed, its context lacks what it
\* states.
OneAtATime(a) ==
  /\ again[a] = {} /\ context[a] \subseteq memory[a]
  /\ \A p, q \in Briefing(a) : p = q
  /\ \A p \in Briefing(a) :
       /\ context[a] \cap proc[p].shown = {}
       /\ IF proc[p].pc = "print" THEN proc[p].shown \subseteq memory[a]
          ELSE proc[p].seen = memory[a]

StatesNews ==
  /\ strayed \in [Agents -> BOOLEAN] /\ again \in [Agents -> SUBSET Decisions]
  /\ \A a \in Agents : ~strayed[a] => OneAtATime(a)

\* What a step leaves alone of an agent and its hooks.
Untouched(a) ==
  /\ Briefing(a)' \subseteq Briefing(a)
  /\ \A q \in Briefing(a)' :
       /\ proc'[q].seen = proc[q].seen /\ proc'[q].shown = proc[q].shown
       /\ proc'[q].pc = "print" <=> proc[q].pc = "print"
  /\ memory'[a] = memory[a] /\ context'[a] = context[a] /\ again'[a] = again[a]

LEMMA UntouchedStays ==
  ASSUME NEW a, OneAtATime(a), Untouched(a)
  PROVE  OneAtATime(a)'
  BY DEF OneAtATime, Untouched

\* Where one hook moves, an agent's other hooks stay as they are.
LEMMA OtherHooks ==
  ASSUME Sound, NEW p \in Procs, NEW s, proc' = [proc EXCEPT ![p] = s], NEW a
  PROVE  /\ proc'[p] = s
         /\ \A q \in Procs \ {p} : /\ proc'[q] = proc[q]
                                   /\ q \in Briefing(a)' <=> q \in Briefing(a)
         /\ p \in Briefing(a)' <=> s.pc # "idle" /\ s.agent = a
         /\ Briefing(a)' \subseteq Procs
  BY DEF Sound, TypeOK, Briefing

\* A step that only moves a hook on, ends it, or starts one for another agent.
LEMMA QuietMove ==
  ASSUME Sound, StatesNews, NEW p \in Procs, NEW s, proc' = [proc EXCEPT ![p] = s],
         UNCHANGED <<memory, context, again, strayed>>,
         \/ s.pc = "idle" \/ s.agent \notin Agents
         \/ /\ SameBrief(s, proc[p]) /\ proc[p].pc # "idle"
            /\ s.pc # "print" /\ proc[p].pc # "print"
  PROVE  StatesNews'
<1>1. ASSUME NEW a \in Agents
      PROVE  Untouched(a)
  <2>1. ASSUME NEW q \in Briefing(a)'
        PROVE  /\ q \in Briefing(a)
               /\ proc'[q].seen = proc[q].seen /\ proc'[q].shown = proc[q].shown
               /\ proc'[q].pc = "print" <=> proc[q].pc = "print"
    <3>1. CASE q = p
      <4>1. proc'[p] = s
        BY DEF Sound, TypeOK
      <4>2. proc'[q] = s /\ s.pc # "idle" /\ s.agent = a
        BY <2>1, <3>1, <4>1 DEF Briefing
      <4> QED
        BY <3>1, <4>2 DEF SameBrief, Briefing
    <3>2. CASE q # p
      BY <2>1, <3>2, OtherHooks DEF Briefing
    <3> QED
      BY <3>1, <3>2
  <2> QED
    BY <2>1 DEF Untouched
<1>2. \A a \in Agents : ~strayed'[a] => OneAtATime(a)'
  BY <1>1, UntouchedStays DEF StatesNews
<1> QED
  BY <1>2 DEF StatesNews

LEMMA RecordStepsNews ==
  ASSUME Sound, StatesNews, NEW p \in Procs,
         Check(p) \/ Acquire(p) \/ GiveUp(p) \/ Commit(p) \/ Send(p) \/ Finish(p)
  PROVE  StatesNews'
<1>1. PICK s : GoesOn(p, s)
  BY RecordStepsGoOn
<1> QED
  BY <1>1, QuietMove DEF GoesOn

LEMMA KillNews ==
  ASSUME Sound, StatesNews, NEW p \in Procs, Kill(p)
  PROVE  StatesNews'
<1>1. proc' = [proc EXCEPT ![p] = Idle] /\ Idle.pc = "idle"
      /\ UNCHANGED <<memory, context, again, strayed>>
  BY DEF Kill, Idle
<1> QED
  BY <1>1, QuietMove

LEMMA OtherStartsNews ==
  ASSUME Sound, StatesNews, NEW p \in Procs, StartGate(p) \/ StartSummary(p)
  PROVE  StatesNews'
<1>1. PICK agenda : Start(p, [Idle EXCEPT !.pc = "next", !.agenda = agenda])
  BY DEF StartGate, StartSummary
<1> DEFINE s == [Idle EXCEPT !.pc = "next", !.agenda = agenda]
<1>2. s.agent \notin Agents
  BY BriefAssumption DEF Idle
<1>3. proc' = [proc EXCEPT ![p] = s] /\ UNCHANGED <<memory, context, again, strayed>>
  BY <1>1 DEF Start, StartGate, StartSummary, history
<1> HIDE DEF s
<1> QED
  BY <1>2, <1>3, QuietMove

\* A brief starts from the memory, and states what is not in it.
LEMMA StartBriefNews ==
  ASSUME Sound, StatesNews, NEW p \in Procs, NEW a \in Agents, NEW file \in Files,
         StartBrief(p, a, file)
  PROVE  StatesNews'
<1>1. PICK shown, rendered, agenda :
        /\ shown \cap memory[a] = {}
        /\ Start(p, [Idle EXCEPT !.pc = "next", !.agent = a, !.seen = memory[a], !.shown = shown,
                                 !.rendered = rendered, !.agenda = agenda])
  BY DEF StartBrief
<1> DEFINE s == [Idle EXCEPT !.pc = "next", !.agent = a, !.seen = memory[a], !.shown = shown,
                             !.rendered = rendered, !.agenda = agenda]
<1>2. s.pc = "next" /\ s.agent = a /\ s.seen = memory[a] /\ s.shown = shown
  BY DEF Idle
<1>3. /\ proc' = [proc EXCEPT ![p] = s] /\ UNCHANGED <<memory, context, again>>
      /\ strayed' = [strayed EXCEPT ![a] = @ \/ Briefing(a) # {}]
  BY <1>1 DEF StartBrief, Start
<1> HIDE DEF s
<1>4. strayed' \in [Agents -> BOOLEAN] /\ \A b \in Agents : strayed[b] => strayed'[b]
  BY <1>3 DEF StatesNews
<1>5. ASSUME NEW b \in Agents \ {a}, OneAtATime(b)
      PROVE  OneAtATime(b)'
  <2>1. Briefing(b)' \subseteq Briefing(b) /\ \A q \in Briefing(b)' : proc'[q] = proc[q]
    BY <1>2, <1>3, OtherHooks DEF Briefing
  <2> QED
    BY <1>3, <1>5, <2>1, UntouchedStays DEF Untouched
<1>6. ASSUME ~strayed'[a]
      PROVE  OneAtATime(a)'
  <2>1. ~strayed[a] /\ Briefing(a) = {}
    BY <1>3, <1>6 DEF StatesNews
  <2>2. proc'[p] = s /\ \A q \in Procs \ {p} : proc'[q] = proc[q]
    BY <1>3 DEF Sound, TypeOK
  <2>4. Briefing(a)' = {p}
    BY <1>2, <2>1, <2>2 DEF Briefing
  <2>3. again[a] = {} /\ context[a] \subseteq memory[a]
    BY <2>1 DEF StatesNews, OneAtATime
  <2> QED
    BY <1>1, <1>2, <1>3, <2>2, <2>3, <2>4 DEF OneAtATime
<1> QED
  BY <1>3, <1>4, <1>5, <1>6 DEF StatesNews

\* A memory that is stored as the hook meant it holds what the hook states.
LEMMA StoreMemoryNews ==
  ASSUME Sound, StatesNews, NEW p \in Procs, StoreMemory(p)
  PROVE  StatesNews'
<1> PICK a : a = proc[p].agent
  OBVIOUS
<1> DEFINE s == [proc[p] EXCEPT !.pc = "print"]
<1>1. /\ proc[p].pc = "store" /\ s.pc = "print" /\ s.agent = a
      /\ s.shown = proc[p].shown /\ proc' = [proc EXCEPT ![p] = s]
  BY StoredFacts
<1> HIDE DEF s
<1>2. PICK stored : /\ memory' = [memory EXCEPT ![a] = stored]
                    /\ strayed' = [strayed EXCEPT ![a] = @ \/ stored # Remembers(p)]
  BY DEF StoreMemory
<1>3. UNCHANGED <<context, again>>
  BY DEF StoreMemory
<1>4. strayed' \in [Agents -> BOOLEAN]
  BY <1>2 DEF StatesNews
<1>5. /\ proc'[p] = s /\ \A q \in Procs \ {p} : proc'[q] = proc[q]
      /\ memory \in [Agents -> SUBSET Decisions]
  BY <1>1 DEF Sound, TypeOK
<1>6. ASSUME NEW b \in Agents, b # a, ~strayed'[b]
      PROVE  OneAtATime(b)'
  <2>1. ~strayed[b] /\ memory'[b] = memory[b]
    BY <1>2, <1>5, <1>6 DEF StatesNews
  <2>2. Briefing(b)' \subseteq Briefing(b) /\ \A q \in Briefing(b)' : proc'[q] = proc[q]
    BY <1>1, <1>5, <1>6 DEF Briefing
  <2> QED
    BY <1>3, <1>6, <2>1, <2>2, UntouchedStays DEF Untouched, StatesNews
<1>7. ASSUME a \in Agents, ~strayed'[a]
      PROVE  OneAtATime(a)'
  <2>1. ~strayed[a] /\ memory'[a] = proc[p].seen \cup proc[p].shown
    BY <1>2, <1>5, <1>7 DEF StatesNews, Remembers
  <2>2. p \in Briefing(a) /\ OneAtATime(a)
    BY <1>1, <1>7, <2>1 DEF StatesNews, Briefing
  <2>3. /\ again[a] = {} /\ context[a] \subseteq memory[a] /\ proc[p].seen = memory[a]
        /\ context[a] \cap proc[p].shown = {} /\ Briefing(a) = {p}
    BY <1>1, <2>2 DEF OneAtATime
  <2>4. Briefing(a)' = {p}
    BY <1>1, <1>5, <2>3 DEF Briefing
  <2> QED
    BY <1>1, <1>3, <1>5, <2>1, <2>3, <2>4 DEF OneAtATime
<1> QED
  BY <1>3, <1>4, <1>6, <1>7 DEF StatesNews

\* A brief that is printed tells its agent news.
LEMMA PrintNews ==
  ASSUME Sound, StatesNews, NEW p \in Procs, PrintBrief(p)
  PROVE  StatesNews'
<1> PICK a : a = proc[p].agent
  OBVIOUS
<1>1. /\ proc[p].pc = "print" /\ proc' = [proc EXCEPT ![p] = Idle] /\ Idle.pc = "idle"
      /\ again' = [again EXCEPT ![a] = again[a] \cup (context[a] \cap proc[p].shown)]
      /\ context' = [context EXCEPT ![a] = context[a] \cup proc[p].shown]
      /\ UNCHANGED <<memory, strayed>>
  BY DEF PrintBrief, Idle
<1>2. /\ proc'[p] = Idle /\ \A q \in Procs \ {p} : proc'[q] = proc[q]
      /\ context \in [Agents -> SUBSET Decisions] /\ proc[p].shown \in SUBSET Decisions
  BY <1>1, HookFacts DEF Sound, TypeOK, Hooks
<1>3. again' \in [Agents -> SUBSET Decisions]
  BY <1>1, <1>2 DEF StatesNews
<1>4. ASSUME NEW b \in Agents, b # a, OneAtATime(b)
      PROVE  OneAtATime(b)'
  <2>1. Briefing(b)' \subseteq Briefing(b) /\ \A q \in Briefing(b)' : proc'[q] = proc[q]
    BY <1>1, <1>2, <1>4 DEF Briefing
  <2>2. again'[b] = again[b] /\ context'[b] = context[b]
    BY <1>1, <1>2, <1>4 DEF StatesNews
  <2> QED
    BY <1>1, <1>4, <2>1, <2>2, UntouchedStays DEF Untouched
<1>5. ASSUME a \in Agents, OneAtATime(a)
      PROVE  OneAtATime(a)'
  <2>1. /\ again[a] = {} /\ context[a] \subseteq memory[a] /\ proc[p].shown \subseteq memory[a]
        /\ context[a] \cap proc[p].shown = {} /\ Briefing(a) = {p}
    BY <1>1, <1>5 DEF OneAtATime, Briefing
  <2>2. Briefing(a)' = {}
    BY <1>1, <1>2, <2>1 DEF Briefing
  <2>3. again'[a] = {} /\ context'[a] \subseteq memory'[a]
    BY <1>1, <1>2, <1>5, <2>1 DEF StatesNews
  <2> QED
    BY <2>2, <2>3 DEF OneAtATime
<1> QED
  BY <1>1, <1>3, <1>4, <1>5 DEF StatesNews

LEMMA EmptyContextNews ==
  ASSUME Sound, StatesNews, NEW a \in Agents, EmptyContext(a) \/ PruneMemory(a)
  PROVE  StatesNews'
<1>1. /\ proc' = proc /\ strayed' \in [Agents -> BOOLEAN] /\ again' \in [Agents -> SUBSET Decisions]
      /\ \A b \in Agents \ {a} : /\ memory'[b] = memory[b] /\ context'[b] = context[b]
                                 /\ again'[b] = again[b] /\ strayed'[b] = strayed[b]
  BY StateTypes DEF EmptyContext, PruneMemory, Reset, StatesNews
<1>2. ASSUME NEW b \in Agents \ {a}, OneAtATime(b)
      PROVE  OneAtATime(b)'
  BY <1>1, <1>2, UntouchedStays DEF Untouched, Briefing
<1>3. CASE EmptyContext(a)
  <2>1. Briefing(a)' = {} /\ again'[a] = {} /\ context'[a] = {}
    BY <1>3, StateTypes DEF EmptyContext, Briefing, StatesNews
  <2>2. OneAtATime(a)'
    BY <2>1 DEF OneAtATime
  <2> QED
    BY <1>1, <1>2, <2>2 DEF StatesNews
<1>4. CASE PruneMemory(a)
  <2>1. strayed'[a]
    BY <1>4 DEF PruneMemory, StatesNews
  <2> QED
    BY <1>1, <1>2, <2>1 DEF StatesNews
<1> QED
  BY <1>3, <1>4

LEMMA StaysNews ==
  ASSUME StatesNews, UNCHANGED <<proc, memory, context, again, strayed>>
  PROVE  StatesNews'
  BY DEF StatesNews, OneAtATime, Briefing

LEMMA StatesNewsNext == Sound /\ StatesNews /\ [Next]_vars => StatesNews'
<1> SUFFICES ASSUME Sound, StatesNews, [Next]_vars
             PROVE  StatesNews'
  OBVIOUS
<1>1. CASE UNCHANGED vars
  BY <1>1, StaysNews DEF vars, history
<1>2. CASE PruneLedger \/ OthersLock \/ Week
  BY <1>2, StaysNews DEF PruneLedger, OthersLock, Week, history
<1>3. CASE Next
  BY <1>3, <1>2, Steps, RecordStepsNews, StoreMemoryNews, PrintNews, KillNews,
     OtherStartsNews, StartBriefNews, EmptyContextNews
<1> QED
  BY <1>1, <1>3

\* An agent whose hooks never overlapped, and whose memory was kept, is told
\* no decision twice in one context.
THEOREM StatesOnce == Spec => []StatedOnce
<1>1. Init => Sound
  BY InitSound
<1>2. Init => StatesNews
  BY DEF Init, StatesNews, OneAtATime, Briefing, Idle
<1>3. Sound /\ [Next]_vars => Sound'
  BY NextSound
<1>4. Sound /\ StatesNews /\ [Next]_vars => StatesNews'
  BY StatesNewsNext
<1>5. StatesNews => StatedOnce
  BY DEF StatesNews, OneAtATime, StatedOnce
<1> QED
  BY <1>1, <1>2, <1>3, <1>4, <1>5, PTL DEF Spec

=============================================================================
