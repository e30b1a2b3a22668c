----------------------------- MODULE BriefLedger -----------------------------
(***************************************************************************)
(* The record of a session that cli/commands/brief_ledger.rs keeps: the    *)
(* decisions briefed to its agents, the folders they worked in, the counts *)
(* the user last saw (cli/commands/session_summary.rs) and what has been   *)
(* reported to telemetry, with the changes its writers make to it.         *)
(***************************************************************************)
EXTENDS Naturals, FiniteSets

CONSTANTS
  Decisions,   \* decisions, and the logical ADRs telemetry reports them as
  Folders,     \* folders files sit in
  Streams,     \* what is reported once: ADRs added to context, used, breached
  Nothing      \* no counts, no line

\* Gaps and covered folders count folders, added and available decisions.
Counts == [added : Nat, available : Nat, gaps : Nat, covered : Nat]

Ledgers ==
  [briefed : SUBSET Decisions, last : Counts \cup {Nothing},
   covered : SUBSET Folders, uncovered : SUBSET Folders,
   reported : [Streams -> SUBSET Decisions]]

EmptyLedger ==
  [briefed |-> {}, last |-> Nothing, covered |-> {}, uncovered |-> {},
   reported |-> [s \in Streams |-> {}]]

Gaps(ledger) == ledger.uncovered \ ledger.covered

-----------------------------------------------------------------------------
(* The summary line.                                                       *)

CountsOf(ledger, ruleSet) ==
  [added |-> Cardinality(ledger.briefed \cap ruleSet), available |-> Cardinality(ruleSet),
   gaps |-> Cardinality(Gaps(ledger)), covered |-> Cardinality(ledger.covered)]

\* The line shows some of the counts; two lines are equal when those are.
Line(counts) ==
  IF counts = Nothing \/ counts.available = 0 THEN Nothing
  ELSE IF counts.added = 0 /\ counts.gaps > 0 /\ counts.covered = 0
    THEN [gaps |-> counts.gaps]
  ELSE IF counts.gaps = 0
    THEN [added |-> counts.added, available |-> counts.available]
  ELSE [added |-> counts.added, available |-> counts.available, gaps |-> counts.gaps]

\* The counts to show now, or Nothing when the line would say nothing new.
Due(ledger, ruleSet) ==
  LET now == CountsOf(ledger, ruleSet)
  IN  IF (now.added = 0 /\ now.gaps = 0) \/ Line(now) \in {Nothing, Line(ledger.last)}
      THEN Nothing ELSE now

-----------------------------------------------------------------------------
(* Changes.  Notes are pairs of a folder and whether a decision governs    *)
(* the file that was worked on there.                                      *)

NoteFolders(notes) == [op |-> "folders", notes |-> notes]
RecordBrief(keys) == [op |-> "brief", keys |-> keys]
ReportAdded(keys) ==
  [op |-> "report", keys |-> [s \in Streams |-> IF s = "added" THEN keys ELSE {}]]
ReportChecks(used, breached) ==
  [op |-> "checks", keys |-> [s \in Streams |-> CASE s = "used" -> used
                                                  [] s = "breached" -> breached
                                                  [] OTHER -> {}]]
ShowSummary(ruleSet) == [op |-> "summary", ruleSet |-> ruleSet]

WouldChange(ledger, note) ==
  /\ note[1] \notin ledger.covered
  /\ note[2] \/ note[1] \notin ledger.uncovered

\* What is reported, as <<stream, decision>>.
Pairs(keys) == {pair \in Streams \X Decisions : pair[2] \in keys[pair[1]]}

New(ledger, change) == [s \in Streams |-> change.keys[s] \ ledger.reported[s]]

\* Mutant of Noted: a folder once a gap stays one.
MutGapStays(ledger, notes) ==
  [ledger EXCEPT
     !.covered = @ \cup {n[1] : n \in {m \in notes : m[2] /\ m[1] \notin ledger.uncovered}},
     !.uncovered = @ \cup {n[1] : n \in {m \in notes : ~m[2] /\ WouldChange(ledger, m)}}]

\* A call notes a folder once, so the order of its notes does not matter.
Noted(ledger, notes) ==
  [ledger EXCEPT
     !.covered = @ \cup {n[1] : n \in {m \in notes : m[2]}},
     !.uncovered = @ \cup {n[1] : n \in {m \in notes : ~m[2] /\ WouldChange(ledger, m)}}]

Changed(ledger, change) ==
  CASE change.op = "folders" -> Noted(ledger, change.notes)
    [] change.op = "brief"   -> [ledger EXCEPT !.briefed = @ \cup change.keys]
    [] change.op \in {"report", "checks"} ->
         [ledger EXCEPT !.reported = [s \in Streams |-> @[s] \cup change.keys[s]]]
    [] change.op = "summary" ->
         IF Due(ledger, change.ruleSet) = Nothing THEN ledger
         ELSE [ledger EXCEPT !.last = Due(ledger, change.ruleSet)]

\* The changes a read without the lock can show to be none.  A brief is
\* recorded and reported without such a read.
Settled(ledger, change) ==
  \/ change.op = "folders" /\ \A n \in change.notes : ~WouldChange(ledger, n)
  \/ change.op = "checks"  /\ \A s \in Streams : New(ledger, change)[s] = {}
  \/ change.op = "summary" /\ Due(ledger, change.ruleSet) = Nothing
==============================================================================
