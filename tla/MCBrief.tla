------------------------------- MODULE MCBrief -------------------------------
(* Two hooks at a time in a session that goes on: a decision is known and   *)
(* another is not, or not for long; one folder is covered and one is a gap.  *)
(* Agents share only the record, so one is enough beside the second hook.    *)
EXTENDS Brief

CONSTANTS p1, p2, nobody, others, nothing

MCFolderOf == [f \in Files |-> IF f = "docs" THEN "d" ELSE "s"]

MCGoverns == [f \in Files |-> IF f = "api" THEN <<"x", "y">> ELSE <<>>]

MCRounds == {[notes |-> {<<"d", TRUE>>}, used |-> {"x", "y"}, breached |-> {"x"}]}

MCEarlier ==
  {[EmptyLedger EXCEPT !.briefed = {"x"}, !.reported["added"] = {"x"},
                       !.covered = {"s"}, !.uncovered = {"d"}],
   [EmptyLedger EXCEPT !.briefed = {"x", "y"}, !.reported["added"] = {"x", "y"},
                       !.covered = {"s"}, !.uncovered = {"d"},
                       !.last = [added |-> 2, available |-> 2, gaps |-> 1, covered |-> 1]]}

MCRuleSets == {{"x", "y"}}
==============================================================================
