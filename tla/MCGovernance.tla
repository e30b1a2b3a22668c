---------------------------- MODULE MCGovernance ----------------------------
(* Small instances of GovernanceLoop: three rules, a cap of two.           *)
EXTENDS GovernanceLoop, TLC

CONSTANTS c1, c2, a1, a2, h1, none

\* Every artifact selects every rule.
AllApply == [a \in Artifacts |-> Rules]

Tracked(kind, a) == [kind |-> kind, artifact |-> a, tracked |-> TRUE]

\* A plan and its revision, and a diff.
PlanPlanDiff == {Tracked("plan", a1), Tracked("plan", a2), Tracked("diff", a1)}

\* One plan and one diff, and a plan from an envelope without a session id.
PlanDiffUntracked ==
  {Tracked("plan", a1), Tracked("plan", a2), Tracked("diff", a1),
   [kind |-> "plan", artifact |-> a1, tracked |-> FALSE]}

\* The serial run's properties read neither the audit log nor the histories of
\* blocked and conforming rules, and no guard does: states that differ only
\* there are one state to it.
SerialView == <<session, hook, human, started, granted, denials, rotation>>

\* The overlapping run's properties read none of these histories.
OverlapView == <<session, audit, hook, human, printed, raced, started, blocked, conformed>>

CallSymmetry == Permutations(Calls)

OverrideFirst == {{1}}
OverrideTwo == {{1, 2}}

\* Only judging hooks and check-override, the minute-long overlap.
JudgingSpec == Init /\ [][Next /\ \A c \in Calls : hook'[c].pc # "turn"]_vars
=============================================================================
