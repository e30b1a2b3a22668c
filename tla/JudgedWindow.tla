---------------------------- MODULE JudgedWindow ----------------------------
(***************************************************************************)
(* Which rules one judge call sees, when more rules apply than the cap     *)
(* allows: select_judged_window and rotation_offset of check_engine.rs.    *)
(*                                                                         *)
(* A rule is a number: its place in the order the code gives the           *)
(* candidates (selection order, then declaration order within a document). *)
(* A list of candidates is then a set of numbers, and a rule's index in    *)
(* the list is the number of candidates before it.                         *)
(***************************************************************************)
EXTENDS Integers, FiniteSets

CONSTANT MaxRulesJudged   \* the judging cap, 40 in the code

ASSUME CapIsPositive == MaxRulesJudged \in Nat \ {0}

\* The index of rule r in the ordered list of the rules of S.
IndexIn(r, S) == Cardinality({q \in S : q < r})

\* The slots left for rules no earlier round has denied.
Remaining(pinned) == MaxRulesJudged - Cardinality(pinned)

\* Mutant of RotationOffset: strides by the cap, not by the slots left.
MutStrideByCap(round, width, considered) ==
  IF considered = 0 THEN 0 ELSE (round * MaxRulesJudged) % considered

\* Where the window starts in the list of unpinned candidates: one window's
\* width further every round, wrapping.
RotationOffset(round, width, considered) ==
  IF considered = 0 THEN 0 ELSE (round * width) % considered

\* rotate_left(offset) followed by truncate(width): the rules whose index,
\* counted from the offset and wrapping, is below the width.
Rotated(rest, round, width) ==
  LET n == Cardinality(rest)
      offset == RotationOffset(round, width, n)
  IN  {r \in rest : (IndexIn(r, rest) - offset) % n < width}

\* The first k rules of S.
Prefix(S, k) == {r \in S : IndexIn(r, S) < k}

SelectJudgedWindow(candidates, denied, round) ==
  LET pinned == candidates \cap denied
      rest   == candidates \ denied
  IN  IF Cardinality(pinned) >= MaxRulesJudged
        THEN Prefix(pinned, MaxRulesJudged)
        ELSE pinned \cup Rotated(rest, round, Remaining(pinned))

\* The most rounds an unpinned candidate can be left out of the window while
\* the candidates stay the same: a full turn of the rotation, less one round.
LongestWait(rest, pinned) ==
  LET width == Remaining(pinned)
  IN  (Cardinality(rest) + width - 1) \div width - 1
=============================================================================
