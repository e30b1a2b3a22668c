-------------------------- MODULE GovernanceLedger --------------------------
(***************************************************************************)
(* What a governance session promises its user, with no file and no       *)
(* process in sight: every judged round, every override and every turn     *)
(* start is applied to the memory in one step, none is ever lost, a round  *)
(* of one gate leaves the other gate's loop alone, and the memory can only *)
(* be forgotten as a whole.                                                *)
(***************************************************************************)
EXTENDS Integers

CONSTANTS Rules, Artifacts, Heads, NoValue

Kinds == {"plan", "diff"}

VARIABLES overrides, rounds, cleared, denied, turnStart

vars == <<overrides, rounds, cleared, denied, turnStart>>

Init ==
  /\ overrides = {}
  /\ rounds = [k \in Kinds |-> 0]
  /\ cleared = [k \in Kinds |-> [r \in Rules |-> NoValue]]
  /\ denied = [k \in Kinds |-> [r \in Rules |-> 0]]
  /\ turnStart = NoValue

\* A judge of gate k read the rules of `judged`, none of them overridden, and
\* found those of `inTheWay` violated by a: the others are cleared for a.
Round(k, a, judged, inTheWay) ==
  /\ judged # {} /\ judged \cap overrides = {}
  /\ rounds' = [rounds EXCEPT ![k] = @ + 1]
  /\ cleared' = [cleared EXCEPT ![k] =
       [r \in Rules |-> IF r \in inTheWay THEN NoValue ELSE IF r \in judged THEN a ELSE @[r]]]
  /\ denied' = [denied EXCEPT ![k] =
       [r \in Rules |-> IF r \in inTheWay THEN @[r] + 1 ELSE @[r]]]
  /\ UNCHANGED <<overrides, turnStart>>

Override(rules) ==
  /\ overrides' = overrides \cup rules
  /\ UNCHANGED <<rounds, cleared, denied, turnStart>>

Turn(head) ==
  /\ turnStart' = head
  /\ UNCHANGED <<overrides, rounds, cleared, denied>>

Forget ==
  /\ overrides' = {}
  /\ rounds' = [k \in Kinds |-> 0]
  /\ cleared' = [k \in Kinds |-> [r \in Rules |-> NoValue]]
  /\ denied' = [k \in Kinds |-> [r \in Rules |-> 0]]
  /\ turnStart' = NoValue

Next ==
  \/ \E k \in Kinds, a \in Artifacts, judged \in SUBSET Rules :
       \E inTheWay \in SUBSET judged : Round(k, a, judged, inTheWay)
  \/ \E rules \in SUBSET Rules : Override(rules)
  \/ \E head \in Heads \cup {NoValue} : Turn(head)
  \/ Forget

Spec == Init /\ [][Next]_vars
=============================================================================
