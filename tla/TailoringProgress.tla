-------------------------- MODULE TailoringProgress --------------------------
(***************************************************************************)
(* What the progress of a tailoring run may look like to the user: per     *)
(* project, the batches shown as begun and as ended, and the project shown *)
(* as running, done or failed.  A run that returns its output has shown    *)
(* every project done; one that returns an error has shown the project     *)
(* that failed; once the run has ended nothing more is shown.              *)
(***************************************************************************)
EXTENDS Naturals

CONSTANT Projects

VARIABLES
  total,      \* batches of each project, which its start announces
  shown,      \* per project
  begun,      \* batches shown as begun
  ended,      \* batches shown as ended
  counter,    \* projects done, as the spinner counts them
  shownEnd    \* "none", "ok", "error" or "cancelled"

shownVars == <<total, shown, begun, ended, counter, shownEnd>>

Init ==
  /\ total \in Nat
  /\ shown = [p \in Projects |-> "absent"]
  /\ begun = [p \in Projects |-> {}]
  /\ ended = [p \in Projects |-> {}]
  /\ counter = 0
  /\ shownEnd = "none"

Begin(p) ==
  /\ shown[p] = "absent"
  /\ shown' = [shown EXCEPT ![p] = "running"]
  /\ UNCHANGED <<begun, ended, counter>>

BeginBatch(p, b) ==
  /\ shown[p] = "running" /\ b \notin begun[p]
  /\ begun' = [begun EXCEPT ![p] = @ \cup {b}]
  /\ UNCHANGED <<shown, ended, counter>>

EndBatch(p, b) ==
  /\ shown[p] = "running" /\ b \in begun[p] \ ended[p]
  /\ ended' = [ended EXCEPT ![p] = @ \cup {b}]
  /\ UNCHANGED <<shown, begun, counter>>

Complete(p) ==
  /\ shown[p] = "running" /\ ended[p] = 1..total
  /\ shown' = [shown EXCEPT ![p] = "done"]
  /\ counter' = counter + 1
  /\ UNCHANGED <<begun, ended>>

\* One failure ends the run, so one project at most is shown as failed.
Break(p) ==
  /\ shown[p] = "running"
  /\ \A q \in Projects : shown[q] # "failed"
  /\ shown' = [shown EXCEPT ![p] = "failed"]
  /\ UNCHANGED <<begun, ended, counter>>

Show ==
  /\ shownEnd = "none"
  /\ \E p \in Projects :
       \/ Begin(p) \/ Complete(p) \/ Break(p)
       \/ \E b \in 1..total : BeginBatch(p, b) \/ EndBatch(p, b)
  /\ UNCHANGED <<total, shownEnd>>

End ==
  /\ shownEnd = "none"
  /\ \/ shownEnd' = "ok" /\ \A p \in Projects : shown[p] = "done"
     \/ shownEnd' = "error" /\ \E p \in Projects : shown[p] = "failed"
     \/ shownEnd' = "cancelled"
  /\ UNCHANGED <<total, shown, begun, ended, counter>>

Spec == Init /\ [][Show \/ End]_shownVars
==============================================================================
