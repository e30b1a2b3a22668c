----------------------------- MODULE AtomicFile -----------------------------
(***************************************************************************)
(* What write_secure and remove_secure promise their callers: a process    *)
(* that was asked to write a content either puts that content in place, in *)
(* one step and once, or gives up and then never does.  Between the two, a *)
(* reader finds what others left, and an abandoned write has no effect.    *)
(***************************************************************************)
CONSTANTS Procs,     \* the processes that write or remove the file
          Payloads,  \* the contents they write
          Absent     \* what a reader finds when there is no file

VARIABLES
  content,  \* what a reader finds
  asked     \* asked[p]: what p is writing, Absent when it writes nothing

Init ==
  /\ content = Absent
  /\ asked = [p \in Procs |-> Absent]

Begin(p, data) ==
  /\ asked[p] = Absent
  /\ asked' = [asked EXCEPT ![p] = data]
  /\ UNCHANGED content

\* The write takes effect as it returns Ok.
TakeEffect(p) ==
  /\ asked[p] # Absent
  /\ content' = asked[p]
  /\ asked' = [asked EXCEPT ![p] = Absent]

Remove(p) ==
  /\ asked[p] = Absent
  /\ content' = Absent
  /\ UNCHANGED asked

\* An error, a kill, or the loss of all processes.
GiveUp(P) ==
  /\ asked' = [p \in Procs |-> IF p \in P THEN Absent ELSE asked[p]]
  /\ UNCHANGED content

Next ==
  \/ \E p \in Procs :
       \/ \E data \in Payloads : Begin(p, data)
       \/ TakeEffect(p)
       \/ Remove(p)
  \/ \E P \in SUBSET Procs : GiveUp(P)

Spec == Init /\ [][Next]_<<content, asked>>
=============================================================================
