------------------------------- MODULE Runner -------------------------------
(***************************************************************************)
(* One streaming run of Claude Code: run_subprocess_streaming of           *)
(* runner/subprocess.rs.  The child writes lines to two pipes.  A reader   *)
(* follows stdout for the result, a background task drains stderr; both    *)
(* watch for a message that repeats, the reader also for one that says the *)
(* usage limit is reached.  A select waits for the reader, for the timeout *)
(* and for the drainer's or the reader's notice, and the run returns once  *)
(* the drainer has ended.                                                  *)
(***************************************************************************)
EXTENDS Naturals, Sequences

CONSTANTS
  Messages,   \* what the child may say
  Limits,     \* messages that say the usage limit is reached
  Credit,     \* messages about credit, balance, billing...
  Exempt,     \* summaries of tools that may repeat
  RepeatAt,   \* consecutive repetitions that are a loop, 3 in the code
  Silent,     \* no message
  MaxLines    \* bound: lines the child writes

Results == {"ok", "empty", "error"}

ASSUME RunnerAssumption ==
  /\ Limits \subseteq Messages /\ Credit \subseteq Messages /\ Exempt \subseteq Messages
  /\ Messages \cap Results = {}
  /\ Silent \notin Messages
  /\ RepeatAt \in Nat \ {0, 1}
  /\ MaxLines \in Nat

VARIABLES
  child,     \* "alive" or "gone"
  out, err,  \* lines in the two pipes
  reader,    \* find_result: the last summary, and how often it came in a row
  drainer,   \* stderr_task, likewise
  permit,    \* the Notify's permit
  msg,       \* repetitive_msg
  run,       \* the run itself
  watched,   \* does the caller listen to events?
  expired,   \* the timeout has passed
  lines,     \* bound: lines written so far
  \* history variables
  streak,    \* per pipe: the last line written, and how often in a row
  looping,   \* messages written RepeatAt times in a row to one pipe
  result     \* the result line the child wrote

vars == <<child, out, err, reader, drainer, permit, msg, run, watched, expired,
          lines, streak, looping, result>>

Track == [last : Messages \cup {Silent}, count : Nat]

NoTrack == [last |-> Silent, count |-> 0]

Init ==
  /\ child = "alive"
  /\ out = <<>> /\ err = <<>>
  /\ reader = NoTrack
  /\ drainer = [pc |-> "draining", track |-> NoTrack]
  /\ permit = FALSE
  /\ msg = Silent
  /\ run = [pc |-> "select", found |-> "none", repeated |-> Silent, outcome |-> "none"]
  /\ watched \in BOOLEAN
  /\ expired = FALSE
  /\ lines = 0
  /\ streak = [pipe \in {"out", "err"} |-> NoTrack]
  /\ looping = {}
  /\ result = "none"

\* Mutant of Tracked: a different message does not start the count again.
MutNoReset(track, m) == [last |-> m, count |-> track.count + 1]

Tracked(track, m) ==
  [last |-> m, count |-> IF track.last = m THEN track.count + 1 ELSE 1]

-----------------------------------------------------------------------------
(* The child.                                                              *)

\* History: what the child has been writing to a pipe.
Written(pipe, m) ==
  LET was == streak[pipe]
      now == [last |-> m, count |-> IF was.last = m THEN was.count + 1 ELSE 1]
  IN  /\ streak' = [streak EXCEPT ![pipe] = now]
      /\ looping' = IF now.count >= RepeatAt THEN looping \cup {m} ELSE looping

MayWrite == child = "alive" /\ lines < MaxLines /\ lines' = lines + 1

SayOnStdout(m) ==
  /\ MayWrite
  /\ run.pc = "select" /\ result = "none"
  /\ out' = Append(out, m)
  /\ Written("out", m)
  /\ UNCHANGED <<child, err, reader, drainer, permit, msg, run, watched, expired, result>>

SayOnStderr(m) ==
  /\ MayWrite
  /\ drainer.pc = "draining"
  /\ err' = Append(err, m)
  /\ Written("err", m)
  /\ UNCHANGED <<child, out, reader, drainer, permit, msg, run, watched, expired, result>>

WriteResult(r) ==
  /\ MayWrite
  /\ run.pc = "select" /\ result = "none"
  /\ out' = Append(out, r)
  /\ result' = r
  /\ UNCHANGED <<child, err, reader, drainer, permit, msg, run, watched, expired,
                 streak, looping>>

Exit ==
  /\ child = "alive"
  /\ child' = "gone"
  /\ UNCHANGED <<out, err, reader, drainer, permit, msg, run, watched, expired,
                 lines, streak, looping, result>>

-----------------------------------------------------------------------------
(* The drainer of stderr.                                                  *)

\* A repeating line is noted and the drainer ends, closing the pipe.
DrainLine ==
  LET track == Tracked(drainer.track, Head(err))
      loops == track.count >= RepeatAt
  IN  /\ drainer.pc = "draining"
      /\ err # <<>>
      /\ err' = Tail(err)
      /\ drainer' = [pc |-> IF loops THEN "looped" ELSE "draining", track |-> track]
      /\ msg' = IF loops THEN track.last ELSE msg
      /\ permit' = (permit \/ loops)
      /\ UNCHANGED <<child, out, reader, run, watched, expired, lines, streak, looping, result>>

\* The end of stderr, once the child is gone.
DrainEnd ==
  /\ drainer.pc = "draining"
  /\ err = <<>> /\ child = "gone"
  /\ drainer' = [drainer EXCEPT !.pc = "ended"]
  /\ UNCHANGED <<child, out, err, reader, permit, msg, run, watched, expired,
                 lines, streak, looping, result>>

-----------------------------------------------------------------------------
(* The reader of stdout, polled by the select.                             *)

\* The select is over; an envelope's arm reads repetitive_msg right away, the
\* others after the drainer has ended.
Leave(found) ==
  run' = [run EXCEPT !.pc = "await", !.found = found, !.repeated = msg]

\* The reader gives up: m means that no result will come.
Stuck(m, track) ==
  \/ m \in Limits /\ track.count = 1
  \/ m \notin Exempt /\ track.count >= RepeatAt

\* A line that is not the result.  A caller that listens to no events has no
\* line of stdout looked at for repetition or limits.
ReadLine ==
  /\ run.pc = "select"
  /\ out # <<>>
  /\ LET m     == Head(out)
         track == Tracked(reader, m)
         stuck == watched /\ Stuck(m, track)
     IN  /\ m \in Messages
         /\ reader' = IF watched THEN track ELSE reader
         /\ msg' = IF stuck THEN m ELSE msg
         /\ permit' = (permit \/ stuck)
         /\ IF stuck THEN run' = [run EXCEPT !.pc = "await", !.found = "nothing"]
                     ELSE run' = run
  /\ out' = Tail(out)
  /\ UNCHANGED <<child, err, drainer, watched, expired, lines, streak, looping, result>>

ReadResult ==
  /\ run.pc = "select"
  /\ out # <<>>
  /\ Head(out) \in Results
  /\ Leave(Head(out))
  /\ out' = Tail(out)
  /\ UNCHANGED <<child, err, reader, drainer, permit, msg, watched, expired,
                 lines, streak, looping, result>>

\* Mutant of ReadEnd: the child's exit is taken for the end of its output.
MutExitIsEnd ==
  /\ run.pc = "select"
  /\ child = "gone"
  /\ Leave("nothing")
  /\ UNCHANGED <<child, out, err, reader, drainer, permit, msg, watched, expired,
                 lines, streak, looping, result>>

\* The end of stdout without a result.
ReadEnd ==
  /\ run.pc = "select"
  /\ out = <<>> /\ child = "gone"
  /\ Leave("nothing")
  /\ UNCHANGED <<child, out, err, reader, drainer, permit, msg, watched, expired,
                 lines, streak, looping, result>>

-----------------------------------------------------------------------------
(* The run.                                                                *)

Expire ==
  /\ ~expired
  /\ expired' = TRUE
  /\ UNCHANGED <<child, out, err, reader, drainer, permit, msg, run, watched,
                 lines, streak, looping, result>>

\* The timeout's arm.  The child lives on until the run returns.
TimeOut ==
  /\ run.pc = "select"
  /\ expired
  /\ Leave("timeout")
  /\ UNCHANGED <<child, out, err, reader, drainer, permit, msg, watched, expired,
                 lines, streak, looping, result>>

\* The notice's arm: the child is killed at once.
Abort ==
  /\ run.pc = "select"
  /\ permit
  /\ permit' = FALSE
  /\ child' = "gone"
  /\ Leave("nothing")
  /\ UNCHANGED <<out, err, reader, drainer, msg, watched, expired, lines, streak, looping, result>>

\* classify_subprocess_error: a message that repeats or names a limit is the
\* cause, and a matter of credit when it sounds like one.
Classify(repeated) ==
  CASE repeated = Silent -> "failed"
    [] repeated \in Credit \cup Limits -> "credit"
    [] OTHER -> "loop"

\* Mutant of Outcome: the message is read before the drainer has ended.
MutEarlyCause(found) ==
  CASE found = "ok"      -> "ok"
    [] found = "empty"   -> "failed"
    [] found = "error"   -> Classify(run.repeated)
    [] found = "nothing" -> Classify(run.repeated)
    [] found = "timeout" -> "timeout"

Outcome(found) ==
  CASE found = "ok"      -> "ok"
    [] found = "empty"   -> "failed"
    [] found = "error"   -> Classify(run.repeated)
    [] found = "nothing" -> Classify(msg)
    [] found = "timeout" -> "timeout"

\* Mutant of Return: a loop on stderr does not end the wait for its end.
MutAwaitEnd ==
  /\ run.pc = "await"
  /\ drainer.pc = "ended"
  /\ run' = [run EXCEPT !.pc = "returned", !.outcome = Outcome(run.found)]
  /\ child' = "gone"
  /\ UNCHANGED <<out, err, reader, drainer, permit, msg, watched, expired,
                 lines, streak, looping, result>>

\* Every arm awaits the drainer; the child is killed when the run returns.
Return ==
  /\ run.pc = "await"
  /\ drainer.pc # "draining"
  /\ run' = [run EXCEPT !.pc = "returned", !.outcome = Outcome(run.found)]
  /\ child' = "gone"
  /\ UNCHANGED <<out, err, reader, drainer, permit, msg, watched, expired,
                 lines, streak, looping, result>>

Drain == DrainLine \/ DrainEnd

Main == ReadLine \/ ReadResult \/ ReadEnd \/ TimeOut \/ Abort \/ Return

Child ==
  \/ \E m \in Messages : SayOnStdout(m) \/ SayOnStderr(m)
  \/ \E r \in Results : WriteResult(r)
  \/ Exit

Next == Child \/ Drain \/ Main \/ Expire

Spec == Init /\ [][Next]_vars

\* The tasks run and the timer goes off.  Of the child nothing is expected: it
\* may write, exit, or hang for ever.
FairSpec == Spec /\ WF_vars(Main) /\ WF_vars(Drain) /\ WF_vars(Expire)

-----------------------------------------------------------------------------
(* Properties.                                                             *)

\* Type invariant of the run, its pipes and the tasks.
TypeOK ==
  /\ child \in {"alive", "gone"}
  /\ out \in Seq(Messages \cup Results) /\ err \in Seq(Messages)
  /\ reader \in Track
  /\ drainer \in [pc : {"draining", "looped", "ended"}, track : Track]
  /\ permit \in BOOLEAN /\ watched \in BOOLEAN /\ expired \in BOOLEAN
  /\ msg \in Messages \cup {Silent}
  /\ run \in [pc       : {"select", "await", "returned"},
              found    : Results \cup {"none", "nothing", "timeout"},
              repeated : Messages \cup {Silent},
              outcome  : {"none", "ok", "failed", "credit", "loop", "timeout"}]
  /\ lines \in 0..MaxLines

Returned == run.pc = "returned"

Blamed == IF run.found = "error" THEN run.repeated ELSE msg

\* A run that blames a message blames one that the child really repeated, line
\* after line on one pipe, or one that names a limit.
BlameIsDeserved ==
  (Returned /\ run.outcome \in {"credit", "loop"}) => Blamed \in looping \cup Limits

\* A result the child wrote is what the run returns, whatever ended first, the
\* child, its pipes or the select, unless time ran out or the child was stuck.
ResultStands ==
  (Returned /\ result # "none" /\ ~expired /\ msg = Silent) =>
    run.outcome = IF result = "ok" THEN "ok" ELSE "failed"

\* A loop on stderr is named as the cause of a run without a result, also when
\* the drainer met it after the select was over.
LoopIsNamed ==
  (Returned /\ run.found = "nothing" /\ drainer.pc = "looped") =>
    run.outcome \in {"credit", "loop"}

\* A run ends once its child has exited, and once the drainer has met a loop,
\* whatever the child does then.
RunEnds == (child = "gone" \/ drainer.pc = "looped") ~> Returned

-----------------------------------------------------------------------------
(* The inductive invariant behind ResultStands and LoopIsNamed.            *)

\* Nobody gives notice without a message.
NoticeHasMessage == msg = Silent => ~permit /\ drainer.pc # "looped"

\* While the select waits, a result that was written is the last line of stdout.
ResultIsLast ==
  run.pc = "select" =>
    /\ run.found = "none"
    /\ result = "none" => out \in Seq(Messages)
    /\ result # "none" =>
         /\ out # <<>> /\ out[Len(out)] = result
         /\ \A i \in 1..(Len(out) - 1) : out[i] \in Messages

\* Without a notice or the timeout, the select ends with the result written.
ResultWasFound ==
  (run.pc # "select" /\ result # "none" /\ ~expired /\ msg = Silent) =>
    run.found = result /\ run.repeated = Silent

\* What was returned is what the select and the drainer ended with.
OutcomeIsFinal ==
  /\ run.pc # "select" => run.found # "none"
  /\ Returned => drainer.pc # "draining" /\ run.outcome = Outcome(run.found)

Inv ==
  /\ TypeOK
  /\ result \in Results \cup {"none"}
  /\ NoticeHasMessage
  /\ ResultIsLast
  /\ ResultWasFound
  /\ OutcomeIsFinal

-----------------------------------------------------------------------------
(* The inductive invariant behind BlameIsDeserved.                         *)

\* The lines of a pipe from i + 1 to j say the same.
SameLines(pipe, i, j, m) == \A k \in (i + 1)..j : pipe[k] = m

\* What a watcher with this track is going to count in a pipe was written: each
\* run of one line, with what the watcher has counted if it begins the pipe.
CountsAreReal(track, pipe, loops) ==
  /\ \A j \in 0..Len(pipe) :
       track.last # Silent /\ SameLines(pipe, 0, j, track.last) /\ track.count + j >= RepeatAt
         => track.last \in loops
  /\ \A i, j \in 0..Len(pipe) : \A m \in Messages :
       SameLines(pipe, i, j, m) /\ i + RepeatAt <= j => m \in loops

\* The run of lines at the end of a pipe is at most the child's own.
EndIsReal(track, pipe, written) ==
  /\ \A i \in 0..Len(pipe) : \A m \in Messages :
       SameLines(pipe, i, Len(pipe), m) /\ i < Len(pipe)
         => written.last = m /\ written.count >= Len(pipe) - i
  /\ SameLines(pipe, 0, Len(pipe), track.last)
       => written.last = track.last /\ written.count >= track.count + Len(pipe)

\* A message is noted when it was repeated, or names a limit.
Deserved(m) == m = Silent \/ m \in looping \cup Limits

BlameInv ==
  /\ streak \in [{"out", "err"} -> Track]
  /\ watched /\ run.pc = "select" =>
       /\ CountsAreReal(reader, out, looping)
       /\ result = "none" => EndIsReal(reader, out, streak["out"])
  /\ CountsAreReal(drainer.track, err, looping)
  /\ EndIsReal(drainer.track, err, streak["err"])
  /\ Deserved(msg) /\ Deserved(run.repeated)
=============================================================================
