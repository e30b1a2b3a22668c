---------------------------- MODULE RunnerProofs ----------------------------
(* Proofs about Runner: the result of a run stands, and a loop on stderr is *)
(* named, for any messages, any threshold and any number of lines.          *)
EXTENDS Runner, TLAPS

-----------------------------------------------------------------------------
(* Lines and outcomes.                                                      *)

\* Counting one more line gives a track.
LEMMA TrackedType ==
  ASSUME NEW track \in Track, NEW m \in Messages
  PROVE  Tracked(track, m) \in Track /\ Tracked(track, m).last = m
BY DEF Track, Tracked

\* What classify_subprocess_error may say.
LEMMA ClassifyType == ASSUME NEW m PROVE Classify(m) \in {"failed", "credit", "loop"}
BY DEF Classify

\* An outcome exists for every way to leave the select.
LEMMA OutcomeType ==
  ASSUME NEW found \in Results \cup {"nothing", "timeout"}
  PROVE  Outcome(found) \in {"ok", "failed", "credit", "loop", "timeout"}
BY ClassifyType DEF Outcome, Results

\* A named message is never an unexplained failure.
LEMMA NamedOutcome ==
  ASSUME NEW m \in Messages PROVE Classify(m) \in {"credit", "loop"}
BY RunnerAssumption DEF Classify

\* Without a message an error is an unexplained failure.
LEMMA SilentOutcome == Classify(Silent) = "failed"
<1>1. Silent \notin Credit \cup Limits
  BY RunnerAssumption
<1> QED
  BY <1>1 DEF Classify

\* A pipe in which nothing follows the first line holds one line.
LEMMA OneLine ==
  ASSUME NEW S, NEW pipe \in Seq(S), pipe # <<>>, ~(1 <= Len(pipe) - 1)
  PROVE  Len(pipe) = 1
<1> DEFINE n == Len(pipe)
<1>1. n \in Nat /\ n # 0 /\ ~(1 <= n - 1)
  OBVIOUS
<1> HIDE DEF n
<1>2. n = 1
  BY <1>1
<1> QED
  BY <1>2 DEF n

-----------------------------------------------------------------------------
(* The invariant.                                                           *)

LEMMA InitInv == Init => Inv
<1> SUFFICES ASSUME Init PROVE Inv
  OBVIOUS
<1>1. NoTrack \in Track
  BY DEF NoTrack, Track
<1>2. TypeOK
  <2>1. permit \in BOOLEAN /\ watched \in BOOLEAN /\ expired \in BOOLEAN
    BY DEF Init
  <2>2. out \in Seq(Messages \cup Results) /\ err \in Seq(Messages)
    BY DEF Init
  <2>3. reader \in Track /\ drainer \in [pc : {"draining", "looped", "ended"}, track : Track]
    BY <1>1 DEF Init
  <2>4. child \in {"alive", "gone"} /\ msg \in Messages \cup {Silent} /\ lines \in 0..MaxLines
    BY RunnerAssumption DEF Init
  <2>5. run \in [pc       : {"select", "await", "returned"},
                 found    : Results \cup {"none", "nothing", "timeout"},
                 repeated : Messages \cup {Silent},
                 outcome  : {"none", "ok", "failed", "credit", "loop", "timeout"}]
    BY DEF Init
  <2> QED
    BY <2>1, <2>2, <2>3, <2>4, <2>5 DEF TypeOK
<1>3. out \in Seq(Messages)
  BY DEF Init
<1>4. NoticeHasMessage
  <2>1. drainer.pc # "looped"
    BY DEF Init
  <2>2. ~permit
    BY DEF Init
  <2> QED
    BY <2>1, <2>2 DEF NoticeHasMessage
<1>5. ResultIsLast /\ ResultWasFound /\ OutcomeIsFinal
  BY <1>3 DEF Init, ResultIsLast, ResultWasFound, OutcomeIsFinal, Returned
<1> QED
  BY <1>2, <1>4, <1>5 DEF Init, Inv

\* The child writes, or exits.
LEMMA ChildInv == ASSUME Inv, Child PROVE Inv'
<1> USE DEF Inv
<1>1. ASSUME NEW m \in Messages, SayOnStdout(m) PROVE Inv'
  <2> USE <1>1 DEF SayOnStdout, MayWrite
  <2>1. out \in Seq(Messages) /\ out' = Append(out, m)
    BY DEF ResultIsLast
  <2>2. TypeOK'
    BY <2>1, RunnerAssumption DEF TypeOK
  <2>3. ResultIsLast'
    BY <2>1 DEF ResultIsLast
  <2> QED
    BY <2>2, <2>3 DEF NoticeHasMessage, ResultWasFound, OutcomeIsFinal, Returned, Outcome
<1>2. ASSUME NEW m \in Messages, SayOnStderr(m) PROVE Inv'
  <2> USE <1>2 DEF SayOnStderr, MayWrite
  <2>1. TypeOK'
    BY RunnerAssumption DEF TypeOK
  <2> QED
    BY <2>1 DEF NoticeHasMessage, ResultIsLast, ResultWasFound, OutcomeIsFinal, Returned, Outcome
<1>3. ASSUME NEW r \in Results, WriteResult(r) PROVE Inv'
  <2> USE <1>3 DEF WriteResult, MayWrite
  <2>1. out \in Seq(Messages) /\ out' = Append(out, r)
    BY DEF ResultIsLast
  <2>2. TypeOK'
    BY <2>1, RunnerAssumption DEF TypeOK
  <2>3. /\ out' # <<>> /\ out'[Len(out')] = r /\ Len(out') = Len(out) + 1
        /\ \A i \in 1..Len(out) : out'[i] = out[i]
    BY <2>1
  <2>4. ResultIsLast'
    BY <2>1, <2>3 DEF ResultIsLast, Results
  <2> QED
    BY <2>2, <2>4 DEF NoticeHasMessage, ResultWasFound, OutcomeIsFinal, Returned, Outcome
<1>4. CASE Exit
  <2>1. TypeOK'
    BY <1>4 DEF Exit, TypeOK
  <2> QED
    BY <1>4, <2>1 DEF Exit, NoticeHasMessage, ResultIsLast, ResultWasFound, OutcomeIsFinal,
       Returned, Outcome
<1> QED
  BY <1>1, <1>2, <1>3, <1>4 DEF Child

\* The drainer reads a line, or meets the end.
LEMMA DrainInv == ASSUME Inv, Drain PROVE Inv'
<1> USE DEF Inv
<1>1. CASE DrainLine
  <2> USE <1>1
  <2> DEFINE track == Tracked(drainer.track, Head(err))
  <2>1. Head(err) \in Messages /\ err' \in Seq(Messages)
    BY DEF DrainLine, TypeOK
  <2>2. track \in Track /\ track.last \in Messages
    BY <2>1, TrackedType DEF TypeOK
  <2>3. track.last # Silent
    BY <2>2, RunnerAssumption
  <2>4. TypeOK'
    BY <2>1, <2>2 DEF DrainLine, TypeOK
  <2>5. NoticeHasMessage'
    BY <2>3 DEF DrainLine, NoticeHasMessage
  <2>6. msg' = Silent => msg = Silent
    BY <2>3 DEF DrainLine
  <2>7. run.pc # "returned"
    BY DEF DrainLine, OutcomeIsFinal, Returned
  <2>8. ResultIsLast'
    BY DEF DrainLine, ResultIsLast
  <2>9. ResultWasFound'
    BY <2>6 DEF DrainLine, ResultWasFound
  <2>10. OutcomeIsFinal'
    BY <2>7 DEF DrainLine, OutcomeIsFinal, Returned
  <2>11. result' \in Results \cup {"none"}
    BY DEF DrainLine
  <2> QED
    BY <2>4, <2>5, <2>8, <2>9, <2>10, <2>11
<1>2. CASE DrainEnd
  BY <1>2 DEF DrainEnd, TypeOK, NoticeHasMessage, ResultIsLast, ResultWasFound,
     OutcomeIsFinal, Returned, Outcome
<1> QED
  BY <1>1, <1>2 DEF Drain

\* The reader consumes a line that is not the result.
LEMMA ReadLineInv == ASSUME Inv, ReadLine PROVE Inv'
<1> USE DEF Inv
<1> DEFINE m == Head(out)
           track == Tracked(reader, m)
<1>1. run.pc = "select" /\ out # <<>> /\ m \in Messages /\ m # Silent /\ out' = Tail(out)
  BY RunnerAssumption DEF ReadLine
<1>2. out \in Seq(Messages \cup Results) /\ out' \in Seq(Messages \cup Results)
  BY <1>1 DEF TypeOK
<1>3. Len(out') = Len(out) - 1 /\ \A i \in 1..Len(out') : out'[i] = out[i + 1]
  BY <1>1, <1>2
<1>4. track \in Track
  BY <1>1, TrackedType DEF TypeOK
<1>5. /\ msg' \in {msg, m}
      /\ msg' = Silent => msg = Silent /\ permit' = permit /\ run' = run
      /\ run' \in {run, [run EXCEPT !.pc = "await", !.found = "nothing"]}
  <2>1. msg' = m => msg' # Silent
    BY <1>1
  <2>2. CASE watched /\ Stuck(m, track)
    BY <1>1, <2>2 DEF ReadLine
  <2>3. CASE ~(watched /\ Stuck(m, track))
    BY <1>1, <2>3 DEF ReadLine, TypeOK
  <2> QED
    BY <2>2, <2>3
<1>6. TypeOK'
  BY <1>1, <1>2, <1>4, <1>5 DEF ReadLine, TypeOK
<1>7. NoticeHasMessage'
  BY <1>5 DEF ReadLine, NoticeHasMessage
<1>8. ResultIsLast'
  <2> SUFFICES ASSUME run'.pc = "select" PROVE ResultIsLast'
    BY DEF ResultIsLast
  <2>1. run'.found = "none" /\ result' = result
    BY <1>1, <1>5 DEF ReadLine, ResultIsLast, TypeOK
  <2>2. result = "none" => out' \in Seq(Messages)
    BY <1>1 DEF ResultIsLast
  <2>3. ASSUME result # "none"
        PROVE  /\ out' # <<>> /\ out'[Len(out')] = result
               /\ \A i \in 1..(Len(out') - 1) : out'[i] \in Messages
    <3>1. out[Len(out)] = result /\ result \notin Messages
      BY <1>1, <2>3, RunnerAssumption DEF ResultIsLast
    <3>2. Len(out) # 1
      BY <1>1, <1>2, <3>1
    <3>3. Len(out') \in Nat \ {0} /\ Len(out) = Len(out') + 1
      BY <1>1, <1>2, <1>3, <3>2
    <3>4. \A i \in 1..(Len(out') - 1) : out'[i] \in Messages
      <4> SUFFICES ASSUME NEW i \in 1..(Len(out') - 1) PROVE out'[i] \in Messages
        OBVIOUS
      <4>1. i + 1 \in 1..(Len(out) - 1) /\ i \in 1..Len(out')
        BY <3>3
      <4> QED
        BY <1>1, <1>3, <2>3, <4>1 DEF ResultIsLast
    <3>5. out'[Len(out')] = out[Len(out)]
      BY <1>3, <3>3
    <3> QED
      BY <3>1, <3>3, <3>4, <3>5
  <2> QED
    BY <2>1, <2>2, <2>3 DEF ResultIsLast
<1>9. ResultWasFound'
  BY <1>1, <1>5 DEF ReadLine, ResultWasFound
<1>10. OutcomeIsFinal'
  BY <1>1, <1>5 DEF OutcomeIsFinal, Returned, TypeOK
<1> QED
  BY <1>6, <1>7, <1>8, <1>9, <1>10 DEF ReadLine

\* Leaving the select keeps the types, and notes the message of the moment.
LEMMA LeaveFacts ==
  ASSUME Inv, run.pc = "select", NEW found \in Results \cup {"nothing", "timeout"}, Leave(found)
  PROVE  /\ run'.pc = "await" /\ run'.found = found /\ run'.repeated = msg
         /\ run' \in [pc       : {"select", "await", "returned"},
                      found    : Results \cup {"none", "nothing", "timeout"},
                      repeated : Messages \cup {Silent},
                      outcome  : {"none", "ok", "failed", "credit", "loop", "timeout"}]
BY DEF Inv, TypeOK, Leave

\* The select ends with the result, the end of stdout, the timeout or a notice.
LEMMA SelectInv == ASSUME Inv, ReadResult \/ ReadEnd \/ TimeOut \/ Abort PROVE Inv'
<1> USE DEF Inv
<1>1. CASE ReadResult
  <2> DEFINE r == Head(out)
  <2>1. /\ run.pc = "select" /\ out # <<>> /\ r \in Results /\ Leave(r)
        /\ out \in Seq(Messages \cup Results)
    BY <1>1 DEF ReadResult, TypeOK
  <2>2. run'.pc = "await" /\ run'.found = r /\ r # "none" /\ run'.repeated = msg
    BY <2>1, LeaveFacts DEF Results
  <2>3. TypeOK'
    BY <1>1, <2>1, LeaveFacts DEF ReadResult, TypeOK
  <2>4. result # "none" => r = result
    <3> SUFFICES ASSUME result # "none" PROVE r = result
      OBVIOUS
    <3>1. r \notin Messages
      BY <2>1, RunnerAssumption
    <3>2. r = out[1]
      BY <2>1
    <3>3. ~(1 <= Len(out) - 1)
      BY <2>1, <3>1, <3>2 DEF ResultIsLast
    <3>4. Len(out) = 1
      BY <2>1, <3>3, OneLine
    <3>5. out[Len(out)] = result
      BY <2>1 DEF ResultIsLast
    <3> HIDE DEF r
    <3> QED
      BY <3>2, <3>4, <3>5
  <2>5. ResultWasFound'
    BY <1>1, <2>2, <2>4 DEF ReadResult, ResultWasFound
  <2> QED
    BY <1>1, <2>2, <2>3, <2>5
       DEF ReadResult, NoticeHasMessage, ResultIsLast, OutcomeIsFinal, Returned
<1>2. CASE ReadEnd
  <2>1. run.pc = "select" /\ Leave("nothing") /\ out = <<>>
    BY <1>2 DEF ReadEnd
  <2>2. run'.pc = "await" /\ run'.found # "none"
    BY <2>1, LeaveFacts
  <2>3. TypeOK'
    BY <1>2, <2>1, LeaveFacts DEF ReadEnd, TypeOK
  <2>4. result = "none"
    BY <2>1 DEF ResultIsLast
  <2> QED
    BY <1>2, <2>2, <2>3, <2>4
       DEF ReadEnd, NoticeHasMessage, ResultIsLast, ResultWasFound, OutcomeIsFinal, Returned
<1>3. CASE TimeOut
  <2>1. run.pc = "select" /\ Leave("timeout") /\ expired
    BY <1>3 DEF TimeOut
  <2>2. run'.pc = "await" /\ run'.found # "none"
    BY <2>1, LeaveFacts
  <2>3. TypeOK'
    BY <1>3, <2>1, LeaveFacts DEF TimeOut, TypeOK
  <2> QED
    BY <1>3, <2>1, <2>2, <2>3
       DEF TimeOut, NoticeHasMessage, ResultIsLast, ResultWasFound, OutcomeIsFinal, Returned
<1>4. CASE Abort
  <2>1. run.pc = "select" /\ Leave("nothing") /\ permit
    BY <1>4 DEF Abort
  <2>2. run'.pc = "await" /\ run'.found # "none"
    BY <2>1, LeaveFacts
  <2>3. TypeOK'
    BY <1>4, <2>1, LeaveFacts DEF Abort, TypeOK
  <2>4. msg # Silent
    BY <2>1 DEF NoticeHasMessage
  <2> QED
    BY <1>4, <2>2, <2>3, <2>4
       DEF Abort, NoticeHasMessage, ResultIsLast, ResultWasFound, OutcomeIsFinal, Returned
<1> QED
  BY <1>1, <1>2, <1>3, <1>4

\* The run returns, once it left the select.
LEMMA ReturnInv == ASSUME Inv, Return PROVE Inv'
<1> USE DEF Inv
<1>1. run.found # "none"
  BY DEF Return, OutcomeIsFinal
<1>2. Outcome(run.found) \in {"ok", "failed", "credit", "loop", "timeout"}
  BY <1>1, OutcomeType DEF TypeOK
<1>3. TypeOK'
  BY <1>2 DEF Return, TypeOK
<1>4. run'.pc = "returned" /\ run'.found = run.found /\ run'.repeated = run.repeated
  BY DEF Return, TypeOK
<1>5. OutcomeIsFinal'
  BY <1>1, <1>4 DEF Return, TypeOK, OutcomeIsFinal, Returned, Outcome
<1> QED
  BY <1>1, <1>3, <1>4, <1>5 DEF Return, NoticeHasMessage, ResultIsLast, ResultWasFound

-----------------------------------------------------------------------------
(* The theorems.                                                            *)

LEMMA NextInv == Inv /\ [Next]_vars => Inv'
<1> SUFFICES ASSUME Inv, [Next]_vars PROVE Inv'
  OBVIOUS
<1>1. CASE UNCHANGED vars
  <2>1. TypeOK'
    BY <1>1 DEF vars, Inv, TypeOK
  <2>2. NoticeHasMessage'
    BY <1>1 DEF vars, Inv, NoticeHasMessage
  <2> QED
    BY <1>1, <2>1, <2>2 DEF vars, Inv, ResultIsLast, ResultWasFound, OutcomeIsFinal,
       Returned, Outcome
<1>2. CASE Expire
  <2>1. TypeOK'
    BY <1>2 DEF Expire, Inv, TypeOK
  <2> QED
    BY <1>2, <2>1 DEF Expire, Inv, NoticeHasMessage, ResultIsLast, ResultWasFound,
       OutcomeIsFinal, Returned, Outcome
<1> QED
  BY <1>1, <1>2, ChildInv, DrainInv, ReadLineInv, SelectInv, ReturnInv DEF Next, Main

\* Inv holds in every state: a message goes with every notice, the result waits
\* at the end of stdout, and what was found decides what is returned.
THEOREM Inductive == Spec => []Inv
<1>1. Init => Inv
  BY InitInv
<1>2. Inv /\ [Next]_vars => Inv'
  BY NextInv
<1> QED
  BY <1>1, <1>2, PTL DEF Spec

\* The result the child wrote is what the run returns, unless time ran out or
\* the child was stuck.
THEOREM ResultIsReturned == Spec => []ResultStands
<1>1. Inv => ResultStands
  <2> SUFFICES ASSUME Inv, Returned, result # "none", ~expired, msg = Silent
               PROVE  run.outcome = IF result = "ok" THEN "ok" ELSE "failed"
    BY DEF ResultStands
  <2>1. run.found = result /\ run.repeated = Silent /\ run.outcome = Outcome(result)
    BY DEF Inv, ResultWasFound, OutcomeIsFinal, Returned
  <2>2. result \in Results
    BY DEF Inv
  <2> QED
    BY <2>1, <2>2, SilentOutcome DEF Outcome, Results
<1> QED
  BY <1>1, Inductive, PTL

\* A run that ends without a result names the loop its drainer met.
THEOREM LoopsAreNamed == Spec => []LoopIsNamed
<1>1. Inv => LoopIsNamed
  <2> SUFFICES ASSUME Inv, Returned, run.found = "nothing", drainer.pc = "looped"
               PROVE  run.outcome \in {"credit", "loop"}
    BY DEF LoopIsNamed
  <2>1. msg \in Messages
    BY DEF Inv, TypeOK, NoticeHasMessage
  <2>2. run.outcome = Classify(msg)
    BY DEF Inv, OutcomeIsFinal, Outcome
  <2> QED
    BY <2>1, <2>2, NamedOutcome
<1> QED
  BY <1>1, Inductive, PTL

-----------------------------------------------------------------------------
(* What is blamed was repeated: first about one pipe, then about the run.   *)

\* One more line is written: what the watcher will count is still real, and the
\* run at the end is the child's.
LEMMA WriteCounts ==
  ASSUME NEW track \in Track, NEW S, Messages \subseteq S, NEW pipe \in Seq(S),
         NEW written \in Track, NEW loops, NEW m \in Messages,
         NEW now, now = Tracked(written, m),
         NEW after, after = IF now.count >= RepeatAt THEN loops \cup {m} ELSE loops,
         CountsAreReal(track, pipe, loops), EndIsReal(track, pipe, written)
  PROVE  /\ CountsAreReal(track, Append(pipe, m), after)
         /\ EndIsReal(track, Append(pipe, m), now)
<1> DEFINE n == Len(pipe)
           more == Append(pipe, m)
<1>1. /\ n \in Nat /\ Len(more) = n + 1 /\ more[n + 1] = m
      /\ \A k \in 1..n : more[k] = pipe[k]
  OBVIOUS
<1>2. /\ track.count \in Nat /\ written.count \in Nat /\ RepeatAt \in Nat /\ RepeatAt >= 2
      /\ now.last = m
      /\ now.count = IF written.last = m THEN written.count + 1 ELSE 1
      /\ m # Silent
  BY RunnerAssumption DEF Track, Tracked
<1>3. loops \subseteq after /\ (now.count >= RepeatAt => m \in after)
  OBVIOUS
<1>4. \A i \in 0..n, j \in 0..n : \A x : SameLines(more, i, j, x) <=> SameLines(pipe, i, j, x)
  BY <1>1 DEF SameLines
<1>5. \A i \in 0..n : \A x : SameLines(more, i, n + 1, x) <=> SameLines(pipe, i, n, x) /\ x = m
  <2> SUFFICES ASSUME NEW i \in 0..n, NEW x
               PROVE  SameLines(more, i, n + 1, x) <=> SameLines(pipe, i, n, x) /\ x = m
    OBVIOUS
  <2>1. (i + 1)..(n + 1) = ((i + 1)..n) \cup {n + 1}
    BY <1>1
  <2>2. \A k \in (i + 1)..n : more[k] = pipe[k]
    BY <1>1
  <2> HIDE DEF more, n
  <2> QED
    BY <1>1, <2>1, <2>2 DEF SameLines
<1>6. \A i \in 0..n : SameLines(pipe, i, n, m) => now.count >= n + 1 - i
  BY <1>1, <1>2 DEF EndIsReal
<1>7. SameLines(pipe, 0, n, track.last) /\ track.last = m => now.count >= track.count + n + 1
  BY <1>1, <1>2 DEF EndIsReal
<1> HIDE DEF more, n
<1>8. EndIsReal(track, more, now)
  <2>1. ASSUME NEW i \in 0..(n + 1), NEW x \in Messages, SameLines(more, i, n + 1, x), i < n + 1
        PROVE  now.last = x /\ now.count >= n + 1 - i
    <3>1. i \in 0..n
      BY <1>1, <2>1
    <3> QED
      BY <1>2, <1>5, <1>6, <2>1, <3>1
  <2>2. ASSUME SameLines(more, 0, n + 1, track.last)
        PROVE  now.last = track.last /\ now.count >= track.count + (n + 1)
    <3>1. 0 \in 0..n
      BY <1>1
    <3>2. SameLines(pipe, 0, n, track.last) /\ track.last = m
      BY <1>5, <2>2, <3>1
    <3> QED
      BY <1>1, <1>2, <1>7, <3>2
  <2> QED
    BY <1>1, <2>1, <2>2 DEF EndIsReal
<1>9. CountsAreReal(track, more, after)
  <2>1. ASSUME NEW j \in 0..(n + 1), track.last # Silent, SameLines(more, 0, j, track.last),
               track.count + j >= RepeatAt
        PROVE  track.last \in after
    <3>0. 0 \in 0..n
      BY <1>1
    <3>1. CASE j = n + 1
      <4>1. SameLines(pipe, 0, n, track.last) /\ track.last = m
        BY <1>5, <2>1, <3>0, <3>1
      <4> QED
        BY <1>1, <1>2, <1>3, <1>7, <2>1, <3>1, <4>1
    <3>2. CASE j \in 0..n
      <4>1. SameLines(pipe, 0, j, track.last)
        BY <1>4, <2>1, <3>0, <3>2
      <4>2. track.last \in loops
        BY <2>1, <3>2, <4>1 DEF CountsAreReal, n
      <4> QED
        BY <1>3, <4>2
    <3> QED
      BY <1>1, <3>1, <3>2
  <2>2. ASSUME NEW i \in 0..(n + 1), NEW j \in 0..(n + 1), NEW x \in Messages,
               SameLines(more, i, j, x), i + RepeatAt <= j
        PROVE  x \in after
    <3>0. i \in 0..n
      BY <1>1, <1>2, <2>2
    <3>1. CASE j = n + 1
      <4>1. SameLines(pipe, i, n, m) /\ x = m
        BY <1>5, <2>2, <3>0, <3>1
      <4>2. now.count >= n + 1 - i
        BY <1>6, <3>0, <4>1
      <4>3. now.count >= RepeatAt
        BY <1>1, <1>2, <2>2, <3>1, <4>2
      <4> QED
        BY <1>3, <4>1, <4>3
    <3>2. CASE j \in 0..n
      <4>1. SameLines(pipe, i, j, x)
        BY <1>4, <2>2, <3>0, <3>2
      <4>2. x \in loops
        BY <2>2, <3>0, <3>2, <4>1 DEF CountsAreReal, n
      <4> QED
        BY <1>3, <4>2
    <3> QED
      BY <1>1, <3>1, <3>2
  <2> QED
    BY <1>1, <2>1, <2>2 DEF CountsAreReal
<1> QED
  BY <1>8, <1>9 DEF more

\* The result of a run ends the pipe, and is no message.
LEMMA ResultCounts ==
  ASSUME NEW track \in Track, track.last # Silent => track.last \in Messages,
         NEW pipe \in Seq(Messages \cup Results), NEW loops, NEW r \in Results,
         CountsAreReal(track, pipe, loops)
  PROVE  CountsAreReal(track, Append(pipe, r), loops)
<1> DEFINE n == Len(pipe)
           more == Append(pipe, r)
<1>1. /\ n \in Nat /\ Len(more) = n + 1 /\ more[n + 1] = r
      /\ \A k \in 1..n : more[k] = pipe[k]
  OBVIOUS
<1>2. r \notin Messages /\ RepeatAt \in Nat /\ RepeatAt >= 2
  BY RunnerAssumption
<1>3. \A i \in 0..n, j \in 0..n : \A x : SameLines(more, i, j, x) <=> SameLines(pipe, i, j, x)
  BY <1>1 DEF SameLines
<1>4. \A i \in 0..n, x \in Messages : ~SameLines(more, i, n + 1, x)
  <2> SUFFICES ASSUME NEW i \in 0..n, NEW x \in Messages, SameLines(more, i, n + 1, x) PROVE FALSE
    OBVIOUS
  <2>1. n + 1 \in (i + 1)..(n + 1)
    BY <1>1
  <2> HIDE DEF more, n
  <2> QED
    BY <1>1, <1>2, <2>1 DEF SameLines
<1> HIDE DEF more, n
<1>5. ASSUME NEW j \in 0..(n + 1), track.last # Silent, SameLines(more, 0, j, track.last),
             track.count + j >= RepeatAt
      PROVE  track.last \in loops
  <2>0. 0 \in 0..n
    BY <1>1
  <2>1. j \in 0..n
    BY <1>1, <1>4, <1>5, <2>0
  <2>2. SameLines(pipe, 0, j, track.last)
    BY <1>3, <1>5, <2>0, <2>1
  <2> QED
    BY <1>5, <2>1, <2>2 DEF CountsAreReal, n
<1>6. ASSUME NEW i \in 0..(n + 1), NEW j \in 0..(n + 1), NEW x \in Messages,
             SameLines(more, i, j, x), i + RepeatAt <= j
      PROVE  x \in loops
  <2>0. i \in 0..n
    BY <1>1, <1>2, <1>6
  <2>1. j \in 0..n
    BY <1>1, <1>4, <1>6, <2>0
  <2>2. SameLines(pipe, i, j, x)
    BY <1>3, <1>6, <2>0, <2>1
  <2> QED
    BY <1>6, <2>0, <2>1, <2>2 DEF CountsAreReal, n
<1> QED
  BY <1>1, <1>5, <1>6 DEF CountsAreReal, more

\* A watcher reads a line: what it has counted now, and is still going to count,
\* is real.
LEMMA ReadCounts ==
  ASSUME NEW track \in Track, NEW S, NEW pipe \in Seq(S), pipe # <<>>, Head(pipe) \in Messages,
         NEW loops, CountsAreReal(track, pipe, loops),
         NEW now, now = Tracked(track, Head(pipe))
  PROVE  /\ CountsAreReal(now, Tail(pipe), loops)
         /\ now.count >= RepeatAt => now.last \in loops
         /\ \A written \in Track :
              EndIsReal(track, pipe, written) => EndIsReal(now, Tail(pipe), written)
<1> DEFINE m == Head(pipe)
           n == Len(pipe)
           rest == Tail(pipe)
<1>1. /\ n \in Nat /\ n >= 1 /\ Len(rest) = n - 1 /\ pipe[1] = m
      /\ \A k \in 1..(n - 1) : rest[k] = pipe[k + 1]
  <2>1. n \in Nat /\ n # 0 /\ Len(rest) = n - 1
    OBVIOUS
  <2>2. \A k \in 1..(n - 1) : rest[k] = pipe[k + 1]
    BY <2>1
  <2> HIDE DEF n, rest
  <2> QED
    BY <2>1, <2>2
<1>2. /\ track.count \in Nat /\ RepeatAt \in Nat /\ RepeatAt >= 2
      /\ now.last = m /\ now.last \in Messages /\ m # Silent
      /\ now.count = IF track.last = m THEN track.count + 1 ELSE 1
  BY RunnerAssumption DEF Track, Tracked
<1> HIDE DEF m, n, rest
<1>3. \A i \in 0..(n - 1), j \in 0..(n - 1) : \A x :
        SameLines(rest, i, j, x) => SameLines(pipe, i + 1, j + 1, x)
  <2> SUFFICES ASSUME NEW i \in 0..(n - 1), NEW j \in 0..(n - 1), NEW x, SameLines(rest, i, j, x),
                      NEW k \in ((i + 1) + 1)..(j + 1)
               PROVE  pipe[k] = x
    BY DEF SameLines
  <2>1. k - 1 \in (i + 1)..j /\ k - 1 \in 1..(n - 1) /\ (k - 1) + 1 = k
    BY <1>1
  <2> QED
    BY <1>1, <2>1 DEF SameLines
<1>4. \A j \in 0..(n - 1) : SameLines(rest, 0, j, m) => SameLines(pipe, 0, j + 1, m)
  <2> SUFFICES ASSUME NEW j \in 0..(n - 1), SameLines(rest, 0, j, m), NEW k \in 1..(j + 1)
               PROVE  pipe[k] = m
    BY DEF SameLines
  <2>1. CASE k = 1
    BY <1>1, <2>1
  <2>2. CASE k \in 2..(j + 1)
    <3>1. k - 1 \in (0 + 1)..j /\ k - 1 \in 1..(n - 1) /\ (k - 1) + 1 = k
      BY <1>1, <2>2
    <3> QED
      BY <1>1, <3>1 DEF SameLines
  <2> QED
    BY <1>1, <2>1, <2>2
<1>5. \A j \in 0..(n - 1) : SameLines(rest, 0, j, now.last) /\ now.count + j >= RepeatAt
                              => now.last \in loops
  <2> SUFFICES ASSUME NEW j \in 0..(n - 1), SameLines(rest, 0, j, m), now.count + j >= RepeatAt
               PROVE  m \in loops
    BY <1>2
  <2>1. SameLines(pipe, 0, j + 1, m) /\ j + 1 \in 0..n /\ 0 \in 0..n
    BY <1>1, <1>4
  <2>2. CASE track.last = m
    <3>1. track.count + (j + 1) >= RepeatAt
      BY <1>1, <1>2, <2>2
    <3> QED
      BY <1>2, <2>1, <2>2, <3>1 DEF CountsAreReal, n
  <2>3. CASE track.last # m
    <3>1. 0 + RepeatAt <= j + 1
      BY <1>1, <1>2, <2>3
    <3> QED
      BY <1>2, <2>1, <3>1 DEF CountsAreReal, n
  <2> QED
    BY <2>2, <2>3
<1>6. now.count >= RepeatAt => now.last \in loops
  <2>1. 0 \in 0..(n - 1) /\ SameLines(rest, 0, 0, now.last)
    BY <1>1 DEF SameLines
  <2>2. now.count \in Nat
    BY <1>2
  <2> QED
    BY <1>5, <2>1, <2>2
<1>7. CountsAreReal(now, rest, loops)
  <2>1. ASSUME NEW i \in 0..(n - 1), NEW j \in 0..(n - 1), NEW x \in Messages,
               SameLines(rest, i, j, x), i + RepeatAt <= j
        PROVE  x \in loops
    <3>1. SameLines(pipe, i + 1, j + 1, x)
      BY <1>3, <2>1
    <3>2. i + 1 \in 0..n /\ j + 1 \in 0..n /\ (i + 1) + RepeatAt <= j + 1
      BY <1>1, <1>2, <2>1
    <3> QED
      BY <3>1, <3>2 DEF CountsAreReal, n
  <2> QED
    BY <1>1, <1>5, <2>1 DEF CountsAreReal
<1>8. ASSUME NEW written \in Track, EndIsReal(track, pipe, written)
      PROVE  EndIsReal(now, rest, written)
  <2>0. written.count \in Nat
    BY DEF Track
  <2>1. ASSUME NEW i \in 0..(n - 1), NEW x \in Messages, SameLines(rest, i, n - 1, x), i < n - 1
        PROVE  written.last = x /\ written.count >= (n - 1) - i
    <3>1. n - 1 \in 0..(n - 1) /\ (n - 1) + 1 = n /\ i + 1 \in 0..n /\ i + 1 < n
      BY <1>1, <2>1
    <3>2. SameLines(pipe, i + 1, n, x)
      BY <1>3, <2>1, <3>1
    <3>3. written.last = x /\ written.count >= n - (i + 1)
      BY <1>8, <3>1, <3>2 DEF EndIsReal, n
    <3> QED
      BY <1>1, <2>0, <3>3
  <2>2. ASSUME SameLines(rest, 0, n - 1, now.last)
        PROVE  written.last = now.last /\ written.count >= now.count + (n - 1)
    <3>1. n - 1 \in 0..(n - 1) /\ (n - 1) + 1 = n /\ 0 \in 0..n /\ 0 < n
      BY <1>1
    <3>2. SameLines(pipe, 0, n, m)
      BY <1>2, <1>4, <2>2, <3>1
    <3>3. written.last = m /\ written.count >= n - 0
      BY <1>2, <1>8, <3>1, <3>2 DEF EndIsReal, n
    <3>4. CASE track.last = m
      <4>1. written.count >= track.count + n
        BY <1>8, <3>2, <3>4 DEF EndIsReal, n
      <4> QED
        BY <1>1, <1>2, <2>0, <3>3, <3>4, <4>1
    <3>5. CASE track.last # m
      BY <1>1, <1>2, <2>0, <3>3, <3>5
    <3> QED
      BY <3>4, <3>5
  <2> QED
    BY <1>1, <2>1, <2>2 DEF EndIsReal
<1> QED
  BY <1>6, <1>7, <1>8 DEF rest

\* BlameInv is kept by every step.
LEMMA BlameStep == ASSUME Inv, BlameInv, [Next]_vars PROVE BlameInv'
<1> USE DEF Inv
<1>t. /\ reader \in Track /\ drainer.track \in Track
      /\ out \in Seq(Messages \cup Results) /\ err \in Seq(Messages)
      /\ streak["out"] \in Track /\ streak["err"] \in Track
  BY DEF TypeOK, BlameInv
<1>1. ASSUME NEW m \in Messages, SayOnStdout(m) PROVE BlameInv'
  <2> DEFINE now == Tracked(streak["out"], m)
  <2>1. /\ out' = Append(out, m) /\ result = "none"
        /\ streak' = [streak EXCEPT !["out"] = now]
        /\ looping' = IF now.count >= RepeatAt THEN looping \cup {m} ELSE looping
        /\ UNCHANGED <<err, reader, drainer, msg, run, watched, result>>
        /\ run.pc = "select"
    BY <1>1 DEF SayOnStdout, Written, Tracked
  <2>2. now \in Track
    BY <1>t, TrackedType
  <2>3. streak' \in [{"out", "err"} -> Track] /\ streak'["out"] = now /\ streak'["err"] = streak["err"]
    BY <2>1, <2>2 DEF BlameInv
  <2> HIDE DEF now
  <2>4. looping \subseteq looping'
    BY <2>1
  <2>5. watched => CountsAreReal(reader, out', looping') /\ EndIsReal(reader, out', now)
    <3> SUFFICES ASSUME watched
                 PROVE  CountsAreReal(reader, out', looping') /\ EndIsReal(reader, out', now)
      OBVIOUS
    <3>1. CountsAreReal(reader, out, looping) /\ EndIsReal(reader, out, streak["out"])
      BY <2>1 DEF BlameInv
    <3>2. Messages \subseteq Messages \cup Results
      OBVIOUS
    <3> QED
      BY <1>t, <2>1, <3>1, <3>2, WriteCounts DEF now
  <2>6. CountsAreReal(drainer.track, err, looping')
    BY <2>4 DEF BlameInv, CountsAreReal
  <2> QED
    BY <2>1, <2>3, <2>4, <2>5, <2>6 DEF BlameInv, Deserved
<1>2. ASSUME NEW m \in Messages, SayOnStderr(m) PROVE BlameInv'
  <2> DEFINE now == Tracked(streak["err"], m)
  <2>1. /\ err' = Append(err, m)
        /\ streak' = [streak EXCEPT !["err"] = now]
        /\ looping' = IF now.count >= RepeatAt THEN looping \cup {m} ELSE looping
        /\ UNCHANGED <<out, reader, drainer, msg, run, watched, result>>
    BY <1>2 DEF SayOnStderr, Written, Tracked
  <2>2. now \in Track
    BY <1>t, TrackedType
  <2>3. streak' \in [{"out", "err"} -> Track] /\ streak'["err"] = now /\ streak'["out"] = streak["out"]
    BY <2>1, <2>2 DEF BlameInv
  <2> HIDE DEF now
  <2>4. looping \subseteq looping'
    BY <2>1
  <2>5. CountsAreReal(drainer.track, err', looping') /\ EndIsReal(drainer.track, err', now)
    <3>1. CountsAreReal(drainer.track, err, looping) /\ EndIsReal(drainer.track, err, streak["err"])
      BY DEF BlameInv
    <3> QED
      BY <1>t, <2>1, <3>1, WriteCounts DEF now
  <2>6. watched /\ run.pc = "select" => CountsAreReal(reader, out, looping')
    BY <2>4 DEF BlameInv, CountsAreReal
  <2> QED
    BY <2>1, <2>3, <2>4, <2>5, <2>6 DEF BlameInv, Deserved
<1>3. ASSUME NEW r \in Results, WriteResult(r) PROVE BlameInv'
  <2>1. /\ out' = Append(out, r) /\ result' = r
        /\ UNCHANGED <<err, reader, drainer, msg, run, watched, streak, looping>>
    BY <1>3 DEF WriteResult
  <2>2. watched /\ run.pc = "select" => CountsAreReal(reader, out', looping)
    BY <1>t, <2>1, ResultCounts DEF BlameInv, Track
  <2> QED
    BY <2>1, <2>2 DEF BlameInv, Deserved, Results
<1>4. CASE DrainLine
  <2> DEFINE m == Head(err)
             now == Tracked(drainer.track, m)
  <2>1. /\ err # <<>> /\ err' = Tail(err) /\ drainer'.track = now /\ m \in Messages
        /\ msg' = IF now.count >= RepeatAt THEN now.last ELSE msg
        /\ UNCHANGED <<out, reader, run, watched, streak, looping, result>>
    BY <1>4, <1>t DEF DrainLine, TypeOK
  <2>2. CountsAreReal(drainer.track, err, looping) /\ EndIsReal(drainer.track, err, streak["err"])
    BY DEF BlameInv
  <2>3. /\ CountsAreReal(now, err', looping) /\ EndIsReal(now, err', streak["err"])
        /\ now.count >= RepeatAt => now.last \in looping
    BY <1>t, <2>1, <2>2, ReadCounts
  <2> HIDE DEF now
  <2> QED
    BY <2>1, <2>3 DEF BlameInv, Deserved
<1>5. CASE ReadLine
  <2> DEFINE m == Head(out)
             now == Tracked(reader, m)
  <2>1. /\ out # <<>> /\ out' = Tail(out) /\ m \in Messages
        /\ reader' = IF watched THEN now ELSE reader
        /\ msg' = IF watched /\ Stuck(m, now) THEN m ELSE msg
        /\ UNCHANGED <<err, drainer, watched, streak, looping, result>>
        /\ run.pc = "select"
    BY <1>5 DEF ReadLine
  <2>2. run'.repeated = run.repeated
    BY <1>5 DEF ReadLine, TypeOK
  <2>3. watched =>
          /\ CountsAreReal(now, out', looping)
          /\ result = "none" => EndIsReal(now, out', streak["out"])
          /\ now.count >= RepeatAt => now.last \in looping
    <3> SUFFICES ASSUME watched
                 PROVE  /\ CountsAreReal(now, out', looping)
                        /\ result = "none" => EndIsReal(now, out', streak["out"])
                        /\ now.count >= RepeatAt => now.last \in looping
      OBVIOUS
    <3>1. /\ CountsAreReal(reader, out, looping)
          /\ result = "none" => EndIsReal(reader, out, streak["out"])
      BY <2>1 DEF BlameInv
    <3> QED
      BY <1>t, <2>1, <3>1, ReadCounts
  <2>4. now.last = m
    BY DEF Tracked
  <2> HIDE DEF now, m
  <2>5. watched /\ Stuck(m, now) => m \in looping \cup Limits
    BY <2>3, <2>4 DEF Stuck
  <2> QED
    BY <2>1, <2>2, <2>3, <2>5 DEF BlameInv, Deserved
<1>6. ASSUME ReadResult \/ ReadEnd \/ TimeOut \/ Abort PROVE BlameInv'
  <2>1. /\ \E found \in Results \cup {"nothing", "timeout"} : Leave(found)
        /\ run.pc = "select"
        /\ UNCHANGED <<err, drainer, msg, watched, streak, looping>>
    BY <1>6 DEF ReadResult, ReadEnd, TimeOut, Abort
  <2>2. run'.pc = "await" /\ run'.repeated = msg
    BY <2>1, LeaveFacts
  <2> QED
    BY <2>1, <2>2 DEF BlameInv, Deserved
<1>7. CASE Return
  <2>1. /\ run'.pc = "returned" /\ run'.repeated = run.repeated
        /\ UNCHANGED <<err, drainer, msg, streak, looping>>
    BY <1>7 DEF Return, TypeOK
  <2> QED
    BY <2>1 DEF BlameInv, Deserved
<1>8. ASSUME Exit \/ DrainEnd \/ Expire \/ UNCHANGED vars PROVE BlameInv'
  <2>1. /\ UNCHANGED <<out, err, reader, msg, run, watched, streak, looping, result>>
        /\ drainer'.track = drainer.track
    BY <1>8 DEF Exit, DrainEnd, Expire, vars, TypeOK
  <2> QED
    BY <2>1 DEF BlameInv, Deserved
<1> QED
  BY <1>1, <1>2, <1>3, <1>4, <1>5, <1>6, <1>7, <1>8 DEF Next, Child, Drain, Main

\* At first nothing was counted and nothing written.
LEMMA BlameInit == Init => BlameInv
<1> SUFFICES ASSUME Init PROVE BlameInv
  OBVIOUS
<1>1. NoTrack \in Track /\ NoTrack.last = Silent /\ NoTrack.count = 0
  BY DEF NoTrack, Track
<1>2. \A i, j \in 0..Len(<<>>) : ~(i + RepeatAt <= j) /\ ~(i < Len(<<>>))
  BY RunnerAssumption
<1>3. CountsAreReal(NoTrack, <<>>, {}) /\ EndIsReal(NoTrack, <<>>, NoTrack)
  BY <1>1, <1>2 DEF CountsAreReal, EndIsReal
<1> QED
  BY <1>1, <1>3 DEF Init, BlameInv, Deserved

\* A run that blames a message blames one that was repeated or names a limit, for
\* any threshold, any messages and any mix of the two pipes.
THEOREM BlamesAreDeserved == Spec => []BlameIsDeserved
<1>1. Spec => [](Inv /\ BlameInv)
  <2>1. Init => Inv /\ BlameInv
    BY InitInv, BlameInit
  <2>2. (Inv /\ BlameInv) /\ [Next]_vars => (Inv /\ BlameInv)'
    BY NextInv, BlameStep
  <2> QED
    BY <2>1, <2>2, PTL DEF Spec
<1>2. Inv /\ BlameInv => BlameIsDeserved
  <2> SUFFICES ASSUME Inv, BlameInv, Returned, run.outcome \in {"credit", "loop"}
               PROVE  Blamed \in looping \cup Limits
    BY DEF BlameIsDeserved
  <2>1. run.outcome = Outcome(run.found) /\ run.found \in Results \cup {"nothing", "timeout"}
    BY DEF Inv, TypeOK, OutcomeIsFinal, Returned
  <2>2. run.outcome = Classify(Blamed)
    BY <2>1 DEF Outcome, Blamed, Results
  <2>3. Blamed # Silent
    BY <2>2, SilentOutcome
  <2> QED
    BY <2>3 DEF BlameInv, Deserved, Blamed
<1> QED
  BY <1>1, <1>2, PTL
=============================================================================
