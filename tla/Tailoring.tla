------------------------------ MODULE Tailoring ------------------------------
(***************************************************************************)
(* The tailoring of ADRs for all projects of a repository:                 *)
(* tailor_all_projects of tailoring/concurrent.rs, invoke_tailoring of     *)
(* tailoring/invoke.rs, and the loop of cli/commands/sync/pipeline.rs that *)
(* drives them and shows their progress.                                   *)
(*                                                                         *)
(* Everything runs in one task.  Every project gets every ADR; a project's *)
(* batches wait in the FIFO queue of one semaphore for a permit, and each  *)
(* that has one is a call of a runner, a child process or an HTTP request. *)
(* The first poll of the task starts all projects, so nothing else happens *)
(* before.  The first project to fail ends the run, and what the others    *)
(* were doing is dropped with them.                                        *)
(***************************************************************************)
EXTENDS TailoringOutputs, FiniteSets

CONSTANTS
  NumProjects,     \* projects of the repository
  Runs,            \* what a run starts from: records [adrs, limit]
  BatchSize,       \* batch_size, which the configuration makes positive
  Answers(_, _)    \* what a runner may answer a project for a sequence of ADRs

IsList(s) == s \in Seq(ToSet(s))

ASSUME TailoringAssumption ==
  /\ NumProjects \in Nat \ {0}
  /\ BatchSize \in Nat \ {0}
  /\ \A r \in Runs : r.limit \in Nat

\* A run's ADRs are a list, ordered by the ids of their categories.
ASSUME AdrsAssumption ==
  \A r \in Runs : IsList(r.adrs) /\ \A a \in ToSet(r.adrs) : a.category \in Nat

\* The server names each ADR once in what it matches (MatchMetadata's
\* deduplicated_count); the client does not look for duplicates.
ASSUME DistinctAssumption ==
  \A r \in Runs : \A i, j \in DOMAIN r.adrs : r.adrs[i].id = r.adrs[j].id => i = j

Projects == 1..NumProjects

\* Whatever a runner answers, it has been parsed: files are a list, and a
\* file has a list of sections.
ASSUME AnswersAssumption ==
  \A r \in Runs, p \in Projects : \A own \in ToSet(CreateBatches(r.adrs, BatchSize)) :
    \A raw \in Answers(p, own) :
      IsList(raw.files) /\ \A i \in DOMAIN raw.files : IsList(raw.files[i].sections)

VARIABLES
  adrs,       \* the ADRs of this run, a sequence of records [id, category]
  batches,    \* their batches, the same for every project
  limit,      \* the concurrency of this run, which only an edited configuration makes 0
  permits,    \* permits of the semaphore nobody holds
  queue,      \* batches <<p, b>> that wait for one
  project,    \* "new", "running", "done", "failed" or "dropped"
  batch,      \* per project and batch: "waiting", "first" or "second" call, "done"
  answer,     \* per project and batch, once done: its validated output
  finished,   \* per project: its done batches, as batch_outputs holds their outputs
  result,     \* what tailor_all_projects returned: "none", "ok" or "error"
  events,     \* progress events sent and not shown
  view,       \* what has been shown, per project
  completed,  \* the counter of the spinner
  outcome     \* what the run ended with: "none", "ok", "error" or "cancelled"

work == <<permits, queue, project, batch, answer, finished, result>>
screen == <<view, completed>>
given == <<adrs, batches, limit>>
vars == <<given, work, events, screen, outcome>>

BatchIds == 1..Len(batches)
Ids(b) == {a.id : a \in ToSet(batches[b])}

NoAnswer == [files |-> <<>>, skipped |-> <<>>]

Init ==
  /\ \E r \in Runs : adrs = r.adrs /\ limit = r.limit
  /\ batches = CreateBatches(adrs, BatchSize)
  /\ permits = limit
  /\ queue = <<>>
  /\ project = [p \in Projects |-> "new"]
  /\ batch = [p \in Projects |-> [b \in BatchIds |-> "waiting"]]
  /\ answer = [p \in Projects |-> [b \in BatchIds |-> NoAnswer]]
  /\ finished = [p \in Projects |-> <<>>]
  /\ result = "none"
  /\ events = <<>>
  /\ view = [p \in Projects |-> [status |-> "absent", begun |-> {}, ended |-> {}]]
  /\ completed = 0
  /\ outcome = "none"

-----------------------------------------------------------------------------
(* The projects.                                                           *)

Event(kind, p, b) == [kind |-> kind, project |-> p, batch |-> b]

ProjectOutput(p) == MergeOutputs([i \in DOMAIN finished[p] |-> answer[p][finished[p][i]]])

\* What the run returns: the projects' outputs merged in the projects' order.
Output == MergeOutputs([p \in Projects |-> ProjectOutput(p)])

\* The first poll starts the projects in order, and the batches of each take
\* what permits there are before the next one starts.
Start(p) ==
  /\ result = "none" /\ outcome = "none"
  /\ project[p] = "new" /\ \A q \in 1..(p - 1) : project[q] # "new"
  /\ permits = 0 \/ queue = <<>>
  /\ IF BatchIds = {}
     THEN /\ project' = [project EXCEPT ![p] = "done"]
          /\ result' = IF p = NumProjects THEN "ok" ELSE result
          /\ events' = events \o <<Event("started", p, 0), Event("completed", p, 0)>>
          /\ UNCHANGED queue
     ELSE /\ project' = [project EXCEPT ![p] = "running"]
          /\ queue' = queue \o [b \in BatchIds |-> <<p, b>>]
          /\ events' = Append(events, Event("started", p, 0))
          /\ UNCHANGED result
  /\ UNCHANGED <<given, permits, batch, answer, finished, screen, outcome>>

\* The permit goes to the batch that has waited longest, which calls a runner.
Grant ==
  LET p == Head(queue)[1]
      b == Head(queue)[2]
  IN  /\ result = "none" /\ outcome = "none"
      /\ permits > 0 /\ queue # <<>>
      /\ permits' = permits - 1
      /\ queue' = Tail(queue)
      /\ batch' = [batch EXCEPT ![p][b] = "first"]
      /\ events' = Append(events, Event("begun", p, b))
      /\ UNCHANGED <<given, project, answer, finished, result, screen, outcome>>

Polled == result = "none" /\ outcome = "none" /\ \A p \in Projects : project[p] # "new"

Calling(p, b) == project[p] = "running" /\ batch[p][b] \in {"first", "second"}

\* An answer that does not parse, or a structured output that failed, is asked
\* for once more, under the same permit.
Retry(p, b) ==
  /\ Polled /\ Calling(p, b)
  /\ batch[p][b] = "first"
  /\ batch' = [batch EXCEPT ![p][b] = "second"]
  /\ UNCHANGED <<given, permits, queue, project, answer, finished, result,
                 events, screen, outcome>>

\* The last batch completes its project, and the last project the run.
Ending(p, done) ==
  IF Len(done) = Len(batches)
  THEN /\ project' = [project EXCEPT ![p] = "done"]
       /\ result' = IF \A q \in Projects \ {p} : project[q] = "done" THEN "ok" ELSE result
  ELSE UNCHANGED <<project, result>>

BatchDone(p, b) ==
  /\ Polled /\ Calling(p, b)
  /\ \E raw \in Answers(p, batches[b]) :
       /\ ~Refused(raw)
       /\ answer' = [answer EXCEPT ![p][b] = Filtered(raw, Ids(b))]
  /\ batch' = [batch EXCEPT ![p][b] = "done"]
  /\ permits' = permits + 1
  /\ finished' = [finished EXCEPT ![p] = Append(@, b)]
  /\ Ending(p, finished'[p])
  /\ events' = Append(events, Event("ended", p, b)) \o
               (IF project'[p] = "done" THEN <<Event("completed", p, 0)>> ELSE <<>>)
  /\ UNCHANGED <<given, queue, screen, outcome>>

\* A project fails: it says so, the run returns its error and the rest is dropped.
Stop(p) ==
  /\ project' = [q \in Projects |-> IF q = p THEN "failed"
                                    ELSE IF project[q] = "running" THEN "dropped"
                                    ELSE project[q]]
  /\ result' = "error"
  /\ queue' = <<>>
  /\ permits' = limit
  /\ events' = Append(events, Event("failed", p, 0))
  /\ UNCHANGED <<given, batch, answer, finished, screen, outcome>>

\* A call fails, for good or a second time, or its answer is refused.
Fail(p, b) == Polled /\ Calling(p, b) /\ Stop(p)

\* Mutant of Timeout: the clock runs only while a runner is being called.
MutTimeoutCalls(p) ==
  /\ Polled /\ project[p] = "running"
  /\ \E b \in BatchIds : batch[p][b] \in {"first", "second"}
  /\ Stop(p)

\* The clock of a project runs from its start, also while its batches wait.
Timeout(p) == Polled /\ project[p] = "running" /\ Stop(p)

-----------------------------------------------------------------------------
(* The loop that drives the run.                                           *)

\* apply_tailoring_event.
Shown(v, e) ==
  CASE e.kind = "started"   -> [v EXCEPT !.status = "running"]
    [] e.kind = "begun"     -> [v EXCEPT !.begun = @ \cup {e.batch}]
    [] e.kind = "ended"     -> [v EXCEPT !.ended = @ \cup {e.batch}]
    [] e.kind = "completed" -> [v EXCEPT !.status = "done"]
    [] e.kind = "failed"    -> [v EXCEPT !.status = "failed"]

Apply ==
  /\ outcome = "none"
  /\ events # <<>>
  /\ LET e == Head(events)
     IN  /\ view' = [view EXCEPT ![e.project] = Shown(@, e)]
         /\ completed' = IF e.kind = "completed" THEN completed + 1 ELSE completed
  /\ events' = Tail(events)
  /\ UNCHANGED <<given, work, outcome>>

\* Mutant of Return: the events left in the channel are not shown.
MutNoDrain ==
  /\ outcome = "none"
  /\ result # "none"
  /\ outcome' = result
  /\ UNCHANGED <<given, work, events, screen>>

\* The run returns once the events left in the channel are shown.
Return ==
  /\ outcome = "none"
  /\ result # "none" /\ events = <<>>
  /\ outcome' = result
  /\ UNCHANGED <<given, work, events, screen>>

\* The user presses Ctrl-C, or q.
Cancel ==
  /\ outcome = "none" /\ result = "none"
  /\ outcome' = "cancelled"
  /\ UNCHANGED <<given, work, events, screen>>

Next ==
  \/ \E p \in Projects : Start(p) \/ Timeout(p)
  \/ Grant
  \/ \E p \in Projects, b \in BatchIds : Retry(p, b) \/ BatchDone(p, b) \/ Fail(p, b)
  \/ Apply \/ Return \/ Cancel

\* Nothing says when a runner answers, or that the user waits: only the task
\* itself and its clocks are fair.
Fairness ==
  /\ \A p \in Projects : WF_vars(Start(p)) /\ WF_vars(Timeout(p))
  /\ WF_vars(Grant) /\ WF_vars(Apply) /\ WF_vars(Return)

Spec == Init /\ [][Next]_vars /\ Fairness

-----------------------------------------------------------------------------
(* Properties.                                                             *)

\* Batches hold the ADRs category by category, each once and in its order; none
\* is empty or larger than the batch size, and a category that fits in one
\* batch is in one (tailoring/batch.rs, create_batches).
BatchesAreSound ==
  LET byCategory == FlattenSeq([i \in DOMAIN Categories(adrs) |->
                                  InCategory(adrs, Categories(adrs)[i])])
      Of(c) == {b \in BatchIds : \E a \in ToSet(batches[b]) : a.category = c}
  IN  /\ FlattenSeq(batches) = byCategory
      /\ \A b \in BatchIds : Len(batches[b]) \in 1..BatchSize
      /\ \A c \in ToSet(Categories(adrs)) :
           Len(InCategory(adrs, c)) <= BatchSize => Cardinality(Of(c)) = 1

\* What the answers say: for an ADR and a path, the last project in the
\* projects' order that has something to say about them.
Expected ==
  LET said == [p \in Projects |-> UNION {Content(answer[p][b]) : b \in BatchIds}]
  IN  UNION {{t \in said[p] : \A q \in (p + 1)..NumProjects :
                                 \A s \in said[q] : <<s[1], s[2]>> # <<t[1], t[2]>>} :
               p \in Projects}

\* A run that succeeds has every batch of every project, and its output says
\* what their answers say, each ADR once per file, in whatever order the calls
\* ended (tailoring/concurrent.rs, batch_outputs and merge_outputs).
OrderDoesNotMatter ==
  result = "ok" =>
    LET output == Output
        adrsOf(path) == {s.adr : s \in ToSet(output.files[path])}
    IN  /\ \A p \in Projects, b \in BatchIds : batch[p][b] = "done"
        /\ Content(output) = Expected
        /\ \A path \in DOMAIN output.files :
             Len(output.files[path]) = Cardinality(adrsOf(path))

\* The progress the user sees is one TailoringProgress allows: nothing ends
\* before it begins, an error names one failed project, and a success shows
\* every project done (cli/commands/sync/pipeline.rs, run_tailoring_with_cancel).
Progress == INSTANCE TailoringProgress WITH
  total    <- Len(batches),
  shown    <- [p \in Projects |-> view[p].status],
  begun    <- [p \in Projects |-> view[p].begun],
  ended    <- [p \in Projects |-> view[p].ended],
  counter  <- completed,
  shownEnd <- outcome

ImplementsProgress == Progress!Spec

\* Every run ends, whatever the runners do and even with no permit at all: the
\* projects' clocks see to it (tailoring/concurrent.rs, per_project_timeout).
RunEnds == <>(outcome # "none")

-----------------------------------------------------------------------------
(* The inductive invariant.                                                *)

Outcomes == {"none", "ok", "error"}

TypeOK ==
  /\ \E r \in Runs : adrs = r.adrs /\ limit = r.limit
  /\ batches = CreateBatches(adrs, BatchSize)
  /\ permits \in Nat
  /\ queue \in Seq(Projects \X BatchIds)
  /\ project \in [Projects -> {"new", "running", "done", "failed", "dropped"}]
  /\ batch \in [Projects -> [BatchIds -> {"waiting", "first", "second", "done"}]]
  /\ answer = [p \in Projects |-> [b \in BatchIds |-> answer[p][b]]]
  /\ finished \in [Projects -> Seq(BatchIds)]
  /\ result \in Outcomes
  /\ view \in [Projects -> [status : {"absent", "running", "done", "failed"},
                           begun : SUBSET BatchIds, ended : SUBSET BatchIds]]
  /\ completed \in Nat
  /\ outcome \in Outcomes \cup {"cancelled"}

\* A batch waits in the queue once, and only while its project runs.
QueueInv ==
  /\ \A i \in DOMAIN queue :
       project[queue[i][1]] = "running" /\ batch[queue[i][1]][queue[i][2]] = "waiting"
  /\ \A i, j \in DOMAIN queue : queue[i] = queue[j] => i = j

\* The outputs a project holds are those of the batches that are done, once each.
FinishedInv ==
  \A p \in Projects :
    /\ ToSet(finished[p]) = {b \in BatchIds : batch[p][b] = "done"}
    /\ \A i, j \in DOMAIN finished[p] : finished[p][i] = finished[p][j] => i = j
    /\ project[p] = "new" => \A b \in BatchIds : batch[p][b] = "waiting"
    /\ project[p] = "done" => \A b \in BatchIds : batch[p][b] = "done"

\* The run returns when its last project is done or the first one has failed.
ResultInv ==
  /\ result = "none" => \A p \in Projects : project[p] \in {"new", "running", "done"}
  /\ result = "ok" => \A p \in Projects : project[p] = "done"
  /\ result = "error" => \E p \in Projects : project[p] = "failed"
  /\ \A p, q \in Projects : project[p] = "failed" /\ project[q] = "failed" => p = q
  /\ BatchIds = {} => \A p \in Projects : project[p] # "running"

\* The events of projects that have the batches ids.
Messages(ids) ==
  {Event(kind, p, 0) : kind \in {"started", "completed", "failed"}, p \in Projects} \cup
  {Event(kind, p, b) : kind \in {"begun", "ended"}, p \in Projects, b \in ids}

Final(e) == e.kind \in {"completed", "failed"}

\* The events sent so far follow from the state of the projects.
Sent ==
  {e \in Messages(BatchIds) :
     \/ e.kind = "started" /\ project[e.project] # "new"
     \/ e.kind = "begun" /\ batch[e.project][e.batch] # "waiting"
     \/ e.kind = "ended" /\ batch[e.project][e.batch] = "done"
     \/ e.kind = "completed" /\ project[e.project] = "done"
     \/ e.kind = "failed" /\ project[e.project] = "failed"}

ShownIn(v, ids) ==
  {e \in Messages(ids) :
     \/ e.kind = "started" /\ v[e.project].status # "absent"
     \/ e.kind = "begun" /\ e.batch \in v[e.project].begun
     \/ e.kind = "ended" /\ e.batch \in v[e.project].ended
     \/ e.kind = "completed" /\ v[e.project].status = "done"
     \/ e.kind = "failed" /\ v[e.project].status = "failed"}

\* What must have been shown when an event is.
Before(e, ids) ==
  {f \in Messages(ids) : f.project = e.project /\
     \/ f.kind = "started" /\ e.kind # "started"
     \/ f.kind = "begun" /\ e.kind = "ended" /\ f.batch = e.batch
     \/ f.kind = "ended" /\ e.kind = "completed"}

\* An event that was sent is shown or in the channel, once, behind those that
\* must be shown before it and with nothing of its project behind the last.
InOrder(waiting, sent, v, ids) ==
  /\ waiting \in Seq(Messages(ids))
  /\ \A i, j \in DOMAIN waiting : waiting[i] = waiting[j] => i = j
  /\ sent = ShownIn(v, ids) \cup ToSet(waiting)
  /\ ShownIn(v, ids) \cap ToSet(waiting) = {}
  /\ \A i \in DOMAIN waiting : \A f \in Before(waiting[i], ids) :
       f \in ShownIn(v, ids) \/ \E j \in 1..(i - 1) : waiting[j] = f
  /\ \A i, j \in DOMAIN waiting :
       i < j /\ Final(waiting[i]) => waiting[i].project # waiting[j].project
  /\ \A i \in DOMAIN waiting :
       v[waiting[i].project].status \in {"absent", "running"}

ProgressInv == InOrder(events, Sent, view, BatchIds)

\* A project's answer: of each path, sections of its batch's ADRs, one of each.
IsOwn(output, ids) ==
  \A path \in DOMAIN output.files :
    LET sections == output.files[path]
    IN  /\ IsList(sections)
        /\ \A i \in DOMAIN sections : sections[i].adr \in ids
        /\ \A i, j \in DOMAIN sections : sections[i].adr = sections[j].adr => i = j

AnswerInv ==
  \A p \in Projects, b \in BatchIds : batch[p][b] = "done" => IsOwn(answer[p][b], Ids(b))

IInv ==
  TypeOK /\ QueueInv /\ FinishedInv /\ ResultInv /\ ProgressInv /\ AnswerInv
==============================================================================
