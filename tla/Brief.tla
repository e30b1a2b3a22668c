-------------------------------- MODULE Brief --------------------------------
(***************************************************************************)
(* The hooks of one coding session that keep its memory and its record:    *)
(* rules brief before a file is read or edited, session summary at the end *)
(* of a response, a gate that reports what it judged and notes the folders *)
(* a plan names, and rules brief at the start of an emptied context.       *)
(*                                                                         *)
(* The memory (cli/commands/brief_memory.rs) says per agent what its       *)
(* context was told; it is loaded and stored without a lock.  The record   *)
(* (cli/commands/brief_ledger.rs) is one for all agents; it is read        *)
(* without a lock and written under one, which a hook waits for only so    *)
(* long before it drops its change.  Every hook runs under a timeout of a  *)
(* few seconds and can be killed between any two steps.                    *)
(***************************************************************************)
EXTENDS BriefLedger, Sequences

CONSTANTS
  Procs,       \* hook processes
  Agents,      \* the main agent and its subagents
  Files,       \* files the agents read and edit
  FolderOf,    \* the folder of each file
  Governs,     \* the decisions that govern each file, best first
  Limit,       \* --limit: decisions one brief may state
  Long,        \* decisions that may not fit into a brief, or only trimmed
  Rounds,      \* what a gate may find: records [notes, used, breached]
  RuleSets,    \* the decisions a summary may find in the rule set
  Nobody, Others,   \* the lock is free, or with another session's hook
  Record,      \* the name of the record's file among the stale ones
  Earlier,     \* records earlier hooks of the session may have left
  MaxStarts    \* bound: hooks, compactions and weeks from there

ASSUME BriefAssumption ==
  /\ IsFiniteSet(Decisions) /\ IsFiniteSet(Folders)
  /\ FolderOf \in [Files -> Folders]
  /\ Governs \in [Files -> Seq(Decisions)]
  /\ Limit \in Nat /\ MaxStarts \in Nat
  /\ RuleSets \subseteq SUBSET Decisions
  /\ Rounds \subseteq [notes : SUBSET (Folders \X BOOLEAN),
                      used : SUBSET Decisions, breached : SUBSET Decisions]
  /\ {"added", "used", "breached"} \subseteq Streams
  /\ Earlier \subseteq Ledgers
  /\ Nothing \notin Counts
  /\ Nobody \notin Procs \cup Agents /\ Others \notin Procs /\ Nobody # Others
  /\ Record \notin Agents

VARIABLES
  memory,   \* per agent: the decisions its memory file holds
  ledger,   \* the session's record
  lock,     \* who holds the records' lock
  proc,     \* the hook processes
  stale,    \* files nobody has written for a week: agents' memories, the record
  \* history variables
  context,   \* per agent: decisions stated in full in its present context
  again,     \* per agent: decisions stated in full twice in it
  lost,      \* per agent: decisions remembered by a hook killed before it spoke,
             \* or by a memory whose reset was killed
  strayed,   \* per agent: its hooks overlapped, or its memory was not kept
  standing,  \* the record as the changes it accepted leave it
  emitted,   \* <<stream, decision>> sent to telemetry
  twice,     \* those sent twice
  told,      \* the line of the last summary that is on record
  repeated,  \* was a line on record told again?
  starts     \* bound: hooks, compactions and weeks so far

history == <<context, again, lost, strayed, standing, emitted, twice, told, repeated>>
vars == <<memory, ledger, lock, proc, stale, history, starts>>

Idle == [pc |-> "idle", agent |-> Nobody, agenda |-> <<>>, seen |-> {}, shown |-> {},
         rendered |-> FALSE, loaded |-> EmptyLedger, news |-> {}]

\* The session starts, or goes on where every agent was told what is recorded.
Init ==
  /\ ledger \in Earlier
  /\ memory = [a \in Agents |-> ledger.briefed]
  /\ lock = Nobody
  /\ proc = [p \in Procs |-> Idle]
  /\ stale = {}
  /\ context = memory /\ again = [a \in Agents |-> {}]
  /\ lost = [a \in Agents |-> {}] /\ strayed = [a \in Agents |-> FALSE]
  /\ standing = ledger
  /\ emitted = Pairs(ledger.reported) /\ twice = {}
  /\ told = Line(ledger.last) /\ repeated = FALSE
  /\ starts = 0

-----------------------------------------------------------------------------
(* Hooks start.                                                            *)

More == starts < MaxStarts /\ starts' = starts + 1

Start(p, hook) ==
  /\ proc[p].pc = "idle" /\ More
  /\ proc' = [proc EXCEPT ![p] = hook]
  /\ UNCHANGED <<memory, ledger, lock, stale>>

Briefing(a) == {p \in Procs : proc[p].pc # "idle" /\ proc[p].agent = a}

Top(file) ==
  LET ranked == Governs[file]
  IN  {ranked[i] : i \in {j \in DOMAIN ranked : j <= Limit}}

\* A brief states decisions the memory does not hold.  Of those for which
\* there is no room some are left out and some trimmed; telemetry reports all
\* that are in it, only those stated in full are remembered.
StartBrief(p, a, file) ==
  LET fresh == Top(file) \ memory[a]
      note  == NoteFolders({<<FolderOf[file], Governs[file] # <<>>>>})
  IN  /\ \E reached \in {fresh \ left : left \in SUBSET Long} :
           \E shown \in {reached \ trimmed : trimmed \in SUBSET Long} :
             Start(p, [Idle EXCEPT
               !.pc = "next", !.agent = a, !.seen = memory[a], !.shown = shown,
               !.rendered = (reached # {}), !.agenda = IF reached = {} THEN <<note>>
                          ELSE <<note, RecordBrief(shown), ReportAdded(reached)>>])
      /\ strayed' = [strayed EXCEPT ![a] = @ \/ Briefing(a) # {}]
      /\ UNCHANGED <<context, again, lost, standing, emitted, twice, told, repeated>>

\* plan-check notes the folders of the plan; every gate reports its round.
StartGate(p) ==
  /\ \E round \in Rounds :
       Start(p, [Idle EXCEPT !.pc = "next",
                   !.agenda = <<NoteFolders(round.notes),
                                ReportChecks(round.used, round.breached)>>])
  /\ UNCHANGED history

StartSummary(p) ==
  /\ \E ruleSet \in RuleSets :
       Start(p, [Idle EXCEPT !.pc = "next", !.agenda = <<ShowSummary(ruleSet)>>])
  /\ UNCHANGED history

-----------------------------------------------------------------------------
(* The record.                                                             *)

\* History: a change the record has accepted.
Accept(change) ==
  standing' =
    CASE change.op = "folders" ->
           [standing EXCEPT !.covered = @ \cup {n[1] : n \in {m \in change.notes : m[2]}},
                            !.uncovered = @ \cup {n[1] : n \in {m \in change.notes : ~m[2]}}]
      [] change.op = "brief" -> [standing EXCEPT !.briefed = @ \cup change.keys]
      [] change.op \in {"report", "checks"} ->
           [standing EXCEPT !.reported = [s \in Streams |-> @[s] \cup change.keys[s]]]
      [] OTHER -> standing

Pop(p) == [proc EXCEPT ![p].agenda = Tail(@), ![p].pc = "next", ![p].loaded = EmptyLedger]

Unread == {"brief", "report"}   \* changes made without a read before the lock

\* The read without the lock.
Check(p) ==
  /\ proc[p].pc = "next" /\ proc[p].agenda # <<>>
  /\ Head(proc[p].agenda).op \notin Unread
  /\ LET change == Head(proc[p].agenda)
     IN  IF Settled(ledger, change)
         THEN proc' = Pop(p) /\ Accept(change)
         ELSE proc' = [proc EXCEPT ![p].pc = "wait"] /\ UNCHANGED standing
  /\ UNCHANGED <<memory, ledger, lock, stale, context, again, lost, strayed, emitted, twice,
                 told, repeated, starts>>

Waiting(p) ==
  \/ proc[p].pc = "wait"
  \/ proc[p].pc = "next" /\ proc[p].agenda # <<>> /\ Head(proc[p].agenda).op \in Unread

\* Mutant of Acquire: the record is read before the lock is taken.
MutLoadFirst(p) ==
  /\ Waiting(p)
  /\ IF proc[p].loaded = EmptyLedger /\ ledger # EmptyLedger
     THEN proc' = [proc EXCEPT ![p].loaded = ledger] /\ UNCHANGED lock
     ELSE lock = Nobody /\ lock' = p /\ proc' = [proc EXCEPT ![p].pc = "hold"]
  /\ UNCHANGED <<memory, ledger, stale, history, starts>>

\* The record is read once more, under the lock.
Acquire(p) ==
  /\ Waiting(p) /\ lock = Nobody
  /\ lock' = p
  /\ proc' = [proc EXCEPT ![p].pc = "hold", ![p].loaded = ledger]
  /\ UNCHANGED <<memory, ledger, stale, history, starts>>

\* Mutant of GiveUp: a hook waits for as long as it takes.
MutWaitOn(p) == FALSE /\ UNCHANGED vars

\* The wait runs out: the change is dropped and the hook goes on without it.
GiveUp(p) ==
  /\ Waiting(p) /\ lock # Nobody
  /\ proc' = Pop(p)
  /\ UNCHANGED <<memory, ledger, lock, stale, history, starts>>

\* What a writer learns from a change: the keys it was the first to report.
News(change, written, before) ==
  IF written /\ change.op \in {"report", "checks"}
  THEN Pairs(New(before, change))
  ELSE {}

Informed(p, news) ==
  [Pop(p) EXCEPT ![p].news = news, ![p].pc = IF news = {} THEN "next" ELSE "send"]

\* The record is replaced as a whole, or the write fails.
Written(written, after) ==
  /\ ledger' = IF written THEN after ELSE ledger
  /\ stale' = IF written THEN stale \ {Record} ELSE stale

\* Mutant of Commit: the keys are reported although the write failed.
MutReportAnyway(p) ==
  LET change == Head(proc[p].agenda)
      before == proc[p].loaded
      after  == Changed(before, change)
  IN  /\ proc[p].pc = "hold"
      /\ lock' = Nobody
      /\ \E written \in {after # before, FALSE} :
           /\ Written(written, after)
           /\ IF written \/ after = before THEN Accept(change) ELSE UNCHANGED standing
           /\ proc' = Informed(p, News(change, TRUE, before))
      /\ UNCHANGED <<told, repeated, memory, context, again, lost, strayed, emitted, twice, starts>>

\* The record is replaced as a whole, unless nothing changed or the write
\* fails, and the lock is released.  A summary is shown either way.
Commit(p) ==
  LET change == Head(proc[p].agenda)
      before == proc[p].loaded
      after  == Changed(before, change)
      shows  == change.op = "summary" /\ after # before
  IN  /\ proc[p].pc = "hold"
      /\ lock' = Nobody
      /\ \E written \in {after # before, FALSE} :
           /\ Written(written, after)
           /\ IF written \/ after = before THEN Accept(change) ELSE UNCHANGED standing
           /\ proc' = Informed(p, News(change, written, before))
           /\ told' = IF ~shows THEN told ELSE IF written THEN Line(after.last) ELSE Nothing
           /\ repeated' = (repeated \/ (shows /\ Line(after.last) = told))
      /\ UNCHANGED <<memory, context, again, lost, strayed, emitted, twice, starts>>

\* The events go to the spool.
Send(p) ==
  /\ proc[p].pc = "send"
  /\ emitted' = emitted \cup proc[p].news
  /\ twice' = twice \cup (emitted \cap proc[p].news)
  /\ proc' = [proc EXCEPT ![p].pc = "next", ![p].news = {}]
  /\ UNCHANGED <<memory, ledger, lock, stale, context, again, lost, strayed, standing, told,
                 repeated, starts>>

-----------------------------------------------------------------------------
(* The memory.                                                             *)

\* A hook that has no brief to give ends here.
Finish(p) ==
  /\ proc[p].pc = "next" /\ proc[p].agenda = <<>>
  /\ proc' = [proc EXCEPT ![p] = IF proc[p].rendered THEN [proc[p] EXCEPT !.pc = "store"] ELSE Idle]
  /\ UNCHANGED <<memory, ledger, lock, stale, history, starts>>

Storing(a) == {p \in Briefing(a) : proc[p].pc = "store"}

\* Mutant of Remembers: only what this brief states is remembered.
MutForget(p) == proc[p].shown

Remembers(p) == proc[p].seen \cup proc[p].shown

\* The memory is replaced, or the store fails; two stores at once share a
\* staging file and can leave a damaged memory, which reads as empty.  A store
\* that fails leaves the file as old as it was.
StoreMemory(p) ==
  LET a == proc[p].agent
  IN  /\ proc[p].pc = "store"
      /\ \E stored \in {Remembers(p), memory[a]} \cup (IF Storing(a) = {p} THEN {} ELSE {{}}) :
           /\ memory' = [memory EXCEPT ![a] = stored]
           /\ strayed' = [strayed EXCEPT ![a] = @ \/ stored # Remembers(p)]
      /\ stale' = IF memory'[a] \in {memory[a]} \ {Remembers(p)} THEN stale ELSE stale \ {a}
      /\ proc' = [proc EXCEPT ![p].pc = "print"]
      /\ UNCHANGED <<ledger, lock, context, again, lost, standing, emitted, twice, told,
                     repeated, starts>>

\* The brief reaches the agent's context.
PrintBrief(p) ==
  LET a == proc[p].agent
  IN  /\ proc[p].pc = "print"
      /\ again' = [again EXCEPT ![a] = @ \cup (context[a] \cap proc[p].shown)]
      /\ context' = [context EXCEPT ![a] = @ \cup proc[p].shown]
      /\ proc' = [proc EXCEPT ![p] = Idle]
      /\ UNCHANGED <<memory, ledger, lock, stale, lost, strayed, standing, emitted, twice, told,
                     repeated, starts>>

-----------------------------------------------------------------------------
(* The session around the hooks.                                           *)

\* A hook's timeout, or the end of the session.
Kill(p) ==
  LET a == proc[p].agent
  IN  /\ proc[p].pc # "idle"
      /\ lock' = IF lock = p THEN Nobody ELSE lock
      /\ lost' = IF proc[p].pc = "print" THEN [lost EXCEPT ![a] = @ \cup proc[p].shown] ELSE lost
      /\ proc' = [proc EXCEPT ![p] = Idle]
      /\ UNCHANGED <<memory, ledger, stale, context, again, strayed, standing, emitted, twice, told,
                     repeated, starts>>

\* Mutant of Reset: the rules directory is spelled differently, and the reset
\* misses the file.
MutMiss(a) == UNCHANGED memory

Reset(a) == memory' = [memory EXCEPT ![a] = {}]

\* A context is compacted or cleared between two of its agent's tool calls, and
\* the SessionStart hook forgets its memory, unless it is killed before.
EmptyContext(a) ==
  /\ Briefing(a) = {} /\ More
  /\ context' = [context EXCEPT ![a] = {}]
  /\ again' = [again EXCEPT ![a] = {}]
  /\ strayed' = [strayed EXCEPT ![a] = FALSE]
  /\ \/ Reset(a) /\ lost' = [lost EXCEPT ![a] = {}]
     \/ UNCHANGED memory /\ lost' = [lost EXCEPT ![a] = @ \cup memory[a]]
  /\ UNCHANGED <<ledger, lock, proc, stale, standing, emitted, twice, told, repeated>>

\* A week without a hook of this session.
Week ==
  /\ More /\ \A p \in Procs : proc[p].pc = "idle"
  /\ stale # Agents \cup {Record} /\ stale' = Agents \cup {Record}
  /\ UNCHANGED <<memory, ledger, lock, proc, history>>

\* Then a write of another session's hook, which holds the lock, removes the
\* record, perhaps while a hook of this session waits to change what it read.
PruneLedger ==
  /\ Record \in stale /\ lock \notin Procs /\ ledger # EmptyLedger
  /\ ledger' = EmptyLedger /\ standing' = EmptyLedger
  /\ stale' = stale \ {Record}
  /\ emitted' = {} /\ told' = Nothing
  /\ UNCHANGED <<memory, lock, proc, context, again, lost, strayed, twice, repeated, starts>>

\* The memories have no lock: one may be removed while a brief it was read for is
\* on its way.
PruneMemory(a) ==
  /\ a \in stale /\ memory[a] # {}
  /\ memory' = [memory EXCEPT ![a] = {}]
  /\ stale' = stale \ {a}
  /\ lost' = IF Briefing(a) = {} THEN [lost EXCEPT ![a] = {}] ELSE lost
  /\ strayed' = [strayed EXCEPT ![a] = TRUE]
  /\ UNCHANGED <<ledger, lock, proc, context, again, standing, emitted, twice, told, repeated,
                 starts>>

\* Another session's hook takes the lock, for as long as it likes; that
\* matters only while a hook of this session wants it.
OthersLock ==
  /\ \/ lock = Nobody /\ lock' = Others /\ \E p \in Procs : Waiting(p)
     \/ lock = Others /\ lock' = Nobody
  /\ UNCHANGED <<memory, ledger, proc, stale, history, starts>>

Step(p) ==
  \/ Check(p) \/ Acquire(p) \/ GiveUp(p) \/ Commit(p) \/ Send(p)
  \/ Finish(p) \/ StoreMemory(p) \/ PrintBrief(p)

Next ==
  \/ \E p \in Procs :
       \/ Step(p) \/ Kill(p)
       \/ StartGate(p) \/ StartSummary(p)
       \/ \E a \in Agents, file \in Files : StartBrief(p, a, file)
  \/ \E a \in Agents : EmptyContext(a) \/ PruneMemory(a)
  \/ Week \/ PruneLedger \/ OthersLock

\* A hook that runs goes on; nobody has to start one or to release a lock.
Spec == Init /\ [][Next]_vars /\ \A p \in Procs : WF_vars(Step(p))

-----------------------------------------------------------------------------
(* Properties.                                                             *)

\* "Concurrent writers lose neither the file nor each other's decisions": what
\* the record accepted stays in it until it is pruned, and a folder that was
\* noted as covered is never a gap (cli/commands/brief_ledger.rs).
LedgerKeeps ==
  /\ standing.briefed \subseteq ledger.briefed
  /\ standing.covered \subseteq ledger.covered
  /\ standing.uncovered \subseteq ledger.uncovered \cup ledger.covered
  /\ \A s \in Streams : standing.reported[s] \subseteq ledger.reported[s]
  /\ Gaps(ledger) \cap standing.covered = {}

\* "A caller reporting each returned key can undercount but never report one
\* twice" (cli/commands/brief_ledger.rs, report_adrs and report_checks).
ReportedOnce == twice = {}

\* "Two runs at once report a change once": a line that is on record is not
\* told again (cli/commands/session_summary.rs, hook_line).
SummaryTellsNews == ~repeated

\* A decision is withheld from an agent only if its present context has it, or
\* is about to, or a hook was killed that should have told it or forgotten it
\* (cli/commands/brief_memory.rs, "fail open means over-brief").
WithheldWasStated ==
  \A a \in Agents :
    memory[a] \subseteq context[a] \cup lost[a] \cup
                        UNION {proc[p].shown : p \in {q \in Briefing(a) : proc[q].pc = "print"}}

\* "A decision is stated once per session": an agent whose hooks never overlap
\* and whose memory is kept is told nothing twice (cli/commands/brief_memory.rs).
StatedOnce == \A a \in Agents : again[a] # {} => strayed[a]

\* Every hook ends, whoever holds the lock (cli/commands/brief_ledger.rs,
\* LOCK_WAIT).
HooksEnd == \A p \in Procs : []<>(proc[p].pc = "idle")
==============================================================================
