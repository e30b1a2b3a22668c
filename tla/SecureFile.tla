----------------------------- MODULE SecureFile -----------------------------
(***************************************************************************)
(* write_secure and remove_secure of config/paths.rs, one system call at a *)
(* time.  A write stages its bytes at `<path>.tmp`, syncs them and renames *)
(* them into place; every write of one path uses the same staging name.    *)
(*                                                                         *)
(* The callers that hold an advisory lock around the call (the stored      *)
(* sign-in, the telemetry spools, the brief ledger) are the case Locked.   *)
(* The others (the config, the governance session, the caches, the token   *)
(* store) are the case ~Locked.                                            *)
(***************************************************************************)
EXTENDS Naturals, Sequences

CONSTANTS
  Procs,      \* processes that write or remove the file
  Bytes,      \* blocks of content
  Payloads,   \* what the processes write: sequences of blocks
  Hole,       \* the block a file has where nobody wrote
  Absent,     \* what a reader finds when there is no file
  Locked,     \* is every write and removal made under one exclusive lock?
  MaxStarts   \* bound: writes and removals in a behaviour

ASSUME SecureFileAssumption ==
  /\ Payloads \subseteq Seq(Bytes)
  /\ Absent \notin Payloads
  /\ Locked \in BOOLEAN
  /\ MaxStarts \in Nat

Block == Bytes \cup {Hole}

NoEntry == 0

VARIABLES
  disk,     \* disk[i]: the bytes of inode i
  stable,   \* the inodes whose bytes survive a power loss
  path,     \* the inode `<path>` names, NoEntry when there is no such file
  tmp,      \* the inode `<path>.tmp` names
  proc,     \* the processes
  removed,  \* history: a removal returned, and no write has begun since
  started   \* bound: writes and removals so far

vars == <<disk, stable, path, tmp, proc, removed, started>>

Idle == [pc |-> "idle", fd |-> NoEntry, pos |-> 0, data |-> <<>>]

Init ==
  /\ disk = <<>>
  /\ stable = {}
  /\ path = NoEntry
  /\ tmp = NoEntry
  /\ proc = [p \in Procs |-> Idle]
  /\ removed = FALSE
  /\ started = 0

\* The lock is held from the first system call to the last one, and dies with
\* its process.
MayStart(p) ==
  /\ started < MaxStarts
  /\ proc[p].pc = "idle"
  /\ Locked => \A q \in Procs : proc[q].pc = "idle"

\* Mutant of Open: the staging file is opened without O_TRUNC.
MutKeepStaged(p, data) ==
  /\ MayStart(p)
  /\ IF tmp = NoEntry
       THEN /\ disk' = Append(disk, <<>>)
            /\ tmp' = Len(disk) + 1
       ELSE UNCHANGED <<disk, tmp>>
  /\ stable' = stable \ {tmp'}
  /\ proc' = [proc EXCEPT ![p] = [pc |-> "write", fd |-> tmp', pos |-> 0, data |-> data]]
  /\ removed' = FALSE
  /\ started' = started + 1
  /\ UNCHANGED path

\* Mutant of Open: a complete staging file that a dead writer left is first moved
\* into place, as a recovery would.
MutAdoptStaged(p, data) ==
  /\ MayStart(p)
  /\ path' = IF tmp \in stable THEN tmp ELSE path
  /\ disk' = Append(disk, <<>>)
  /\ tmp' = Len(disk) + 1
  /\ proc' = [proc EXCEPT ![p] = [pc |-> "write", fd |-> tmp', pos |-> 0, data |-> data]]
  /\ removed' = FALSE
  /\ started' = started + 1
  /\ UNCHANGED stable

\* open(<path>.tmp, O_CREAT | O_TRUNC): a leftover staging file is reused.
Open(p, data) ==
  /\ MayStart(p)
  /\ IF tmp = NoEntry
       THEN /\ disk' = Append(disk, <<>>)
            /\ tmp' = Len(disk) + 1
       ELSE /\ disk' = [disk EXCEPT ![tmp] = <<>>]
            /\ tmp' = tmp
  /\ stable' = stable \ {tmp'}
  /\ proc' = [proc EXCEPT ![p] = [pc |-> "write", fd |-> tmp', pos |-> 0, data |-> data]]
  /\ removed' = FALSE
  /\ started' = started + 1
  /\ UNCHANGED path

\* A file's bytes after block b is written at position i: a write past the end
\* of a file that was truncated meanwhile leaves a hole.
WriteAt(bytes, i, b) ==
  [j \in 1..(IF Len(bytes) < i THEN i ELSE Len(bytes)) |->
     IF j = i THEN b ELSE IF j <= Len(bytes) THEN bytes[j] ELSE Hole]

\* One block of write_all.
WriteBlock(p) ==
  LET w == proc[p]
  IN  /\ w.pc = "write"
      /\ w.pos < Len(w.data)
      /\ disk' = [disk EXCEPT ![w.fd] = WriteAt(disk[w.fd], w.pos + 1, w.data[w.pos + 1])]
      /\ stable' = stable \ {w.fd}
      /\ proc' = [proc EXCEPT ![p].pos = w.pos + 1]
      /\ UNCHANGED <<path, tmp, removed, started>>

\* Mutant of Sync: the staged bytes are renamed without an fsync.
MutSkipSync(p) ==
  LET w == proc[p]
  IN  /\ w.pc = "write"
      /\ w.pos = Len(w.data)
      /\ proc' = [proc EXCEPT ![p].pc = "rename"]
      /\ UNCHANGED <<disk, stable, path, tmp, removed, started>>

\* sync_all, once everything is written.
Sync(p) ==
  LET w == proc[p]
  IN  /\ w.pc = "write"
      /\ w.pos = Len(w.data)
      /\ stable' = stable \cup {w.fd}
      /\ proc' = [proc EXCEPT ![p].pc = "rename"]
      /\ UNCHANGED <<disk, path, tmp, removed, started>>

\* rename(<path>.tmp, <path>): it moves whatever the staging name stands for by
\* now, and fails when another process has renamed or removed that already.
Rename(p) ==
  /\ proc[p].pc = "rename"
  /\ path' = IF tmp = NoEntry THEN path ELSE tmp
  /\ tmp' = NoEntry
  /\ proc' = [proc EXCEPT ![p] = Idle]
  /\ UNCHANGED <<disk, stable, removed, started>>

\* remove_secure: the file first, then what a dead writer left at the staging
\* name.
RemoveFile(p) ==
  /\ MayStart(p)
  /\ path' = NoEntry
  /\ proc' = [proc EXCEPT ![p] = [Idle EXCEPT !.pc = "remove"]]
  /\ started' = started + 1
  /\ UNCHANGED <<disk, stable, tmp, removed>>

\* Mutant of RemoveStaged: the staging file is left behind.
MutLeaveStaged(p) ==
  /\ proc[p].pc = "remove"
  /\ removed' = TRUE
  /\ proc' = [proc EXCEPT ![p] = Idle]
  /\ UNCHANGED <<disk, stable, path, tmp, started>>

RemoveStaged(p) ==
  /\ proc[p].pc = "remove"
  /\ tmp' = NoEntry
  /\ removed' = TRUE
  /\ proc' = [proc EXCEPT ![p] = Idle]
  /\ UNCHANGED <<disk, stable, path, started>>

\* The process is killed, or one of its system calls fails and it gives up.
Stop(p) ==
  /\ proc[p].pc # "idle"
  /\ proc' = [proc EXCEPT ![p] = Idle]
  /\ UNCHANGED <<disk, stable, path, tmp, removed, started>>

\* The first n blocks of a file that may be shorter.
Prefix(bytes, n) == SubSeq(bytes, 1, IF Len(bytes) < n THEN Len(bytes) ELSE n)

\* Every process dies; files that were not synced keep their first block, or
\* nothing.
PowerLoss ==
  /\ proc' = [p \in Procs |-> Idle]
  /\ \E n \in {0, 1} :
       disk' = [i \in DOMAIN disk |-> IF i \in stable THEN disk[i] ELSE Prefix(disk[i], n)]
  /\ UNCHANGED <<stable, path, tmp, removed, started>>

Step(p) ==
  \/ \E data \in Payloads : Open(p, data)
  \/ WriteBlock(p)
  \/ Sync(p)
  \/ Rename(p)
  \/ RemoveFile(p)
  \/ RemoveStaged(p)
  \/ Stop(p)

Next == PowerLoss \/ \E p \in Procs : Step(p)

Spec == Init /\ [][Next]_vars

-----------------------------------------------------------------------------
(* Properties.                                                             *)

Process == [pc   : {"idle", "write", "rename", "remove"},
            fd   : 0..Len(disk),
            pos  : Nat,
            data : Payloads \cup {<<>>}]

\* Type invariant.
TypeOK ==
  /\ disk \in Seq(Seq(Block))
  /\ stable \subseteq DOMAIN disk
  /\ path \in 0..Len(disk)
  /\ tmp \in 0..Len(disk)
  /\ proc \in [Procs -> Process]
  /\ removed \in BOOLEAN
  /\ started \in 0..MaxStarts

Content == IF path = NoEntry THEN Absent ELSE disk[path]

\* "`path` is either the previous complete content or the new complete content,
\* never a partial write": whatever process died where, and across power losses,
\* a reader finds one of the contents somebody wrote, whole, or no file.
NeverPartial == Content \in Payloads \cup {Absent}

\* A removal that returned left no copy of the content under either name, the
\* staging file of a writer that died before it included.
RemovedForGood == removed => path = NoEntry /\ tmp = NoEntry

\* A write that reports success has put its own bytes in place.
OkMeansMine ==
  [][\A p \in Procs : Rename(p) => path' = tmp /\ disk'[path'] = proc[p].data]_vars

\* What p is writing.
Asked(p) == IF proc[p].pc \in {"write", "rename"} THEN proc[p].data ELSE Absent

File == INSTANCE AtomicFile WITH content <- Content, asked <- [p \in Procs |-> Asked(p)]

\* Every write takes effect once, in one step of its own, or never: a writer that
\* was killed or failed leaves a staging file behind, and no later call of anybody
\* puts that content in place.
ImplementsAtomicFile == File!Spec

-----------------------------------------------------------------------------
(* The inductive invariant of the locked case.                             *)

Inv ==
  /\ TypeOK
  /\ \A p, q \in Procs : p # q => proc[p].pc = "idle" \/ proc[q].pc = "idle"
  /\ path # NoEntry => path \in stable /\ disk[path] \in Payloads /\ path # tmp
  /\ \A p \in Procs :
       /\ proc[p].pc \in {"write", "rename"} =>
            /\ tmp # NoEntry /\ proc[p].fd = tmp
            /\ proc[p].data \in Payloads
            /\ proc[p].pos <= Len(proc[p].data)
            /\ disk[tmp] = SubSeq(proc[p].data, 1, proc[p].pos)
            /\ ~removed
       /\ proc[p].pc = "rename" => proc[p].pos = Len(proc[p].data) /\ tmp \in stable
       /\ proc[p].pc = "remove" => path = NoEntry
  /\ removed => path = NoEntry /\ tmp = NoEntry
=============================================================================
