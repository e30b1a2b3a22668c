----------------------------- MODULE FileProofs -----------------------------
(***************************************************************************)
(* Proofs about the files that processes share.                            *)
(*                                                                         *)
(* SecureFile: write_secure and remove_secure for callers that hold a      *)
(* lock, for any number of processes and any contents: what a reader finds *)
(* is always whole, across kills and power losses, and a write takes       *)
(* effect once, in one step, or never.                                     *)
(*                                                                         *)
(* Spool: the lock keeps what an append accepted until it is delivered,    *)
(* refused or aged out, and a flush that meets no outage clears the rest.  *)
(***************************************************************************)
EXTENDS SecureFile, Spool, SequenceTheorems, FiniteSetTheorems, TLAPS

-----------------------------------------------------------------------------
(* Lemmas about the blocks of a file.                                      *)

\* Writing where the file ends appends one block.
LEMMA WriteAtEnd ==
  ASSUME NEW bytes \in Seq(Block), NEW b \in Block
  PROVE  WriteAt(bytes, Len(bytes) + 1, b) = Append(bytes, b)
<1>1. Len(bytes) \in Nat /\ bytes \in [1..Len(bytes) -> Block]
  BY LenProperties
<1>2. (IF Len(bytes) < Len(bytes) + 1 THEN Len(bytes) + 1 ELSE Len(bytes)) = Len(bytes) + 1
  BY <1>1
<1>3. WriteAt(bytes, Len(bytes) + 1, b)
        = [j \in 1..(Len(bytes) + 1) |->
             IF j = Len(bytes) + 1 THEN b ELSE IF j <= Len(bytes) THEN bytes[j] ELSE Hole]
  BY <1>2 DEF WriteAt
<1>4. WriteAt(bytes, Len(bytes) + 1, b) \in [1..(Len(bytes) + 1) -> Block]
  BY <1>1, <1>3
<1>5. /\ WriteAt(bytes, Len(bytes) + 1, b) \in Seq(Block)
      /\ Len(WriteAt(bytes, Len(bytes) + 1, b)) = Len(bytes) + 1
  BY <1>1, <1>4, SeqDef, LenProperties
<1>6. /\ Append(bytes, b) \in Seq(Block)
      /\ Len(Append(bytes, b)) = Len(bytes) + 1
      /\ \A i \in 1..Len(bytes) : Append(bytes, b)[i] = bytes[i]
      /\ Append(bytes, b)[Len(bytes) + 1] = b
  BY AppendProperties
<1>7. \A i \in 1..(Len(bytes) + 1) :
        WriteAt(bytes, Len(bytes) + 1, b)[i] = Append(bytes, b)[i]
  BY <1>1, <1>3, <1>6
<1> QED
  BY <1>5, <1>6, <1>7, SeqEqual

\* A prefix of a payload and the next block make the next prefix.
LEMMA NextPrefix ==
  ASSUME NEW data \in Seq(Bytes), NEW n \in 0..(Len(data) - 1)
  PROVE  Append(SubSeq(data, 1, n), data[n + 1]) = SubSeq(data, 1, n + 1)
<1>1. n + 1 \in 1..Len(data) /\ 1 \in 1..Len(data)
  BY LenProperties
<1>2. SubSeq(data, 1, n + 1) = SubSeq(data, 1, n) \o <<data[n + 1]>>
  BY <1>1, SubSeqRecursiveSecond, LenProperties
<1>3. /\ \A i \in 1..n : data[i] \in Bytes
      /\ data[n + 1] \in Bytes
  BY <1>1, ElementOfSeq, LenProperties
<1>4. SubSeq(data, 1, n) \in Seq(Bytes)
  BY <1>3, SubSeqProperties
<1> QED
  BY <1>2, <1>3, <1>4, AppendIsConcat

\* A file cut short is a file.
LEMMA PrefixType ==
  ASSUME NEW bytes \in Seq(Block), NEW n \in Nat
  PROVE  Prefix(bytes, n) \in Seq(Block)
<1>1. Len(bytes) \in Nat
  BY LenProperties
<1>2. PICK m \in 0..Len(bytes) : Prefix(bytes, n) = SubSeq(bytes, 1, m)
  BY <1>1 DEF Prefix
<1>3. \A i \in 1..m : bytes[i] \in Block
  BY <1>1, <1>2, ElementOfSeq
<1> QED
  BY <1>2, <1>3, SubSeqProperties

\* Contents that may be written are files.
LEMMA PayloadType == ASSUME NEW data \in Payloads PROVE data \in Seq(Bytes) /\ data \in Seq(Block)
<1>1. data \in Seq(Bytes)
  BY SecureFileAssumption
<1> QED
  BY <1>1, SeqMonotonic DEF Block

\* A function on 1..n is a sequence of length n.
LEMMA FunctionIsSeq ==
  ASSUME NEW S, NEW n \in Nat, NEW f \in [1..n -> S]
  PROVE  f \in Seq(S) /\ Len(f) = n /\ DOMAIN f = 1..n
<1>1. f \in Seq(S)
  BY SeqDef
<1>2. DOMAIN f = 1..n /\ DOMAIN f = 1..Len(f) /\ Len(f) \in Nat
  BY <1>1, LenProperties
<1> QED
  BY <1>1, <1>2

\* The disk after one of its files is replaced by the file f.
LEMMA DiskExcept ==
  ASSUME NEW d \in Seq(Seq(Block)), NEW i \in 1..Len(d), NEW f \in Seq(Block)
  PROVE  /\ [d EXCEPT ![i] = f] \in Seq(Seq(Block))
         /\ Len([d EXCEPT ![i] = f]) = Len(d)
         /\ [d EXCEPT ![i] = f][i] = f
         /\ \A j \in 1..Len(d) : j # i => [d EXCEPT ![i] = f][j] = d[j]
  BY ExceptSeq

\* The disk after one more file is created.
LEMMA DiskAppend ==
  ASSUME NEW d \in Seq(Seq(Block))
  PROVE  /\ Append(d, <<>>) \in Seq(Seq(Block))
         /\ Len(Append(d, <<>>)) = Len(d) + 1
         /\ Append(d, <<>>)[Len(d) + 1] = <<>>
         /\ \A j \in 1..Len(d) : Append(d, <<>>)[j] = d[j]
<1>1. <<>> \in Seq(Block)
  BY EmptySeq
<1> QED
  BY <1>1, AppendProperties

-----------------------------------------------------------------------------
(* The inductive invariant, for callers that hold the lock.                *)

LEMMA InitInv == Init => Inv
<1> SUFFICES ASSUME Init PROVE Inv
  OBVIOUS
<1>1. disk \in Seq(Seq(Block)) /\ Len(disk) = 0 /\ DOMAIN disk = 1..0
  BY EmptySeq, LenProperties DEF Init
<1>2. Idle \in Process
  BY <1>1 DEF Idle, Process, NoEntry
<1>3. TypeOK
  <2>1. path \in 0..Len(disk) /\ tmp \in 0..Len(disk)
    BY <1>1 DEF Init, NoEntry
  <2>2. stable \subseteq DOMAIN disk
    BY DEF Init
  <2>3. proc \in [Procs -> Process]
    BY <1>2 DEF Init
  <2>4. MaxStarts \in Nat
    BY SecureFileAssumption
  <2>5. removed \in BOOLEAN
    BY DEF Init
  <2>6. started = 0
    BY DEF Init
  <2>7. started \in 0..MaxStarts
    BY <2>4, <2>6
  <2> QED
    BY <1>1, <2>1, <2>2, <2>3, <2>5, <2>7 DEF TypeOK
<1> QED
  BY <1>3 DEF Init, Inv, Idle

\* Whoever takes a step holds the lock, and leaves the others idle.
LEMMA OthersIdle ==
  ASSUME Inv, NEW p \in Procs, proc[p].pc # "idle", NEW q \in Procs, q # p
  PROVE  proc[q].pc = "idle"
  BY DEF Inv

\* An idle process satisfies its part of the invariant.
LEMMA IdleType ==
  ASSUME disk \in Seq(Seq(Block))
  PROVE  Idle \in Process /\ Idle.pc = "idle"
<1>1. Len(disk) \in Nat
  BY LenProperties
<1> QED
  BY <1>1 DEF Idle, Process, NoEntry

\* The process records outlive a growing disk.
LEMMA ProcessGrows ==
  ASSUME Inv, Len(disk') \in Nat, Len(disk) <= Len(disk')
  PROVE  \A p \in Procs : proc[p] \in Process'
<1>1. Len(disk) \in Nat /\ \A p \in Procs : proc[p] \in Process
  BY LenProperties DEF Inv, TypeOK
<1>2. 0..Len(disk) \subseteq 0..Len(disk')
  BY <1>1
<1> QED
  BY <1>1, <1>2 DEF Process

LEMMA OpenInv ==
  ASSUME Locked, Inv, NEW p \in Procs, NEW data \in Payloads, Open(p, data)
  PROVE  Inv'
<1> DEFINE w == [pc |-> "write", fd |-> tmp', pos |-> 0, data |-> data]
<1>1. /\ disk \in Seq(Seq(Block)) /\ Len(disk) \in Nat /\ DOMAIN disk = 1..Len(disk)
      /\ stable \subseteq 1..Len(disk) /\ path \in 0..Len(disk) /\ tmp \in 0..Len(disk)
      /\ started \in 0..MaxStarts /\ started < MaxStarts
  BY LenProperties DEF Inv, TypeOK, Open, MayStart
<1>2. /\ disk' \in Seq(Seq(Block))
      /\ Len(disk) <= Len(disk') /\ Len(disk') \in Nat
      /\ tmp' \in 1..Len(disk') /\ disk'[tmp'] = <<>>
      /\ \A j \in 1..Len(disk) : j # tmp' => disk'[j] = disk[j]
      /\ path # NoEntry => path # tmp'
  <2>1. CASE tmp = NoEntry
    <3>1. disk' = Append(disk, <<>>) /\ tmp' = Len(disk) + 1
      BY <2>1 DEF Open
    <3> QED
      BY <3>1, <1>1, DiskAppend
  <2>2. CASE tmp # NoEntry
    <3>1. disk' = [disk EXCEPT ![tmp] = <<>>] /\ tmp' = tmp
      BY <2>2 DEF Open
    <3>2. tmp \in 1..Len(disk)
      BY <1>1, <2>2 DEF NoEntry
    <3>3. <<>> \in Seq(Block)
      BY EmptySeq
    <3>4. path # NoEntry => path # tmp
      BY DEF Inv
    <3> QED
      BY <3>1, <3>2, <3>3, <3>4, <1>1, DiskExcept
  <2> QED
    BY <2>1, <2>2
<1>3. DOMAIN disk' = 1..Len(disk')
  BY <1>2, LenProperties
<1>4. /\ stable' = stable \ {tmp'} /\ path' = path /\ removed' = FALSE
      /\ started' = started + 1 /\ proc' = [proc EXCEPT ![p] = w]
  BY DEF Open
<1>5. w \in Process'
  BY <1>2, PayloadType DEF Process
<1>6. \A q \in Procs : proc[q] \in Process'
  BY <1>2, ProcessGrows
<1>7. /\ proc \in [Procs -> Process] /\ proc'[p] = w
      /\ \A q \in Procs \ {p} : proc'[q] = proc[q] /\ proc[q].pc = "idle"
  <2>1. proc \in [Procs -> Process]
    BY DEF Inv, TypeOK
  <2>2. \A q \in Procs : proc[q].pc = "idle"
    BY DEF Open, MayStart
  <2> QED
    BY <2>1, <2>2, <1>4
<1>8. TypeOK'
  <2>1. proc' \in [Procs -> Process']
    BY <1>4, <1>5, <1>6, <1>7
  <2>2. started' \in 0..MaxStarts
    BY <1>1, <1>4, SecureFileAssumption
  <2>3. path' \in 0..Len(disk') /\ tmp' \in 0..Len(disk')
    BY <1>1, <1>2, <1>4
  <2>4. stable' \subseteq 1..Len(disk')
    <3>1. 1..Len(disk) \subseteq 1..Len(disk')
      BY <1>1, <1>2
    <3> QED
      BY <3>1, <1>1, <1>4
  <2>5. stable' \subseteq DOMAIN disk'
    BY <2>4, <1>3
  <2> QED
    BY <2>1, <2>2, <2>3, <2>5, <1>2, <1>4 DEF TypeOK
<1>9. path' # NoEntry => path' \in stable' /\ disk'[path'] \in Payloads /\ path' # tmp'
  <2>1. path # NoEntry => path \in stable /\ disk[path] \in Payloads
    BY DEF Inv
  <2> QED
    BY <2>1, <1>1, <1>2, <1>4
<1>10. data \in Seq(Bytes) /\ Len(data) \in Nat /\ SubSeq(data, 1, 0) = <<>>
  BY PayloadType, LenProperties, SubSeqEmpty
<1>11. tmp' # NoEntry
  BY <1>2 DEF NoEntry
<1> HIDE DEF w
<1>12. w.pc = "write" /\ w.fd = tmp' /\ w.pos = 0 /\ w.data = data
  BY DEF w
<1>13. \A q \in Procs :
       /\ proc'[q].pc \in {"write", "rename"} =>
            /\ tmp' # NoEntry /\ proc'[q].fd = tmp'
            /\ proc'[q].data \in Payloads
            /\ proc'[q].pos <= Len(proc'[q].data)
            /\ disk'[tmp'] = SubSeq(proc'[q].data, 1, proc'[q].pos)
            /\ ~removed'
       /\ proc'[q].pc = "rename" => proc'[q].pos = Len(proc'[q].data) /\ tmp' \in stable'
       /\ proc'[q].pc = "remove" => path' = NoEntry
  BY <1>2, <1>4, <1>7, <1>10, <1>11, <1>12
<1> QED
  BY <1>4, <1>7, <1>8, <1>9, <1>13 DEF Inv

LEMMA WriteBlockInv ==
  ASSUME Locked, Inv, NEW p \in Procs, WriteBlock(p)
  PROVE  Inv'
<1> DEFINE w == proc[p]
           n == [w EXCEPT !.pos = w.pos + 1]
<1>1. /\ disk \in Seq(Seq(Block)) /\ Len(disk) \in Nat /\ DOMAIN disk = 1..Len(disk)
      /\ stable \subseteq 1..Len(disk) /\ path \in 0..Len(disk) /\ tmp \in 0..Len(disk)
      /\ proc \in [Procs -> Process] /\ w \in Process
  BY LenProperties DEF Inv, TypeOK
<1>2. /\ w.pc = "write" /\ w.fd = tmp /\ tmp # NoEntry /\ w.data \in Payloads
      /\ w.pos < Len(w.data) /\ w.pos \in Nat
      /\ disk[tmp] = SubSeq(w.data, 1, w.pos) /\ ~removed
  BY <1>1 DEF WriteBlock, Inv, Process
<1>3. tmp \in 1..Len(disk)
  BY <1>1, <1>2 DEF NoEntry
<1>4. /\ w.data \in Seq(Bytes) /\ w.data \in Seq(Block) /\ Len(w.data) \in Nat
      /\ w.data[w.pos + 1] \in Bytes /\ w.data[w.pos + 1] \in Block
  <2>1. w.data \in Seq(Bytes) /\ w.data \in Seq(Block) /\ Len(w.data) \in Nat
    BY <1>2, PayloadType, LenProperties
  <2>2. w.pos + 1 \in 1..Len(w.data)
    BY <2>1, <1>2
  <2> QED
    BY <2>1, <2>2, ElementOfSeq DEF Block
<1>5. Len(disk[tmp]) = w.pos /\ disk[tmp] \in Seq(Block)
  <2>1. disk[tmp] \in Seq(Block)
    BY <1>1, <1>3, ElementOfSeq
  <2>2. \A i \in 1..w.pos : w.data[i] \in Bytes
    BY <1>2, <1>4, ElementOfSeq
  <2>3. Len(SubSeq(w.data, 1, w.pos)) = IF 1 <= w.pos THEN w.pos - 1 + 1 ELSE 0
    BY <2>2, <1>2, SubSeqProperties
  <2> QED
    BY <2>1, <2>3, <1>2
<1>6. WriteAt(disk[w.fd], w.pos + 1, w.data[w.pos + 1]) = SubSeq(w.data, 1, w.pos + 1)
  <2>1. WriteAt(disk[tmp], w.pos + 1, w.data[w.pos + 1]) = Append(disk[tmp], w.data[w.pos + 1])
    BY <1>4, <1>5, WriteAtEnd
  <2>2. w.pos \in 0..(Len(w.data) - 1)
    BY <1>2, <1>4
  <2> QED
    BY <2>1, <2>2, <1>2, <1>4, NextPrefix
<1>7. SubSeq(w.data, 1, w.pos + 1) \in Seq(Block)
  <2>1. \A i \in 1..(w.pos + 1) : w.data[i] \in Block
    BY <1>2, <1>4, ElementOfSeq
  <2> QED
    BY <2>1, <1>2, SubSeqProperties
<1>8. /\ disk' = [disk EXCEPT ![tmp] = SubSeq(w.data, 1, w.pos + 1)]
      /\ stable' = stable \ {tmp} /\ path' = path /\ tmp' = tmp
      /\ proc' = [proc EXCEPT ![p] = n] /\ removed' = removed /\ started' = started
  BY <1>2, <1>6 DEF WriteBlock
<1>9. /\ disk' \in Seq(Seq(Block)) /\ Len(disk') = Len(disk)
      /\ disk'[tmp] = SubSeq(w.data, 1, w.pos + 1)
      /\ \A j \in 1..Len(disk) : j # tmp => disk'[j] = disk[j]
  BY <1>1, <1>3, <1>7, <1>8, DiskExcept
<1>10. DOMAIN disk' = 1..Len(disk')
  BY <1>9, LenProperties
<1>11. /\ n.pc = "write" /\ n.fd = tmp /\ n.pos = w.pos + 1 /\ n.data = w.data
       /\ n \in Process'
  <2>1. w \in Process'
    BY <1>1, <1>9, ProcessGrows
  <2> HIDE DEF w
  <2>2. w.pos + 1 \in Nat
    BY <1>2
  <2>3. [w EXCEPT !.pos = w.pos + 1] \in Process'
    BY <2>1, <2>2 DEF Process
  <2> QED
    BY <2>1, <2>3, <1>2 DEF Process
<1> HIDE DEF n
<1>12. proc'[p] = n /\ \A q \in Procs \ {p} : proc'[q] = proc[q] /\ proc[q].pc = "idle"
  BY <1>1, <1>2, <1>8, OthersIdle
<1>13. TypeOK'
  <2>1. \A q \in Procs : proc[q] \in Process'
    BY <1>1, <1>9, ProcessGrows
  <2>2. proc' \in [Procs -> Process']
    BY <2>1, <1>1, <1>8, <1>11
  <2>3. started' \in 0..MaxStarts /\ removed' \in BOOLEAN
    BY <1>8 DEF Inv, TypeOK
  <2>4. stable' \subseteq DOMAIN disk' /\ path' \in 0..Len(disk') /\ tmp' \in 0..Len(disk')
    BY <1>1, <1>8, <1>9, <1>10
  <2> QED
    BY <2>2, <2>3, <2>4, <1>9 DEF TypeOK
<1>14. path' # NoEntry => path' \in stable' /\ disk'[path'] \in Payloads /\ path' # tmp'
  <2>1. path # NoEntry => path \in stable /\ disk[path] \in Payloads /\ path # tmp
    BY DEF Inv
  <2> QED
    BY <2>1, <1>1, <1>8, <1>9
<1>15. n.pos <= Len(n.data)
  BY <1>2, <1>4, <1>11
<1>16. \A q \in Procs :
       /\ proc'[q].pc \in {"write", "rename"} =>
            /\ tmp' # NoEntry /\ proc'[q].fd = tmp'
            /\ proc'[q].data \in Payloads
            /\ proc'[q].pos <= Len(proc'[q].data)
            /\ disk'[tmp'] = SubSeq(proc'[q].data, 1, proc'[q].pos)
            /\ ~removed'
       /\ proc'[q].pc = "rename" => proc'[q].pos = Len(proc'[q].data) /\ tmp' \in stable'
       /\ proc'[q].pc = "remove" => path' = NoEntry
  <2> HIDE DEF w
  <2> QED
    BY <1>2, <1>8, <1>9, <1>11, <1>12, <1>15
<1> QED
  BY <1>2, <1>8, <1>12, <1>13, <1>14, <1>16 DEF Inv

\* The steps that leave the disk and its file sizes alone keep the processes'
\* type as long as the one that moved has it.
LEMMA SameDisk ==
  ASSUME Inv, NEW p \in Procs, NEW n \in Process,
         disk' = disk, started' \in 0..MaxStarts, removed' \in BOOLEAN,
         stable' \subseteq 1..Len(disk), path' \in 0..Len(disk), tmp' \in 0..Len(disk),
         proc' = [proc EXCEPT ![p] = n]
  PROVE  TypeOK' /\ proc'[p] = n /\ \A q \in Procs \ {p} : proc'[q] = proc[q]
<1>1. disk \in Seq(Seq(Block)) /\ proc \in [Procs -> Process]
  BY DEF Inv, TypeOK
<1>2. DOMAIN disk = 1..Len(disk)
  BY <1>1, LenProperties
<1>3. Process' = Process
  BY DEF Process
<1>4. proc' \in [Procs -> Process']
  BY <1>1, <1>3
<1> QED
  BY <1>1, <1>2, <1>4 DEF TypeOK

LEMMA SyncInv ==
  ASSUME Locked, Inv, NEW p \in Procs, Sync(p)
  PROVE  Inv'
<1> DEFINE w == proc[p]
           n == [w EXCEPT !.pc = "rename"]
<1>1. /\ disk \in Seq(Seq(Block)) /\ Len(disk) \in Nat /\ DOMAIN disk = 1..Len(disk)
      /\ stable \subseteq 1..Len(disk) /\ path \in 0..Len(disk) /\ tmp \in 0..Len(disk)
      /\ proc \in [Procs -> Process] /\ w \in Process
      /\ removed \in BOOLEAN /\ started \in 0..MaxStarts
  BY LenProperties DEF Inv, TypeOK
<1>2. /\ w.pc = "write" /\ w.fd = tmp /\ tmp # NoEntry /\ w.data \in Payloads
      /\ w.pos = Len(w.data) /\ w.pos <= Len(w.data)
      /\ disk[tmp] = SubSeq(w.data, 1, w.pos) /\ ~removed
  BY DEF Sync, Inv
<1>3. /\ disk' = disk /\ stable' = stable \cup {tmp} /\ path' = path /\ tmp' = tmp
      /\ proc' = [proc EXCEPT ![p] = n] /\ removed' = removed /\ started' = started
  BY <1>1, <1>2 DEF Sync
<1>4. n \in Process /\ n.pc = "rename" /\ n.fd = tmp /\ n.pos = w.pos /\ n.data = w.data
  BY <1>1, <1>2 DEF Process
<1> HIDE DEF n
<1>5. tmp \in 1..Len(disk)
  BY <1>1, <1>2 DEF NoEntry
<1>6. TypeOK' /\ proc'[p] = n /\ \A q \in Procs \ {p} : proc'[q] = proc[q]
  <2>1. stable' \subseteq 1..Len(disk)
    BY <1>1, <1>3, <1>5
  <2> HIDE DEF w
  <2> QED
    BY <2>1, <1>1, <1>3, <1>4, SameDisk
<1>7. \A q \in Procs \ {p} : proc'[q].pc = "idle"
  BY <1>2, <1>6, OthersIdle
<1>8. path' # NoEntry => path' \in stable' /\ disk'[path'] \in Payloads /\ path' # tmp'
  BY <1>3 DEF Inv
<1>9. \A q \in Procs :
       /\ proc'[q].pc \in {"write", "rename"} =>
            /\ tmp' # NoEntry /\ proc'[q].fd = tmp'
            /\ proc'[q].data \in Payloads
            /\ proc'[q].pos <= Len(proc'[q].data)
            /\ disk'[tmp'] = SubSeq(proc'[q].data, 1, proc'[q].pos)
            /\ ~removed'
       /\ proc'[q].pc = "rename" => proc'[q].pos = Len(proc'[q].data) /\ tmp' \in stable'
       /\ proc'[q].pc = "remove" => path' = NoEntry
  <2> HIDE DEF w
  <2> QED
    BY <1>2, <1>3, <1>4, <1>6, <1>7
<1> QED
  BY <1>2, <1>3, <1>6, <1>7, <1>8, <1>9 DEF Inv

\* The steps after which nobody is left working.
LEMMA AllIdleInv ==
  ASSUME TypeOK', \A q \in Procs : proc'[q].pc = "idle",
         path' # NoEntry => path' \in stable' /\ disk'[path'] \in Payloads /\ path' # tmp',
         removed' => path' = NoEntry /\ tmp' = NoEntry
  PROVE  Inv'
  BY DEF Inv

LEMMA RenameInv ==
  ASSUME Locked, Inv, NEW p \in Procs, Rename(p)
  PROVE  Inv' /\ path' = tmp /\ disk'[path'] = proc[p].data /\ proc[p].data \in Payloads
<1> DEFINE w == proc[p]
<1>1. /\ disk \in Seq(Seq(Block)) /\ Len(disk) \in Nat
      /\ stable \subseteq 1..Len(disk) /\ tmp \in 0..Len(disk) /\ started \in 0..MaxStarts
      /\ removed \in BOOLEAN
  BY LenProperties DEF Inv, TypeOK
<1>2. /\ w.pc = "rename" /\ tmp # NoEntry /\ w.data \in Payloads /\ tmp \in stable
      /\ disk[tmp] = SubSeq(w.data, 1, Len(w.data)) /\ ~removed
  BY DEF Rename, Inv
<1>3. disk[tmp] = w.data
  BY <1>2, PayloadType, SubSeqFull
<1>4. /\ disk' = disk /\ stable' = stable /\ path' = tmp /\ tmp' = NoEntry
      /\ proc' = [proc EXCEPT ![p] = Idle] /\ removed' = removed /\ started' = started
  BY <1>2 DEF Rename
<1>5. Idle \in Process /\ Idle.pc = "idle"
  BY <1>1, IdleType
<1>6. TypeOK' /\ proc'[p] = Idle /\ \A q \in Procs \ {p} : proc'[q] = proc[q]
  <2>1. NoEntry \in 0..Len(disk)
    BY <1>1 DEF NoEntry
  <2> QED
    BY <2>1, <1>1, <1>4, <1>5, SameDisk
<1>7. \A q \in Procs : proc'[q].pc = "idle"
  BY <1>2, <1>5, <1>6, OthersIdle
<1> QED
  BY <1>2, <1>3, <1>4, <1>6, <1>7, AllIdleInv

LEMMA RemoveFileInv ==
  ASSUME Locked, Inv, NEW p \in Procs, RemoveFile(p)
  PROVE  Inv'
<1> DEFINE n == [Idle EXCEPT !.pc = "remove"]
<1>1. /\ disk \in Seq(Seq(Block)) /\ Len(disk) \in Nat /\ proc \in [Procs -> Process]
      /\ DOMAIN disk = 1..Len(disk)
      /\ stable \subseteq 1..Len(disk) /\ tmp \in 0..Len(disk) /\ started \in 0..MaxStarts
      /\ removed \in BOOLEAN
  BY LenProperties DEF Inv, TypeOK
<1>2. n \in Process /\ n.pc = "remove"
  BY <1>1 DEF Process, Idle, NoEntry
<1>3. /\ started < MaxStarts /\ \A q \in Procs : proc[q].pc = "idle"
      /\ disk' = disk /\ stable' = stable /\ tmp' = tmp /\ path' = NoEntry
      /\ proc' = [proc EXCEPT ![p] = n] /\ removed' = removed /\ started' = started + 1
  BY DEF RemoveFile, MayStart
<1> HIDE DEF n
<1>4. TypeOK' /\ proc'[p] = n /\ \A q \in Procs \ {p} : proc'[q] = proc[q]
  <2>1. NoEntry \in 0..Len(disk)
    BY <1>1 DEF NoEntry
  <2>2. MaxStarts \in Nat
    BY SecureFileAssumption
  <2>3. started' \in 0..MaxStarts
    BY <2>2, <1>1, <1>3
  <2> QED
    BY <2>1, <2>3, <1>1, <1>2, <1>3, SameDisk
<1>5. removed => tmp = NoEntry
  BY DEF Inv
<1> QED
  BY <1>2, <1>3, <1>4, <1>5 DEF Inv

LEMMA RemoveStagedInv ==
  ASSUME Locked, Inv, NEW p \in Procs, RemoveStaged(p)
  PROVE  Inv'
<1>1. /\ disk \in Seq(Seq(Block)) /\ Len(disk) \in Nat /\ DOMAIN disk = 1..Len(disk)
      /\ stable \subseteq 1..Len(disk) /\ path \in 0..Len(disk) /\ started \in 0..MaxStarts
  BY LenProperties DEF Inv, TypeOK
<1>2. /\ proc[p].pc = "remove" /\ path = NoEntry
      /\ disk' = disk /\ stable' = stable /\ tmp' = NoEntry /\ path' = path
      /\ proc' = [proc EXCEPT ![p] = Idle] /\ removed' = TRUE /\ started' = started
  BY DEF RemoveStaged, Inv
<1>3. Idle \in Process /\ Idle.pc = "idle"
  BY <1>1, IdleType
<1>4. TypeOK' /\ proc'[p] = Idle /\ \A q \in Procs \ {p} : proc'[q] = proc[q]
  <2>1. NoEntry \in 0..Len(disk)
    BY <1>1 DEF NoEntry
  <2> QED
    BY <2>1, <1>1, <1>2, <1>3, SameDisk
<1>5. \A q \in Procs : proc'[q].pc = "idle"
  BY <1>2, <1>3, <1>4, OthersIdle
<1> QED
  BY <1>2, <1>4, <1>5, AllIdleInv

LEMMA StopInv ==
  ASSUME Locked, Inv, NEW p \in Procs, Stop(p)
  PROVE  Inv'
<1>1. /\ disk \in Seq(Seq(Block)) /\ DOMAIN disk = 1..Len(disk)
      /\ stable \subseteq 1..Len(disk) /\ path \in 0..Len(disk) /\ tmp \in 0..Len(disk)
      /\ started \in 0..MaxStarts /\ removed \in BOOLEAN
  BY LenProperties DEF Inv, TypeOK
<1>2. /\ proc[p].pc # "idle"
      /\ disk' = disk /\ stable' = stable /\ tmp' = tmp /\ path' = path
      /\ proc' = [proc EXCEPT ![p] = Idle] /\ removed' = removed /\ started' = started
  BY DEF Stop
<1>3. Idle \in Process /\ Idle.pc = "idle"
  BY <1>1, IdleType
<1>4. TypeOK' /\ proc'[p] = Idle /\ \A q \in Procs \ {p} : proc'[q] = proc[q]
  BY <1>1, <1>2, <1>3, SameDisk
<1>5. \A q \in Procs : proc'[q].pc = "idle"
  BY <1>2, <1>3, <1>4, OthersIdle
<1>6. /\ path # NoEntry => path \in stable /\ disk[path] \in Payloads /\ path # tmp
      /\ removed => path = NoEntry /\ tmp = NoEntry
  BY DEF Inv
<1> QED
  BY <1>2, <1>4, <1>5, <1>6, AllIdleInv

LEMMA PowerLossInv ==
  ASSUME Inv, PowerLoss
  PROVE  Inv' /\ (path # NoEntry => disk'[path] = disk[path])
<1>1. /\ disk \in Seq(Seq(Block)) /\ Len(disk) \in Nat /\ DOMAIN disk = 1..Len(disk)
      /\ stable \subseteq 1..Len(disk) /\ path \in 0..Len(disk) /\ tmp \in 0..Len(disk)
      /\ started \in 0..MaxStarts /\ removed \in BOOLEAN
  BY LenProperties DEF Inv, TypeOK
<1>2. PICK n \in {0, 1} :
        disk' = [i \in DOMAIN disk |-> IF i \in stable THEN disk[i] ELSE Prefix(disk[i], n)]
  BY DEF PowerLoss
<1>3. /\ stable' = stable /\ tmp' = tmp /\ path' = path
      /\ proc' = [q \in Procs |-> Idle] /\ removed' = removed /\ started' = started
  BY DEF PowerLoss
<1>4. \A i \in 1..Len(disk) : disk[i] \in Seq(Block) /\ Prefix(disk[i], n) \in Seq(Block)
  BY <1>1, <1>2, ElementOfSeq, PrefixType
<1>5. disk' \in [1..Len(disk) -> Seq(Block)]
  BY <1>1, <1>2, <1>4
<1>6. disk' \in Seq(Seq(Block)) /\ Len(disk') = Len(disk) /\ DOMAIN disk' = 1..Len(disk')
  <2>1. /\ disk' \in Seq(Seq(Block))
        /\ Len(disk') = Len(disk)
        /\ DOMAIN disk' = 1..Len(disk)
    BY <1>1, <1>5, FunctionIsSeq
  <2> QED
    BY <2>1
<1>7. Idle \in Process /\ Idle.pc = "idle" /\ Process' = Process
  BY <1>1, <1>6, IdleType DEF Process
<1>8. TypeOK'
  <2>1. proc' \in [Procs -> Process']
    BY <1>3, <1>7
  <2> QED
    BY <2>1, <1>1, <1>3, <1>6 DEF TypeOK
<1>9. \A q \in Procs : proc'[q].pc = "idle"
  BY <1>3, <1>7
<1>10. /\ path # NoEntry => path \in stable /\ disk[path] \in Payloads /\ path # tmp
       /\ removed => path = NoEntry /\ tmp = NoEntry
  BY DEF Inv
<1>11. path # NoEntry => disk'[path] = disk[path]
  BY <1>1, <1>2, <1>10
<1> QED
  BY <1>3, <1>8, <1>9, <1>10, <1>11, AllIdleInv

LEMMA StutterInv == ASSUME Inv, UNCHANGED vars PROVE Inv'
  BY DEF vars, Inv, TypeOK, Process

LEMMA NextInv == ASSUME Locked, Inv, [Next]_vars PROVE Inv'
<1>1. CASE UNCHANGED vars
  BY <1>1, StutterInv
<1>2. CASE PowerLoss
  BY <1>2, PowerLossInv
<1>3. ASSUME NEW p \in Procs, Step(p) PROVE Inv'
  BY <1>3, OpenInv, WriteBlockInv, SyncInv, RenameInv, RemoveFileInv, RemoveStagedInv, StopInv
     DEF Step
<1> QED
  BY <1>1, <1>2, <1>3 DEF Next

-----------------------------------------------------------------------------
(* What the callers that hold the lock can rely on.                        *)

\* The inductive invariant holds of every behaviour of write_secure and
\* remove_secure under a lock.
THEOREM LockedInductive == ASSUME Locked PROVE Spec => []Inv
<1>1. Init => Inv
  BY InitInv
<1>2. Inv /\ [Next]_vars => Inv'
  BY NextInv
<1> QED
  BY <1>1, <1>2, PTL DEF Spec

\* Whatever is killed where, and across power losses, `<path>` holds nothing or
\* one whole content that a writer gave to write_secure.
THEOREM NeverAPartialWrite == ASSUME Locked PROVE Spec => []NeverPartial
<1>1. Inv => NeverPartial
  BY DEF Inv, NeverPartial, Content
<1> QED
  BY <1>1, LockedInductive, PTL

\* After remove_secure returned, no copy is left behind under either name.
THEOREM RemovalIsComplete == ASSUME Locked PROVE Spec => []RemovedForGood
<1>1. Inv => RemovedForGood
  BY DEF Inv, RemovedForGood
<1> QED
  BY <1>1, LockedInductive, PTL

\* A write_secure that returned Ok put its own bytes in place.
THEOREM SuccessIsMine == ASSUME Locked PROVE Spec => OkMeansMine
<1>1. Inv /\ [Next]_vars => [\A p \in Procs : Rename(p) => path' = tmp /\ disk'[path'] = proc[p].data]_vars
  BY RenameInv
<1> QED
  BY <1>1, LockedInductive, PTL DEF Spec, OkMeansMine

\* What p is writing is a content when p is staging it, and nothing otherwise.
LEMMA AskedType ==
  ASSUME Inv, NEW p \in Procs
  PROVE  /\ proc[p].pc \in {"write", "rename"} => Asked(p) = proc[p].data /\ Asked(p) # Absent
         /\ proc[p].pc \in {"idle", "remove"} => Asked(p) = Absent
  BY SecureFileAssumption DEF Inv, Asked

\* What a step of one process leaves the processes asked to write, when the
\* process itself is left writing `data`.
LEMMA AskedExcept ==
  ASSUME Inv, NEW p \in Procs, NEW n, proc' = [proc EXCEPT ![p] = n],
         NEW data,
         \/ n.pc \in {"write", "rename"} /\ data = n.data
         \/ n.pc \in {"idle", "remove"} /\ data = Absent
  PROVE  [q \in Procs |-> Asked(q)]' = [[q \in Procs |-> Asked(q)] EXCEPT ![p] = data]
<1>1. proc \in [Procs -> Process]
  BY DEF Inv, TypeOK
<1>2. Asked(p)' = data
  BY <1>1 DEF Asked
<1>3. \A q \in Procs \ {p} : Asked(q)' = Asked(q)
  BY <1>1 DEF Asked
<1> QED
  BY <1>2, <1>3

\* A step that leaves every process writing what it was writing.
LEMMA AskedSame ==
  ASSUME Inv, NEW p \in Procs, NEW n, proc' = [proc EXCEPT ![p] = n],
         \/ /\ proc[p].pc \in {"write", "rename"} /\ n.pc \in {"write", "rename"}
            /\ n.data = proc[p].data
         \/ proc[p].pc \in {"idle", "remove"} /\ n.pc \in {"idle", "remove"}
  PROVE  [q \in Procs |-> Asked(q)]' = [q \in Procs |-> Asked(q)]
<1>1. proc \in [Procs -> Process]
  BY DEF Inv, TypeOK
<1>2. \A q \in Procs : Asked(q)' = Asked(q)
  BY <1>1 DEF Asked
<1> QED
  BY <1>2

\* What a step of the code is of the abstract file: a stutter, the begin of a
\* write, its one effect, a removal, or the end of writes that had no effect.
LEMMA ContentStep ==
  ASSUME Locked, Inv, [Next]_vars
  PROVE  [File!Next]_<<Content, [p \in Procs |-> Asked(p)]>>
<1> DEFINE asked == [p \in Procs |-> Asked(p)]
<1>0. /\ Len(disk) \in Nat /\ path \in 0..Len(disk) /\ disk \in Seq(Seq(Block))
      /\ proc \in [Procs -> Process]
  BY LenProperties DEF Inv, TypeOK
<1>a. Idle.pc = "idle"
  BY DEF Idle
<1>1. CASE UNCHANGED vars
  BY <1>1 DEF vars, Content, Asked
<1>2. CASE PowerLoss
  <2>1. path' = path /\ (path # NoEntry => disk'[path] = disk[path])
    BY <1>2, PowerLossInv DEF PowerLoss
  <2>2. Content' = Content
    BY <2>1 DEF Content
  <2>3. proc' = [q \in Procs |-> Idle]
    BY <1>2 DEF PowerLoss
  <2>4. asked' = [q \in Procs |-> IF q \in Procs THEN Absent ELSE asked[q]]
    BY <2>3 DEF Asked, Idle
  <2>5. File!GiveUp(Procs)
    BY <2>2, <2>4 DEF File!GiveUp
  <2> QED
    BY <2>5 DEF File!Next
<1>3. ASSUME NEW p \in Procs, NEW data \in Payloads, Open(p, data)
      PROVE  File!Begin(p, data)
  <2>1. path' = path /\ (path # NoEntry => path # tmp)
    BY <1>3 DEF Open, Inv
  <2>2. Content' = Content
    <3>1. path # NoEntry => path \in 1..Len(disk)
      BY <1>0 DEF NoEntry
    <3>2. CASE tmp = NoEntry
      <4>1. \A j \in 1..Len(disk) : disk'[j] = disk[j]
        BY <1>3, <3>2, <1>0, DiskAppend DEF Open
      <4> QED
        BY <4>1, <3>1, <2>1 DEF Content
    <3>3. CASE tmp # NoEntry
      <4>1. disk' = [disk EXCEPT ![tmp] = <<>>]
        BY <1>3, <3>3 DEF Open
      <4>2. \A j \in 1..Len(disk) : j # tmp => disk'[j] = disk[j]
        BY <4>1, <1>0, LenProperties
      <4> QED
        BY <4>2, <3>1, <2>1 DEF Content
    <3> QED
      BY <3>2, <3>3
  <2>3. proc[p].pc = "idle"
    BY <1>3 DEF Open, MayStart
  <2>4. asked[p] = Absent
    BY <2>3, AskedType
  <2>5. asked' = [asked EXCEPT ![p] = data]
    <3> DEFINE n == [pc |-> "write", fd |-> tmp', pos |-> 0, data |-> data]
    <3>1. proc' = [proc EXCEPT ![p] = n] /\ n.pc = "write" /\ n.data = data
      BY <1>3 DEF Open
    <3> HIDE DEF n
    <3> QED
      BY <3>1, AskedExcept
  <2> QED
    BY <2>2, <2>4, <2>5 DEF File!Begin
<1>4. ASSUME NEW p \in Procs, WriteBlock(p)
      PROVE  Content' = Content /\ asked' = asked
  <2>1. path' = path /\ (path # NoEntry => path # tmp) /\ proc[p].fd = tmp
    BY <1>4 DEF WriteBlock, Inv
  <2>2. \A j \in DOMAIN disk : j # tmp => disk'[j] = disk[j]
    BY <1>4, <2>1 DEF WriteBlock
  <2>3. DOMAIN disk = 1..Len(disk)
    BY <1>0, LenProperties
  <2>4. Content' = Content
    <3>1. path # NoEntry => path \in DOMAIN disk
      BY <2>3, <1>0 DEF NoEntry
    <3> QED
      BY <3>1, <2>1, <2>2 DEF Content
  <2> DEFINE n == [proc[p] EXCEPT !.pos = proc[p].pos + 1]
  <2>5. proc' = [proc EXCEPT ![p] = n] /\ proc[p].pc = "write"
    BY <1>4 DEF WriteBlock
  <2>6. n.pc = "write" /\ n.data = proc[p].data
    BY <1>0, <2>5 DEF Process
  <2> HIDE DEF n
  <2>7. asked' = asked
    BY <2>5, <2>6, AskedSame
  <2> QED
    BY <2>4, <2>7
<1>5. ASSUME NEW p \in Procs, Sync(p)
      PROVE  Content' = Content /\ asked' = asked
  <2> DEFINE n == [proc[p] EXCEPT !.pc = "rename"]
  <2>1. proc' = [proc EXCEPT ![p] = n] /\ proc[p].pc = "write"
    BY <1>5 DEF Sync
  <2>2. n.pc = "rename" /\ n.data = proc[p].data
    BY <1>0 DEF Process
  <2> HIDE DEF n
  <2>3. asked' = asked
    BY <2>1, <2>2, AskedSame
  <2> QED
    BY <2>3, <1>5 DEF Sync, Content
<1>6. ASSUME NEW p \in Procs, Rename(p) PROVE File!TakeEffect(p)
  <2>1. /\ proc[p].pc = "rename" /\ proc' = [proc EXCEPT ![p] = Idle]
        /\ path' = tmp /\ tmp # NoEntry /\ disk'[path'] = proc[p].data
    BY <1>6, RenameInv DEF Rename, Inv
  <2>2. asked[p] = proc[p].data /\ asked[p] # Absent
    BY <2>1, AskedType
  <2>3. Content' = asked[p]
    BY <2>1, <2>2 DEF Content
  <2>4. asked' = [asked EXCEPT ![p] = Absent]
    <3>1. proc' = [proc EXCEPT ![p] = Idle]
      BY <2>1
    <3> QED
      BY <3>1, <1>a, AskedExcept
  <2> QED
    BY <2>2, <2>3, <2>4 DEF File!TakeEffect
<1>7. ASSUME NEW p \in Procs, RemoveFile(p) PROVE File!Remove(p)
  <2> DEFINE n == [Idle EXCEPT !.pc = "remove"]
  <2>1. proc[p].pc = "idle" /\ proc' = [proc EXCEPT ![p] = n] /\ n.pc = "remove"
    BY <1>7 DEF RemoveFile, MayStart, Idle
  <2> HIDE DEF n
  <2>2. asked' = asked
    BY <2>1, AskedSame
  <2>3. asked[p] = Absent
    BY <2>1, AskedType
  <2>4. Content' = Absent
    BY <1>7 DEF RemoveFile, Content
  <2> QED
    BY <2>2, <2>3, <2>4 DEF File!Remove
<1>8. ASSUME NEW p \in Procs, RemoveStaged(p)
      PROVE  Content' = Content /\ asked' = asked
  <2>1. asked' = asked
    BY <1>8, AskedSame DEF RemoveStaged, Idle
  <2> QED
    BY <2>1, <1>8 DEF RemoveStaged, Content
<1>9. ASSUME NEW p \in Procs, Stop(p) PROVE File!GiveUp({p})
  <2>1. asked' = [asked EXCEPT ![p] = Absent]
    <3>1. proc' = [proc EXCEPT ![p] = Idle]
      BY <1>9 DEF Stop
    <3> QED
      BY <3>1, <1>a, AskedExcept
  <2>2. asked' = [q \in Procs |-> IF q \in {p} THEN Absent ELSE asked[q]]
    BY <2>1
  <2>3. Content' = Content
    BY <1>9 DEF Stop, Content
  <2> QED
    BY <2>2, <2>3 DEF File!GiveUp
<1> HIDE DEF asked
<1>10. CASE \E p \in Procs : Step(p)
  <2>1. PICK p \in Procs : Step(p)
    BY <1>10
  <2>2. \/ \E data \in Payloads : File!Begin(p, data)
        \/ Content' = Content /\ asked' = asked
        \/ File!TakeEffect(p) \/ File!Remove(p) \/ File!GiveUp({p})
    BY <2>1, <1>3, <1>4, <1>5, <1>6, <1>7, <1>8, <1>9 DEF Step
  <2>3. {p} \in SUBSET Procs
    OBVIOUS
  <2>4. File!Next \/ (Content' = Content /\ asked' = asked)
    BY <2>2, <2>3 DEF File!Next
  <2> QED
    BY <2>4 DEF asked
<1> QED
  BY <1>1, <1>2, <1>10 DEF Next

\* Under a lock, a write of write_secure takes effect once and in one step of its
\* own, or never, whoever dies where; remove_secure removes in one step.
THEOREM Atomic == ASSUME Locked PROVE Spec => ImplementsAtomicFile
<1>1. Init => File!Init
  BY DEF Init, File!Init, Content, Asked, Idle
<1>2. Inv /\ [Next]_vars => [File!Next]_<<Content, [p \in Procs |-> Asked(p)]>>
  BY ContentStep
<1> QED
  BY <1>1, <1>2, LockedInductive, PTL DEF Spec, ImplementsAtomicFile, File!Spec

-----------------------------------------------------------------------------
(* The telemetry spools, for any number of commands and uploaders, any cap *)
(* and any batch size.                                                     *)

LEMMA SpoolInitInv == SpoolInit => SpoolInv
<1> SUFFICES ASSUME SpoolInit PROVE SpoolInv
  OBVIOUS
<1>1. IdleWriter \in WriterState
  BY DEF IdleWriter, WriterState
<1>2. IdleUploader \in UploaderState
  BY DEF IdleUploader, UploaderState
<1>3. writer \in [Writers -> WriterState] /\ up \in [Uploaders -> UploaderState]
  BY <1>1, <1>2 DEF SpoolInit
<1>4. MaxEvents \in Nat
  BY SpoolAssumption
<1>5. next \in 0..MaxEvents
  BY <1>4 DEF SpoolInit
<1>6. SpoolTypeOK
  BY <1>3, <1>5 DEF SpoolInit, SpoolTypeOK
<1>7. /\ \A w \in Writers : writer[w].pc = "idle"
      /\ \A u \in Uploaders : up[u].pc = "idle" /\ up[u].remove = {} /\ up[u].batch = {}
  BY DEF SpoolInit, IdleWriter, IdleUploader
<1>8. LockProtects /\ RemovalIsEarned /\ TakenIsSent
  BY <1>7 DEF LockProtects, RemovalIsEarned, TakenIsSent
<1>9. NumbersAreFresh /\ NeverTakenTwice
  BY <1>7 DEF SpoolInit, NumbersAreFresh, NeverTakenTwice
<1>10. AcceptedSurvives /\ OnlyPoisonRefused
  BY DEF SpoolInit, AcceptedSurvives, OnlyPoisonRefused
<1> QED
  BY <1>6, <1>8, <1>9, <1>10 DEF SpoolInv

-----------------------------------------------------------------------------
(* Uploaders.                                                              *)

\* What an uploader's step must respect to keep the invariant: `s` is its new
\* state.
LEMMA UploaderKeepsInv ==
  ASSUME SpoolInv,
         NEW u \in Uploaders, NEW s \in UploaderState, Becomes(u, s),
         UNCHANGED <<kind, garbled, writer, next, accepted, aged>>,
         torn' \in BOOLEAN, torn' => torn,
         file' \subseteq file,
         file' = file \/ lock = u,
         lock' = lock \/ (lock = Nobody /\ lock' = u) \/ Release(u),
         s.pc \in {"rewrite", "take"} => lock' = u /\ s.saw = file',
         recorded \subseteq recorded', refused \subseteq refused',
         refused' \subseteq Poison,
         s.remove \subseteq recorded' \cup refused',
         s.pc # "post" => s.batch = {},
         \/ s.batch = up[u].batch /\ sent' = sent
         \/ s.batch = {} /\ sent' = sent \cup up[u].batch
         \/ up[u].batch = {} /\ s.batch \subseteq file /\ s.batch \cap file' = {} /\ sent' = sent,
         file \subseteq file' \cup recorded' \cup refused' \cup s.batch
  PROVE  SpoolInv'
<1>1. /\ up' \in [Uploaders -> UploaderState]
      /\ up'[u] = s
      /\ \A v \in Uploaders \ {u} : up'[v] = up[v]
  BY DEF SpoolInv, SpoolTypeOK, Becomes
<1>2. lock' \in Writers \cup Uploaders \cup {Nobody}
  BY DEF SpoolInv, SpoolTypeOK, Release
<1>3. SpoolTypeOK'
  BY <1>1, <1>2 DEF SpoolInv, SpoolTypeOK
<1>4. \A p \in (Writers \cup Uploaders) \ {u} : lock = p => lock' = p /\ file' = file
  BY SpoolAssumption DEF Release
<1>5. LockProtects'
  <2>1. ASSUME NEW w \in Writers, writer'[w].pc = "append"
        PROVE  lock' = w /\ writer'[w].saw = Readable' /\ next' + writer'[w].count <= MaxEvents
    <3>1. writer[w].pc = "append" /\ w # u
      BY <2>1, SpoolAssumption
    <3> QED
      BY <1>4, <3>1 DEF SpoolInv, LockProtects, Readable
  <2>2. ASSUME NEW v \in Uploaders, up'[v].pc \in {"rewrite", "take"}
        PROVE  lock' = v /\ up'[v].saw = file'
    <3>1. CASE v = u
      BY <1>1, <2>2, <3>1
    <3>2. CASE v # u
      BY <1>1, <1>4, <2>2, <3>2 DEF SpoolInv, LockProtects
    <3> QED
      BY <3>1, <3>2
  <2> QED
    BY <2>1, <2>2 DEF LockProtects
<1>6. RemovalIsEarned' /\ TakenIsSent' /\ OnlyPoisonRefused'
  <2>1. RemovalIsEarned'
    BY <1>1 DEF SpoolInv, RemovalIsEarned
  <2>2. TakenIsSent'
    BY <1>1 DEF SpoolInv, TakenIsSent
  <2> QED
    BY <2>1, <2>2 DEF OnlyPoisonRefused
<1>7. /\ \A v \in Uploaders : up[v].batch \cap (file \cup sent) = {}
      /\ \A v, x \in Uploaders : v # x => up[v].batch \cap up[x].batch = {}
      /\ sent \cap file = {}
      /\ sent \subseteq 1..next /\ file \subseteq 1..next
      /\ \A v \in Uploaders : up[v].batch \subseteq 1..next
  BY DEF SpoolInv, NeverTakenTwice, NumbersAreFresh
<1>8. sent' \cap file' = {} /\ sent' \subseteq 1..next /\ s.batch \subseteq 1..next
  BY <1>7
<1>9. NumbersAreFresh'
  BY <1>1, <1>7, <1>8 DEF SpoolInv, NumbersAreFresh
<1>10. s.batch \cap (file' \cup sent') = {}
  BY <1>7
<1>11. \A v \in Uploaders \ {u} :
         up[v].batch \cap (file' \cup sent') = {} /\ up[v].batch \cap s.batch = {}
  BY <1>7
<1>12. NeverTakenTwice'
  BY <1>1, <1>7, <1>10, <1>11 DEF NeverTakenTwice
<1>13. AcceptedSurvives'
  <2> SUFFICES ASSUME NEW e \in accepted
               PROVE  e \in file' \cup recorded' \cup refused' \cup aged' \cup sent'
                              \cup UNION {up'[v].batch : v \in Uploaders}
    BY DEF AcceptedSurvives
  <2>1. e \in file \cup recorded \cup refused \cup aged \cup sent
           \/ \E v \in Uploaders : e \in up[v].batch
    BY DEF SpoolInv, AcceptedSurvives
  <2>2. e \in s.batch => e \in UNION {up'[v].batch : v \in Uploaders}
    BY <1>1
  <2>3. CASE e \in file
    BY <2>2, <2>3
  <2>4. CASE e \in recorded \cup refused \cup aged \cup sent
    BY <2>4
  <2>5. CASE \E v \in Uploaders : e \in up[v].batch
    <3> PICK v \in Uploaders : e \in up[v].batch
      BY <2>5
    <3>1. CASE v = u
      BY <2>2, <3>1
    <3>2. CASE v # u
      BY <1>1, <3>2
    <3> QED
      BY <3>1, <3>2
  <2> QED
    BY <2>1, <2>3, <2>4, <2>5
<1> QED
  BY <1>3, <1>5, <1>6, <1>9, <1>12, <1>13 DEF SpoolInv

\* What the invariant says of one uploader.
LEMMA UploaderFacts ==
  ASSUME SpoolInv, NEW u \in Uploaders
  PROVE  /\ up[u] \in UploaderState
         /\ up[u].remove \subseteq recorded \cup refused
         /\ up[u].pc # "post" => up[u].batch = {}
         /\ up[u].pc \in {"rewrite", "take"} => lock = u /\ up[u].saw = file
         /\ torn \in BOOLEAN
         /\ refused \subseteq Poison
         /\ file \subseteq Events
  BY DEF SpoolInv, SpoolTypeOK, RemovalIsEarned, TakenIsSent, LockProtects, OnlyPoisonRefused

LEMMA IdleUploaderFacts ==
  /\ IdleUploader \in UploaderState
  /\ IdleUploader.pc = "idle" /\ IdleUploader.remove = {} /\ IdleUploader.batch = {}
  BY DEF IdleUploader, UploaderState

LEMMA NextBatchType ==
  ASSUME SpoolInv, NEW u \in Uploaders
  PROVE  /\ NextBatch(u) \subseteq Events
         /\ Stream(u) \subseteq Events
<1>1. up[u] \in UploaderState
  BY UploaderFacts
<1>2. up[u].left \subseteq Events /\ up[u].alone \subseteq Events
  BY <1>1 DEF UploaderState
<1>3. Stream(u) \subseteq Events
  BY <1>2 DEF Stream
<1> QED
  BY <1>2, <1>3 DEF NextBatch, Oldest

\* Settling a batch keeps everything else of an uploader.
LEMMA SettledFacts ==
  ASSUME SpoolInv, NEW u \in Uploaders, NEW batch \in SUBSET Events
  PROVE  /\ Settled(u, batch, batch) \in UploaderState
         /\ Settled(u, batch, batch).pc = up[u].pc
         /\ Settled(u, batch, batch).remove = up[u].remove \cup batch
         /\ Settled(u, batch, batch).batch = up[u].batch
<1>1. up[u] \in UploaderState
  BY UploaderFacts
<1> QED
  BY <1>1 DEF Settled, UploaderState

\* A batch of one event that holds a refused event is that event.
LEMMA SingleBatch ==
  ASSUME NEW batch \in SUBSET Events, Cardinality(batch) = 1, batch \cap Poison # {}
  PROVE  batch \subseteq Poison
<1>1. MaxEvents \in Int
  BY SpoolAssumption
<1>2. IsFiniteSet(Events)
  BY <1>1, FS_Interval DEF Events
<1>3. IsFiniteSet(batch)
  BY <1>2, FS_Subset
<1>4. PICK x : batch = {x}
  BY <1>3, FS_Singleton
<1> QED
  BY <1>4

LEMMA UploaderStepInv ==
  ASSUME SpoolInv, NEW u \in Uploaders, UploaderStep(u)
  PROVE  SpoolInv'
<1> USE UploaderFacts, IdleUploaderFacts
<1>1. CASE LoadAll(u)
  <2> DEFINE s == [IdleUploader EXCEPT !.pc = "send",
                                       !.loaded = Readable \ broken, !.left = Readable \ broken]
  <2>1. /\ Becomes(u, s) /\ up[u].pc = "idle"
        /\ UNCHANGED <<kind, file, torn, garbled, lock, writer, next,
                       accepted, broken, aged, recorded, refused, sent>>
    BY <1>1 DEF LoadAll
  <2>2. s \in UploaderState
    BY DEF UploaderState, IdleUploader, Readable
  <2>3. s.pc = "send" /\ s.remove = {} /\ s.batch = {}
    BY DEF IdleUploader
  <2> HIDE DEF s
  <2> QED
    BY <2>1, <2>2, <2>3, UploaderKeepsInv
<1>2. CASE Deliver(u)
  <2> DEFINE b == NextBatch(u)
             s == Settled(u, b, b)
  <2>1. /\ Becomes(u, s) /\ up[u].pc = "send" /\ recorded' = recorded \cup b
        /\ UNCHANGED <<kind, file, torn, garbled, lock, writer, next, accepted, broken, aged, refused, sent>>
    BY <1>2 DEF Deliver, Sending
  <2>2. /\ s \in UploaderState /\ s.pc = up[u].pc
        /\ s.remove = up[u].remove \cup b /\ s.batch = up[u].batch
    BY NextBatchType, SettledFacts
  <2> HIDE DEF s, b
  <2> QED
    BY <2>1, <2>2, UploaderKeepsInv
<1>3. CASE Outage(u)
  <2> DEFINE s == PassEnded(u)
  <2>1. PICK landed : recorded' = recorded \cup landed
    BY <1>3 DEF Outage
  <2>2. /\ Becomes(u, s) /\ up[u].pc = "send"
        /\ UNCHANGED <<kind, file, torn, garbled, lock, writer, next, accepted, broken, aged, refused, sent>>
    BY <1>3 DEF Outage, Sending
  <2>3. s \in UploaderState
    BY DEF PassEnded, UploaderState
  <2>4. s.pc = up[u].pc /\ s.remove = up[u].remove /\ s.batch = up[u].batch
    BY DEF PassEnded, UploaderState
  <2> HIDE DEF s
  <2> QED
    BY <2>1, <2>2, <2>3, <2>4, UploaderKeepsInv
<1>4. CASE Refuse(u)
  <2> DEFINE b == NextBatch(u)
  <2>1. /\ up[u].pc = "send" /\ b \cap Poison # {}
        /\ UNCHANGED <<kind, file, torn, garbled, lock, writer, next, accepted, broken, aged, recorded, sent>>
    BY <1>4 DEF Refuse, Sending
  <2>2. b \in SUBSET Events
    BY NextBatchType
  <2>3. CASE Cardinality(b) = 1
    <3> DEFINE s == Settled(u, b, b)
    <3>1. Becomes(u, s) /\ refused' = refused \cup b
      BY <1>4, <2>3 DEF Refuse
    <3>2. b \subseteq Poison
      BY <2>1, <2>2, <2>3, SingleBatch
    <3>3. /\ s \in UploaderState /\ s.pc = up[u].pc
          /\ s.remove = up[u].remove \cup b /\ s.batch = up[u].batch
      BY <2>2, SettledFacts
    <3> HIDE DEF s, b
    <3> QED
      BY <2>1, <3>1, <3>2, <3>3, UploaderKeepsInv
  <2>4. CASE Cardinality(b) # 1
    <3> DEFINE s == [up[u] EXCEPT !.alone = b]
    <3>1. Becomes(u, s) /\ refused' = refused
      BY <1>4, <2>4 DEF Refuse
    <3>2. s \in UploaderState
      BY <2>2 DEF UploaderState
    <3>3. s.pc = up[u].pc /\ s.remove = up[u].remove /\ s.batch = up[u].batch
      BY DEF UploaderState
    <3> HIDE DEF s, b
    <3> QED
      BY <2>1, <3>1, <3>2, <3>3, UploaderKeepsInv
  <2> QED
    BY <2>3, <2>4
<1>5. CASE StartRemoval(u)
  <2> DEFINE s == [up[u] EXCEPT !.pc = "rewrite", !.saw = file]
  <2>1. /\ Becomes(u, s) /\ up[u].pc = "send" /\ lock = Nobody /\ lock' = u
        /\ UNCHANGED <<kind, file, torn, garbled, writer, next, accepted, broken, aged,
                       recorded, refused, sent>>
    BY <1>5 DEF StartRemoval
  <2>2. s \in UploaderState
    BY DEF UploaderState
  <2>3. s.pc = "rewrite" /\ s.saw = file /\ s.remove = up[u].remove /\ s.batch = up[u].batch
    BY DEF UploaderState
  <2> HIDE DEF s
  <2> QED
    BY <2>1, <2>2, <2>3, UploaderKeepsInv
<1>6. CASE FinishRemoval(u)
  <2>1. /\ Becomes(u, IdleUploader) /\ up[u].pc = "rewrite"
        /\ file' = up[u].saw \ up[u].remove /\ torn' = FALSE /\ Release(u)
        /\ UNCHANGED <<kind, garbled, writer, next, accepted, broken, aged, recorded, refused, sent>>
    BY <1>6 DEF FinishRemoval
  <2>2. file' = file \ up[u].remove /\ lock = u /\ up[u].batch = {}
    BY <2>1
  <2> QED
    BY <2>1, <2>2, UploaderKeepsInv
<1>7. CASE StartTake(u)
  <2> DEFINE s == [up[u] EXCEPT !.pc = "take", !.saw = file]
  <2>1. /\ Becomes(u, s) /\ up[u].pc = "idle" /\ lock = Nobody /\ lock' = u
        /\ UNCHANGED <<kind, file, torn, garbled, writer, next, accepted, broken, aged,
                       recorded, refused, sent>>
    BY <1>7 DEF StartTake
  <2>2. s \in UploaderState
    BY DEF UploaderState
  <2>3. s.pc = "take" /\ s.saw = file /\ s.remove = up[u].remove /\ s.batch = up[u].batch
    BY DEF UploaderState
  <2> HIDE DEF s
  <2> QED
    BY <2>1, <2>2, <2>3, UploaderKeepsInv
<1>8. CASE FinishTake(u)
  <2> DEFINE taken == Oldest(up[u].saw, BatchSize)
             s == [IdleUploader EXCEPT !.pc = "post", !.batch = taken]
  <2>1. /\ Becomes(u, s) /\ up[u].pc = "take"
        /\ file' = up[u].saw \ taken /\ torn' = FALSE /\ Release(u)
        /\ UNCHANGED <<kind, garbled, writer, next, accepted, broken, aged, recorded, refused, sent>>
    BY <1>8 DEF FinishTake
  <2>2. lock = u /\ up[u].saw = file /\ up[u].batch = {}
    BY <2>1
  <2>3. taken \subseteq file /\ file' = file \ taken
    BY <2>1, <2>2 DEF Oldest
  <2>4. taken \subseteq Events
    BY <2>3
  <2>5. s \in UploaderState
    BY <2>4 DEF UploaderState, IdleUploader
  <2>6. s.pc = "post" /\ s.remove = {} /\ s.batch = taken
    BY DEF IdleUploader
  <2> HIDE DEF s, taken
  <2> QED
    BY <2>1, <2>2, <2>3, <2>5, <2>6, UploaderKeepsInv
<1>9. CASE Post(u)
  <2>1. /\ Becomes(u, IdleUploader) /\ sent' = sent \cup up[u].batch
        /\ UNCHANGED <<kind, file, torn, garbled, lock, writer, next,
                       accepted, broken, aged, recorded, refused>>
    BY <1>9 DEF Post
  <2> QED
    BY <2>1, UploaderKeepsInv
<1>10. CASE StopUploader(u)
  <2>1. /\ Becomes(u, IdleUploader) /\ sent' = sent \cup up[u].batch /\ Release(u)
        /\ UNCHANGED <<kind, file, torn, garbled, writer, next,
                       accepted, broken, aged, recorded, refused>>
    BY <1>10 DEF StopUploader
  <2> QED
    BY <2>1, UploaderKeepsInv
<1> QED
  BY <1>1, <1>2, <1>3, <1>4, <1>5, <1>6, <1>7, <1>8, <1>9, <1>10 DEF UploaderStep

-----------------------------------------------------------------------------
(* Writers.                                                                *)

LEMMA WriterFacts ==
  ASSUME SpoolInv, NEW w \in Writers
  PROVE  /\ writer[w] \in WriterState
         /\ writer[w].pc = "append" =>
              lock = w /\ writer[w].saw = Readable /\ next + writer[w].count <= MaxEvents
         /\ next \in Nat /\ next <= MaxEvents /\ MaxEvents \in Nat
<1>1. next \in 0..MaxEvents
  BY DEF SpoolInv, SpoolTypeOK
<1>2. MaxEvents \in Nat
  BY SpoolAssumption
<1> QED
  BY <1>1, <1>2 DEF SpoolInv, SpoolTypeOK, LockProtects

LEMMA IdleWriterFacts == IdleWriter \in WriterState /\ IdleWriter.pc = "idle"
  BY DEF IdleWriter, WriterState

\* An append that ends with the events `new`: `lost` are the lines it drops.
LEMMA AppendKeepsInv ==
  ASSUME SpoolInv, NEW w \in Writers, writer[w].pc = "append",
         NEW k \in Nat, next + k <= MaxEvents, next' = next + k,
         NEW lost, file' = (file \cup ((next + 1)..(next + k))) \ lost,
         writer' = [writer EXCEPT ![w] = IdleWriter], Release(w),
         torn' \in BOOLEAN, garbled' \in BOOLEAN, torn' => next' \notin accepted',
         \/ accepted' = accepted
         \/ accepted' = accepted \cup ((next + 1)..(next + k)),
         aged \subseteq aged',
         accepted' \cap lost \subseteq aged',
         UNCHANGED <<kind, up, recorded, refused, sent>>
  PROVE  SpoolInv'
<1> DEFINE new == (next + 1)..(next + k)
<1>1. /\ writer[w] \in WriterState /\ lock = w
      /\ next \in Nat /\ next <= MaxEvents /\ MaxEvents \in Nat
  BY WriterFacts
<1>2. /\ new \subseteq Events /\ new \subseteq 1..next' /\ 1..next \subseteq 1..next'
      /\ new \cap (1..next) = {}
      /\ next' \in 0..MaxEvents
  BY <1>1 DEF Events
<1>3. lock' = Nobody
  BY <1>1 DEF Release
<1>4. file' = (file \cup new) \ lost
  OBVIOUS
<1>5. accepted' \subseteq accepted \cup new
  OBVIOUS
<1> HIDE DEF new
<1>6. SpoolTypeOK'
  BY <1>2, <1>3, <1>4, IdleWriterFacts DEF SpoolInv, SpoolTypeOK
<1>7. /\ writer'[w].pc = "idle"
      /\ \A v \in Writers \ {w} : writer'[v] = writer[v]
  BY IdleWriterFacts DEF SpoolInv, SpoolTypeOK
<1>8. LockProtects'
  <2>1. \A v \in Writers : writer'[v].pc # "append"
    BY <1>1, <1>7 DEF SpoolInv, LockProtects
  <2>2. \A u \in Uploaders : up[u].pc \notin {"rewrite", "take"}
    BY <1>1, SpoolAssumption DEF SpoolInv, LockProtects
  <2> QED
    BY <2>1, <2>2 DEF LockProtects
<1>9. RemovalIsEarned' /\ TakenIsSent' /\ OnlyPoisonRefused'
  BY DEF SpoolInv, RemovalIsEarned, TakenIsSent, OnlyPoisonRefused
<1>10. /\ file \subseteq 1..next /\ sent \subseteq 1..next /\ accepted \subseteq 1..next
       /\ \A u \in Uploaders : up[u].batch \subseteq 1..next
       /\ sent \cap file = {}
  BY DEF SpoolInv, NumbersAreFresh
<1>11. NumbersAreFresh'
  BY <1>2, <1>4, <1>5, <1>10 DEF NumbersAreFresh
<1>12. NeverTakenTwice'
  <2>1. \A u \in Uploaders : up[u].batch \cap (file' \cup sent) = {}
    BY <1>2, <1>4, <1>10 DEF SpoolInv, NeverTakenTwice
  <2> QED
    BY <2>1 DEF SpoolInv, NeverTakenTwice
<1>13. AcceptedSurvives'
  BY <1>4, <1>5 DEF SpoolInv, AcceptedSurvives
<1> QED
  BY <1>6, <1>8, <1>9, <1>11, <1>12, <1>13 DEF SpoolInv

LEMMA WriterStepInv ==
  ASSUME SpoolInv, NEW w \in Writers, WriterStep(w)
  PROVE  SpoolInv'
<1>1. ASSUME NEW n \in Together, StartAppend(w, n) PROVE SpoolInv'
  <2> DEFINE s == [pc |-> "append", count |-> n, saw |-> Readable]
  <2>1. /\ writer' = [writer EXCEPT ![w] = s] /\ lock = Nobody /\ lock' = w
        /\ next + n <= MaxEvents
        /\ UNCHANGED <<kind, file, torn, garbled, up, next, accepted, broken, aged,
                       recorded, refused, sent>>
    BY <1>1 DEF StartAppend
  <2>2. n \in Nat /\ Readable \subseteq Events /\ Readable' = Readable
    BY <2>1, SpoolAssumption DEF SpoolInv, SpoolTypeOK, Readable
  <2>3. s \in WriterState /\ s.saw = Readable /\ s.count = n
    BY <2>2 DEF WriterState
  <2> HIDE DEF s
  <2>4. SpoolTypeOK'
    BY <2>1, <2>3 DEF SpoolInv, SpoolTypeOK
  <2>5. /\ \A v \in Writers : writer[v].pc # "append"
        /\ \A u \in Uploaders : up[u].pc \notin {"rewrite", "take"}
    BY <2>1, SpoolAssumption DEF SpoolInv, LockProtects
  <2>6. writer'[w] = s /\ \A v \in Writers \ {w} : writer'[v] = writer[v]
    BY <2>1 DEF SpoolInv, SpoolTypeOK
  <2>7. LockProtects'
    BY <2>1, <2>2, <2>3, <2>5, <2>6 DEF LockProtects
  <2> QED
    BY <2>1, <2>4, <2>7 DEF SpoolInv, RemovalIsEarned, TakenIsSent, NumbersAreFresh,
       AcceptedSurvives, OnlyPoisonRefused, NeverTakenTwice
<1>2. CASE AppendAndTrim(w)
  <2> DEFINE k    == writer[w].count
             new  == (next + 1)..(next + k)
             kept == Newest(writer[w].saw \cup new, Cap)
             lost == (file \cup new) \ kept
  <2>1. /\ writer[w].pc = "append" /\ file' = kept /\ aged' = aged \cup lost
        /\ torn' = FALSE /\ garbled' = FALSE
        /\ next' = next + k /\ accepted' = accepted \cup new
        /\ writer' = [writer EXCEPT ![w] = IdleWriter] /\ Release(w)
        /\ UNCHANGED <<kind, up, recorded, refused, sent>>
    BY <1>2 DEF AppendAndTrim
  <2>2. k \in Nat /\ next + k <= MaxEvents /\ writer[w].saw \subseteq file
    BY <2>1, WriterFacts DEF WriterState, Readable
  <2>3. kept \subseteq file \cup new
    BY <2>2 DEF Newest
  <2>4. file' = (file \cup new) \ lost
    BY <2>1, <2>3
  <2>5. accepted' \cap lost \subseteq aged'
    BY <2>1
  <2> HIDE DEF k, kept, lost
  <2> QED
    BY <2>1, <2>2, <2>4, <2>5, AppendKeepsInv
<1>3. CASE AppendLines(w)
  <2> DEFINE k   == writer[w].count
             new == (next + 1)..(next + k)
  <2>1. /\ writer[w].pc = "append" /\ file' = (file \ Glued) \cup new
        /\ torn' = FALSE /\ garbled' \in BOOLEAN
        /\ next' = next + k /\ accepted' = accepted \cup new
        /\ writer' = [writer EXCEPT ![w] = IdleWriter] /\ Release(w)
        /\ UNCHANGED <<kind, up, aged, recorded, refused, sent>>
    BY <1>3 DEF AppendLines, WriteLines, SpoolInv, SpoolTypeOK
  <2>2. k \in Nat /\ next \in Nat /\ next + k <= MaxEvents
    BY <2>1, WriterFacts DEF WriterState
  <2>3. Glued \cap new = {} /\ Glued \cap accepted = {}
    BY <2>2 DEF Glued, SpoolInv, NumbersAreFresh
  <2>4. file' = (file \cup new) \ Glued
    BY <2>1, <2>3
  <2>5. accepted' \cap Glued \subseteq aged'
    BY <2>1, <2>3
  <2> HIDE DEF k
  <2> QED
    BY <2>1, <2>2, <2>4, <2>5, AppendKeepsInv
<1>4. CASE TearAppend(w)
  <2>1. PICK k \in 1..writer[w].count :
          /\ writer[w].pc = "append" /\ torn' = TRUE /\ garbled' \in BOOLEAN
          /\ next' = next + k
          /\ file' = (file \ Glued) \cup ((next + 1)..(next + k))
          /\ writer' = [writer EXCEPT ![w] = IdleWriter] /\ Release(w)
          /\ UNCHANGED <<kind, up, accepted, aged, recorded, refused, sent>>
    BY <1>4 DEF TearAppend, WriteLines, SpoolInv, SpoolTypeOK
  <2> DEFINE new == (next + 1)..(next + k)
  <2>2. /\ writer[w].count \in Nat /\ next \in Nat /\ MaxEvents \in Nat
        /\ next + writer[w].count <= MaxEvents
    BY <2>1, WriterFacts DEF WriterState
  <2>3. k \in Nat /\ k >= 1 /\ next + k <= MaxEvents
    BY <2>2
  <2>4. Glued \cap new = {} /\ Glued \cap accepted = {}
    BY <2>2, <2>3 DEF Glued, SpoolInv, NumbersAreFresh
  <2>5. file' = (file \cup new) \ Glued
    BY <2>1, <2>4
  <2>6. accepted' \cap Glued \subseteq aged'
    BY <2>1, <2>4
  <2>7. next' \notin accepted'
    BY <2>1, <2>2, <2>3 DEF SpoolInv, NumbersAreFresh
  <2> QED
    BY <2>1, <2>3, <2>5, <2>6, <2>7, AppendKeepsInv
<1>5. CASE KillWriter(w)
  <2>1. /\ writer' = [writer EXCEPT ![w] = IdleWriter] /\ Release(w)
        /\ UNCHANGED <<kind, file, torn, garbled, up, next, accepted, broken, aged,
                       recorded, refused, sent>>
    BY <1>5 DEF KillWriter
  <2>2. SpoolTypeOK'
    BY <2>1, IdleWriterFacts DEF SpoolInv, SpoolTypeOK, Release
  <2>3. writer'[w].pc = "idle" /\ \A v \in Writers \ {w} : writer'[v] = writer[v]
    BY <2>1, IdleWriterFacts DEF SpoolInv, SpoolTypeOK
  <2>4. \A p \in (Writers \cup Uploaders) \ {w} : lock = p => lock' = p
    BY <2>1 DEF Release
  <2>5. LockProtects'
    BY <2>1, <2>3, <2>4, SpoolAssumption DEF SpoolInv, LockProtects, Readable
  <2> QED
    BY <2>1, <2>2, <2>5 DEF SpoolInv, RemovalIsEarned, TakenIsSent, NumbersAreFresh,
       AcceptedSurvives, OnlyPoisonRefused, NeverTakenTwice
<1> QED
  BY <1>1, <1>2, <1>3, <1>4, <1>5 DEF WriterStep

-----------------------------------------------------------------------------
(* The theorems.                                                           *)

LEMMA SpoolNextInv == SpoolInv /\ [SpoolNext]_spoolVars => SpoolInv'
<1> SUFFICES ASSUME SpoolInv, [SpoolNext]_spoolVars PROVE SpoolInv'
  OBVIOUS
<1>1. CASE UNCHANGED spoolVars
  BY <1>1 DEF spoolVars, SpoolInv, SpoolTypeOK, LockProtects, Readable, RemovalIsEarned, TakenIsSent,
     NumbersAreFresh, AcceptedSurvives, OnlyPoisonRefused, NeverTakenTwice
<1>2. CASE SpoolNext
  BY <1>2, WriterStepInv, UploaderStepInv DEF SpoolNext
<1> QED
  BY <1>1, <1>2

\* SpoolInv holds in every state: the lock isolates each read and rewrite of a spool,
\* and what leaves the file is accounted for.
THEOREM SpoolInductive == SpoolSpec => []SpoolInv
<1>1. SpoolInit => SpoolInv
  BY SpoolInitInv
<1>2. SpoolInv /\ [SpoolNext]_spoolVars => SpoolInv'
  BY SpoolNextInv
<1> QED
  BY <1>1, <1>2, PTL DEF SpoolSpec

\* What an append accepted is in the file until it is recorded, refused on its
\* own, taken out to be sent, or the oldest of a full spool.
THEOREM AcceptedEventsSurvive == SpoolSpec => []AcceptedSurvives
<1>1. SpoolInv => AcceptedSurvives
  BY DEF SpoolInv
<1> QED
  BY <1>1, SpoolInductive, PTL

\* A refused batch never takes an event the proxy would have recorded with it.
THEOREM RefusalCostsOnlyItself == SpoolSpec => []OnlyPoisonRefused
<1>1. SpoolInv => OnlyPoisonRefused
  BY DEF SpoolInv
<1> QED
  BY <1>1, SpoolInductive, PTL

\* Two uploaders never send one OTLP record twice.
THEOREM RecordsAreSentOnce == SpoolSpec => []NeverTakenTwice
<1>1. SpoolInv => NeverTakenTwice
  BY DEF SpoolInv
<1> QED
  BY <1>1, SpoolInductive, PTL

-----------------------------------------------------------------------------
(* A flush that met no outage clears what it loaded.                       *)

LEMMA FlushNextInv == SpoolInv /\ FlushInv /\ [SpoolNext]_spoolVars => FlushInv'
<1> SUFFICES ASSUME SpoolInv, FlushInv, [SpoolNext]_spoolVars PROVE FlushInv'
  OBVIOUS
<1>1. CASE UNCHANGED up
  BY <1>1 DEF FlushInv
<1>2. ASSUME NEW u \in Uploaders, UploaderStep(u) PROVE FlushInv'
  <2> DEFINE Clear(s) == ~s.failed =>
               /\ s.pc = "send" => s.loaded \subseteq s.left \cup s.remove
               /\ s.pc = "rewrite" => s.loaded \subseteq s.remove
  <2>1. SUFFICES ASSUME NEW s, Becomes(u, s), Clear(s)
                 PROVE  FlushInv'
    <3>1. ASSUME NEW s, Becomes(u, s), Clear(s) PROVE FlushInv'
      BY <2>1, <3>1
    <3> HIDE DEF Clear
    <3>2. up[u] \in UploaderState /\ Clear(up[u])
      BY DEF SpoolInv, SpoolTypeOK, FlushInv, Clear
    <3>3. Clear(IdleUploader)
      BY DEF IdleUploader, Clear
    <3>4. CASE LoadAll(u)
      BY <3>1, <3>4 DEF LoadAll, IdleUploader, Clear
    <3>5. CASE Deliver(u)
      BY <3>1, <3>2, <3>5 DEF Deliver, Sending, Settled, UploaderState, Clear
    <3>6. CASE Outage(u)
      BY <3>1, <3>2, <3>6 DEF Outage, Sending, PassEnded, UploaderState, Clear
    <3>7. CASE Refuse(u)
      BY <3>1, <3>2, <3>7 DEF Refuse, Sending, Settled, UploaderState, Clear
    <3>8. CASE StartRemoval(u)
      BY <3>1, <3>2, <3>8 DEF StartRemoval, UploaderState, Clear
    <3>9. CASE FinishRemoval(u) \/ Post(u) \/ StopUploader(u)
      BY <3>1, <3>3, <3>9 DEF FinishRemoval, Post, StopUploader
    <3>10. CASE StartTake(u)
      BY <3>1, <3>2, <3>10 DEF StartTake, UploaderState, Clear
    <3>11. CASE FinishTake(u)
      BY <3>1, <3>11 DEF FinishTake, IdleUploader, Clear
    <3> QED
      BY <1>2, <3>4, <3>5, <3>6, <3>7, <3>8, <3>9, <3>10, <3>11 DEF UploaderStep
  <2>2. up'[u] = s /\ \A v \in Uploaders \ {u} : up'[v] = up[v]
    BY <2>1 DEF Becomes, SpoolInv, SpoolTypeOK
  <2> QED
    BY <2>1, <2>2 DEF FlushInv
<1>3. ASSUME NEW w \in Writers, WriterStep(w) PROVE UNCHANGED up
  BY <1>3 DEF WriterStep, StartAppend, AppendAndTrim, AppendLines, WriteLines, TearAppend,
     KillWriter
<1> QED
  BY <1>1, <1>2, <1>3 DEF SpoolNext, spoolVars

\* Nothing a flush loaded is in the file when it has rewritten it, unless it met
\* an outage: no refused event leads the flushes after it.
THEOREM FlushesClear == SpoolSpec => FlushClears
<1> DEFINE A == \A u \in Uploaders :
                 FinishRemoval(u) /\ ~up[u].failed => file' \cap up[u].loaded = {}
<1>1. SpoolInit => FlushInv
  BY DEF SpoolInit, FlushInv, IdleUploader
<1>2. FlushInv /\ [SpoolNext]_spoolVars => [A]_spoolVars
  BY DEF FlushInv, FinishRemoval
<1>3. SpoolSpec => [][A]_spoolVars
  BY <1>1, <1>2, FlushNextInv, SpoolInductive, PTL DEF SpoolSpec
<1> QED
  BY <1>3 DEF FlushClears
=============================================================================
