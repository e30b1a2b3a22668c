------------------------------- MODULE Spool -------------------------------
(***************************************************************************)
(* The two telemetry outboxes of telemetry/spool.rs: commands append events*)
(* to a file of lines, and detached uploader processes send them.          *)
(*                                                                         *)
(* The scope spool removes an event once the proxy has recorded it, or has *)
(* refused it sent on its own.  The OTLP spool takes its records out before*)
(* it sends them.  Every change of the file is a read followed by a        *)
(* rewrite, both under an advisory lock; sending holds no lock.            *)
(*                                                                         *)
(* An event is the number of its append.  Appends are serialised by the    *)
(* lock, so a file of lines is a set of numbers, its oldest line the least.*)
(***************************************************************************)
EXTENDS Naturals, FiniteSets

CONSTANTS
  Writers,     \* commands that append events
  Uploaders,   \* `__telemetry-flush` processes
  MaxEvents,   \* bound: events in a behaviour
  Together,    \* how many events one append may carry
  Cap,         \* MAX_SPOOL_EVENTS
  BatchSize,   \* MAX_EVENTS_PER_BATCH, MAX_RECORDS_PER_REQUEST
  ScopeEvents, \* the scope-selection events; the others are the checks' events
  Poison,      \* events the proxy refuses with a 400 or 422
  Foreign,     \* lines this build cannot parse
  Torn,        \* can an append stop half way through a line (a full disk)?
  Nobody       \* who holds a free lock

Events == 1..MaxEvents

ASSUME SpoolAssumption ==
  /\ MaxEvents \in Nat /\ Together \subseteq Nat \ {0}
  /\ Cap \in Nat \ {0} /\ BatchSize \in Nat \ {0}
  /\ Poison \subseteq Events /\ Foreign \subseteq Events
  /\ Torn \in BOOLEAN
  /\ Writers \cap Uploaders = {} /\ Nobody \notin Writers \cup Uploaders

WriterState == [pc : {"idle", "append"}, count : Nat, saw : SUBSET Events]

UploaderState == [pc     : {"idle", "send", "rewrite", "take", "post"},
                  loaded : SUBSET Events, \* what it read
                  left   : SUBSET Events, \* still to send
                  alone  : SUBSET Events, \* to send one at a time
                  remove : SUBSET Events, \* to drop from the file
                  failed : BOOLEAN,       \* it met an outage
                  saw    : SUBSET Events, \* the file as read under the lock
                  batch  : SUBSET Events] \* OTLP records taken out

VARIABLES
  kind,      \* "scope" or "otlp": which of the two spools this is
  file,      \* the events whose lines the file holds
  torn,      \* the file's last line has no newline
  garbled,   \* the file holds a character that was cut in two: no read succeeds
  lock,      \* who holds the lock
  writer,    \* the appending commands
  up,        \* the uploaders
  next,      \* events appended so far
  \* history variables
  accepted,  \* events whose append reported success
  broken,    \* events whose line nobody can parse any more
  aged,      \* dropped as the oldest of a full spool
  recorded,  \* on record at the proxy
  refused,   \* refused by the proxy on their own
  sent       \* OTLP records some uploader has dealt with

spoolVars == <<kind, file, torn, garbled, lock, writer, up, next,
               accepted, broken, aged, recorded, refused, sent>>

IdleWriter == [pc |-> "idle", count |-> 0, saw |-> {}]

IdleUploader == [pc |-> "idle", loaded |-> {}, left |-> {}, alone |-> {},
                 remove |-> {}, failed |-> FALSE, saw |-> {}, batch |-> {}]

SpoolInit ==
  /\ kind \in {"scope", "otlp"}
  /\ file = {} /\ torn = FALSE /\ garbled = FALSE
  /\ lock = Nobody
  /\ writer = [w \in Writers |-> IdleWriter]
  /\ up = [u \in Uploaders |-> IdleUploader]
  /\ next = 0
  /\ accepted = {} /\ broken = {} /\ aged = {} /\ recorded = {} /\ refused = {} /\ sent = {}

\* The n oldest and the n newest lines of S.
Oldest(S, n) == {e \in S : Cardinality({d \in S : d < e}) < n}
Newest(S, n) == {e \in S : Cardinality({d \in S : d > e}) < n}

-----------------------------------------------------------------------------
(* append_lines.                                                           *)

\* The lines that reading the whole file yields: none when read_to_string fails.
Readable == IF garbled THEN {} ELSE file

\* Take the lock and read the file.  (Without the lock the events are dropped
\* and nothing changes.)
StartAppend(w, n) ==
  /\ writer[w].pc = "idle"
  /\ next + n <= MaxEvents
  /\ lock = Nobody
  /\ lock' = w
  /\ writer' = [writer EXCEPT ![w] = [pc |-> "append", count |-> n, saw |-> Readable]]
  /\ UNCHANGED <<kind, file, torn, garbled, up, next, accepted, broken, aged, recorded, refused, sent>>

Full(w) == Cardinality(writer[w].saw) + writer[w].count > Cap

Release(p) == lock' = IF lock = p THEN Nobody ELSE lock

\* The lines that were read reach the cap: the file is rewritten with the newest.
AppendAndTrim(w) ==
  LET new  == (next + 1)..(next + writer[w].count)
      kept == Newest(writer[w].saw \cup new, Cap)
  IN  /\ writer[w].pc = "append"
      /\ Full(w)
      /\ file' = kept
      /\ aged' = aged \cup ((file \cup new) \ kept)
      /\ torn' = FALSE
      /\ garbled' = FALSE
      /\ next' = next + writer[w].count
      /\ accepted' = accepted \cup new
      /\ broken' = broken \cup (new \cap Foreign)
      /\ writer' = [writer EXCEPT ![w] = IdleWriter]
      /\ Release(w)
      /\ UNCHANGED <<kind, up, recorded, refused, sent>>

\* A last line without its newline is the last event appended: the next line
\* written is glued to it.
Glued == IF torn THEN {next} ELSE {}

\* Lines `new` written at the end of the file.  Nobody can parse a line glued to
\* the rest of another one.
WriteLines(w, new) ==
  /\ writer[w].pc = "append"
  /\ ~Full(w)
  /\ file' = (file \ Glued) \cup new
  /\ writer' = [writer EXCEPT ![w] = IdleWriter]
  /\ Release(w)
  /\ UNCHANGED <<kind, up, aged, recorded, refused, sent>>

Unparsable(new) == (new \cap Foreign) \cup (IF torn THEN {next + 1} ELSE {})

AppendLines(w) ==
  LET new == (next + 1)..(next + writer[w].count)
  IN  /\ WriteLines(w, new)
      /\ torn' = FALSE
      /\ next' = next + writer[w].count
      /\ accepted' = accepted \cup new
      /\ broken' = broken \cup Unparsable(new)
      /\ UNCHANGED garbled

\* The disk fills up, or the command dies, half way through one of the lines and
\* perhaps of one of its characters.
TearAppend(w) ==
  \E k \in 1..writer[w].count :
    LET new == (next + 1)..(next + k)
    IN  /\ Torn
        /\ WriteLines(w, new)
        /\ torn' = TRUE
        /\ garbled' \in {garbled, TRUE}
        /\ next' = next + k
        /\ broken' = broken \cup Unparsable(new) \cup {next + k}
        /\ UNCHANGED accepted

KillWriter(w) ==
  /\ writer[w].pc # "idle"
  /\ writer' = [writer EXCEPT ![w] = IdleWriter]
  /\ Release(w)
  /\ UNCHANGED <<kind, file, torn, garbled, up, next, accepted, broken, aged, recorded, refused, sent>>

-----------------------------------------------------------------------------
(* flush: the uploader of the scope spool.                                 *)

Becomes(u, s) == up' = [up EXCEPT ![u] = s]

\* The lines this build can parse, read without the lock.
LoadAll(u) ==
  /\ kind = "scope"
  /\ up[u].pc = "idle"
  /\ Readable \ broken # {}
  /\ Becomes(u, [IdleUploader EXCEPT !.pc = "send",
                                     !.loaded = Readable \ broken, !.left = Readable \ broken])
  /\ UNCHANGED <<kind, file, torn, garbled, lock, writer, next,
                 accepted, broken, aged, recorded, refused, sent>>

\* The stream being sent: the scope events, and once they are through the
\* checks' events.
Stream(u) ==
  LET scope == up[u].left \cap ScopeEvents IN IF scope # {} THEN scope ELSE up[u].left

\* The next request: one of the events to be sent alone, or the next chunk.
NextBatch(u) ==
  IF up[u].alone # {} THEN Oldest(up[u].alone, 1) ELSE Oldest(Stream(u), BatchSize)

\* The uploader has nothing more to do with these events, and will drop `remove`.
Settled(u, batch, remove) ==
  [up[u] EXCEPT !.left = up[u].left \ batch, !.alone = up[u].alone \ batch,
                !.remove = up[u].remove \cup remove]

\* An outage ends the stream's pass.
PassEnded(u) == [up[u] EXCEPT !.left = up[u].left \ Stream(u), !.alone = {}, !.failed = TRUE]

Sending(u) == up[u].pc = "send" /\ up[u].left # {}

\* The proxy records the whole batch.
Deliver(u) ==
  LET batch == NextBatch(u)
  IN  /\ Sending(u)
      /\ batch \cap Poison = {}
      /\ recorded' = recorded \cup batch
      /\ Becomes(u, Settled(u, batch, batch))
      /\ UNCHANGED <<kind, file, torn, garbled, lock, writer, next, accepted, broken, aged, refused, sent>>

\* An outage: some of the batch may have landed.  The stream's pass ends.
Outage(u) ==
  /\ Sending(u)
  /\ \E landed \in SUBSET (NextBatch(u) \ Poison) : recorded' = recorded \cup landed
  /\ Becomes(u, PassEnded(u))
  /\ UNCHANGED <<kind, file, torn, garbled, lock, writer, next, accepted, broken, aged, refused, sent>>

\* Mutant of Refuse: a refused chunk is dropped whole.
MutDropChunk(u) ==
  LET batch == NextBatch(u)
  IN  /\ Sending(u)
      /\ batch \cap Poison # {}
      /\ refused' = refused \cup batch
      /\ Becomes(u, Settled(u, batch, batch))
      /\ UNCHANGED <<kind, file, torn, garbled, lock, writer, next, accepted, broken, aged, recorded, sent>>

\* Mutant of Refuse: a refused chunk is an outage like any other.
MutKeepRefused(u) ==
  /\ Sending(u)
  /\ NextBatch(u) \cap Poison # {}
  /\ Becomes(u, [PassEnded(u) EXCEPT !.failed = up[u].failed])
  /\ UNCHANGED <<kind, file, torn, garbled, lock, writer, next,
                 accepted, broken, aged, recorded, refused, sent>>

\* The proxy refuses a batch for one of its events: a chunk is sent again one
\* event at a time, an event on its own is dropped.
Refuse(u) ==
  LET batch == NextBatch(u)
      single == Cardinality(batch) = 1
  IN  /\ Sending(u)
      /\ batch \cap Poison # {}
      /\ refused' = IF single THEN refused \cup batch ELSE refused
      /\ Becomes(u, IF single THEN Settled(u, batch, batch)
                                 ELSE [up[u] EXCEPT !.alone = batch])
      /\ UNCHANGED <<kind, file, torn, garbled, lock, writer, next, accepted, broken, aged, recorded, sent>>

\* Mutant of StartRemoval: the file is rewritten from what was loaded.
MutRemoveFromLoaded(u) ==
  /\ up[u].pc = "send" /\ up[u].left = {} /\ up[u].remove # {}
  /\ lock = Nobody
  /\ lock' = u
  /\ Becomes(u, [up[u] EXCEPT !.pc = "rewrite", !.saw = up[u].loaded])
  /\ UNCHANGED <<kind, file, torn, garbled, writer, next, accepted, broken, aged, recorded, refused, sent>>

\* remove_delivered: take the lock and read the raw lines again.
StartRemoval(u) ==
  /\ up[u].pc = "send" /\ up[u].left = {} /\ up[u].remove # {}
  /\ lock = Nobody
  /\ ~garbled
  /\ lock' = u
  /\ Becomes(u, [up[u] EXCEPT !.pc = "rewrite", !.saw = file])
  /\ UNCHANGED <<kind, file, torn, garbled, writer, next, accepted, broken, aged, recorded, refused, sent>>

\* The other lines stay, the ones this build cannot parse included.
FinishRemoval(u) ==
  /\ up[u].pc = "rewrite"
  /\ file' = up[u].saw \ up[u].remove
  /\ torn' = FALSE
  /\ Becomes(u, IdleUploader)
  /\ Release(u)
  /\ UNCHANGED <<kind, garbled, writer, next, accepted, broken, aged, recorded, refused, sent>>

-----------------------------------------------------------------------------
(* take: the uploader of the OTLP spool.                                   *)

\* Mutant of StartTake: reads the records without the lock.
MutTakeUnlocked(u) ==
  /\ kind = "otlp"
  /\ up[u].pc = "idle"
  /\ Readable # {}
  /\ Becomes(u, [up[u] EXCEPT !.pc = "take", !.saw = file])
  /\ UNCHANGED <<kind, file, torn, garbled, lock, writer, next,
                 accepted, broken, aged, recorded, refused, sent>>

StartTake(u) ==
  /\ kind = "otlp"
  /\ up[u].pc = "idle"
  /\ Readable # {}
  /\ lock = Nobody
  /\ lock' = u
  /\ Becomes(u, [up[u] EXCEPT !.pc = "take", !.saw = file])
  /\ UNCHANGED <<kind, file, torn, garbled, writer, next, accepted, broken, aged, recorded, refused, sent>>

\* The oldest records leave the file before anybody sends them.
FinishTake(u) ==
  LET taken == Oldest(up[u].saw, BatchSize)
  IN  /\ up[u].pc = "take"
      /\ file' = up[u].saw \ taken
      /\ torn' = FALSE
      /\ Becomes(u, [IdleUploader EXCEPT !.pc = "post", !.batch = taken])
      /\ Release(u)
      /\ UNCHANGED <<kind, garbled, writer, next, accepted, broken, aged, recorded, refused, sent>>

\* The request ends, with the records accepted, rejected or dropped.
Post(u) ==
  /\ up[u].pc = "post"
  /\ sent' = sent \cup up[u].batch
  /\ Becomes(u, IdleUploader)
  /\ UNCHANGED <<kind, file, torn, garbled, lock, writer, next,
                 accepted, broken, aged, recorded, refused>>

\* An uploader dies, gives up on the lock, has nothing to remove, or cannot read
\* the file to remove it from.
StopUploader(u) ==
  /\ up[u].pc # "idle"
  /\ sent' = sent \cup up[u].batch
  /\ Becomes(u, IdleUploader)
  /\ Release(u)
  /\ UNCHANGED <<kind, file, torn, garbled, writer, next, accepted, broken, aged, recorded, refused>>

WriterStep(w) ==
  \/ \E n \in Together : StartAppend(w, n)
  \/ AppendAndTrim(w) \/ AppendLines(w) \/ TearAppend(w)
  \/ KillWriter(w)

UploaderStep(u) ==
  \/ LoadAll(u) \/ Deliver(u) \/ Outage(u) \/ Refuse(u) \/ StartRemoval(u) \/ FinishRemoval(u)
  \/ StartTake(u) \/ FinishTake(u) \/ Post(u)
  \/ StopUploader(u)

SpoolNext == (\E w \in Writers : WriterStep(w)) \/ (\E u \in Uploaders : UploaderStep(u))

SpoolSpec == SpoolInit /\ [][SpoolNext]_spoolVars

-----------------------------------------------------------------------------
(* Properties.                                                             *)

SpoolTypeOK ==
  /\ kind \in {"scope", "otlp"}
  /\ file \subseteq Events
  /\ torn \in BOOLEAN
  /\ garbled \in BOOLEAN
  /\ lock \in Writers \cup Uploaders \cup {Nobody}
  /\ writer \in [Writers -> WriterState]
  /\ up \in [Uploaders -> UploaderState]
  /\ next \in 0..MaxEvents

\* "Durability holds for an event the spool actually accepts": it is still in
\* the file, or on record at the proxy, or was refused on its own, or aged out
\* of a full spool, or was taken out by an OTLP uploader.
AcceptedSurvives ==
  accepted \subseteq
    file \cup recorded \cup refused \cup aged \cup sent \cup UNION {up[u].batch : u \in Uploaders}

\* "A refused event costs only itself": nothing the proxy would have taken is
\* dropped with it.
OnlyPoisonRefused == refused \subseteq Poison

\* Refused events never lead later flushes: an uploader that met no outage
\* leaves none of the events it loaded in the file.
FlushClears ==
  [][\A u \in Uploaders :
       FinishRemoval(u) /\ ~up[u].failed => file' \cap up[u].loaded = {}]_spoolVars

\* "Two uploaders never send one record twice": a record that an uploader has
\* taken is neither in the file nor with another uploader, now or before.
NeverTakenTwice ==
  \A u \in Uploaders :
    /\ up[u].batch \cap (file \cup sent) = {}
    /\ \A v \in Uploaders \ {u} : up[u].batch \cap up[v].batch = {}

-----------------------------------------------------------------------------
(* The inductive invariant.                                                *)

\* Whoever is between its read and its rewrite holds the lock, and the file still
\* reads as it did.
LockProtects ==
  /\ \A w \in Writers : writer[w].pc = "append" =>
       lock = w /\ writer[w].saw = Readable /\ next + writer[w].count <= MaxEvents
  /\ \A u \in Uploaders : up[u].pc \in {"rewrite", "take"} => lock = u /\ up[u].saw = file

\* Records are taken out of the file only to be sent.
TakenIsSent == \A u \in Uploaders : up[u].pc # "post" => up[u].batch = {}

\* Only what the proxy recorded or refused is to be removed.
RemovalIsEarned == \A u \in Uploaders : up[u].remove \subseteq recorded \cup refused

\* What was taken has been appended, so a later append cannot bring it back, and
\* a torn line's event was never accepted.
NumbersAreFresh ==
  /\ file \subseteq 1..next
  /\ sent \subseteq 1..next
  /\ accepted \subseteq 1..next
  /\ \A u \in Uploaders : up[u].batch \subseteq 1..next
  /\ sent \cap file = {}
  /\ torn => next \notin accepted

\* An uploader that met no outage has still to send, or will remove, each event
\* it loaded.
FlushInv ==
  \A u \in Uploaders : ~up[u].failed =>
    /\ up[u].pc = "send" => up[u].loaded \subseteq up[u].left \cup up[u].remove
    /\ up[u].pc = "rewrite" => up[u].loaded \subseteq up[u].remove

SpoolInv ==
  /\ SpoolTypeOK
  /\ LockProtects
  /\ RemovalIsEarned
  /\ TakenIsSent
  /\ NumbersAreFresh
  /\ AcceptedSurvives
  /\ OnlyPoisonRefused
  /\ NeverTakenTwice
=============================================================================
