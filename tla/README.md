# A verification project for `actual`

TLA+ modules for the parts of the `actual` CLI (a Rust program) whose correctness
depends on the order of events: processes that share files, locks, an auth server
that rotates tokens, outages, kills and power losses. TLC checks small instances of
the modules; TLAPS proves the main properties for every value of the constants.

Paths below are relative to the repository root, so the crate's code is under `src/`
and its helper crates under `crates/`.

* [1 Inventory](#1-inventory): the system's parts, their state, what is hard
* [2 Conventions of the models](#2-conventions-of-the-models)
* [3 Modules](#3-modules): state, actions, code, properties, bounds, abstractions
* [4 Runs](#4-runs) and what they show
* [5 Proofs](#5-proofs)
* [6 Where the code and its documentation disagree](#6-where-the-code-and-its-documentation-disagree)
* [7 Not modelled](#7-not-modelled)
* [8 Plan](#8-plan)

## 1 Inventory

`actual` is not a server. It is started by a person, by Claude Code hooks, or by
itself in the background, does one thing and exits. Several such processes run at the
same time and meet in the files of the config directory (`~/.actualai/actual`) and at
the remote services. What is hard is almost always one of: *a read, a slow step, and a
write based on the read*; *a process that dies between two steps*; *a remote call
whose effect and whose answer can part company*.

| Component | State it keeps | Operations | Talks to | Hard behaviour | Correct when |
|---|---|---|---|---|---|
| Governance loop (`cli/commands/plan_check.rs`, `impl_check.rs`, `check_engine.rs`, `governance_session.rs`) | one session file per session and rules directory: overrides, and per gate the round count, clearances, deny counts; the turn-start commit; an append-only audit log | the plan hook, the diff hook, `check-override`, the turn-start record, pruning | Claude Code (hooks, kills), the judge model, `write_secure` | a hook judges for up to minutes between its load and its store; no lock; 40-rule cap with a rotating window | no pass is unearned, unjustified or unaudited; overrides are honoured and shown; denials are bounded; every rule is judged in the end |
| Secure file writes (`config/paths.rs`) | a file and its staging sibling `<path>.tmp` | `write_secure`, `remove_secure`, `append_secure` | every component that persists something | two system calls in the wrong order; one staging name for all writers; leftovers of dead writers | a reader finds a whole content; a removal leaves no copy |
| Stored sign-in (`auth/store.rs`, `refresh.rs`, `oauth.rs`, `telemetry/sign_in.rs`, `cli/commands/login.rs`, `logout.rs`) | `credentials.yaml` and its lock file; each process's copy in memory; the server's sessions | renew, log in (browser or device), log out, the uploader's bounded wait | the auth server, the user's browser | a refresh token is good for one renewal: a stale copy presented twice ends the session; a device code lives for a time the client can only count by its sleeps | the stored token is the honoured one; a confirmed sign-out leaves nothing alive; nobody waits for ever; a device code is not given up early nor polled too soon |
| Telemetry spools and uploader (`telemetry/spool.rs`, `plan_governance.rs`, `otlp.rs`, `cli/commands/telemetry_flush.rs`) | two files of lines, each with a lock file | append, flush (load, send in chunks, remove), take | the ingestion proxy, the OTLP collector | sending takes seconds and holds no lock; outages, refusals, a cap, torn lines | no accepted event vanishes; a refusal costs one event; no record is sent twice |
| Runners (`runner/`) | a child process or an HTTP request, timers, watched output | run, stream, retry | Claude Code, Codex, Cursor, Anthropic, OpenAI | result, timeout, rate limit and abort race each other | a run ends, its child too, and the error is the cause |
| Tailoring (`tailoring/`) | permits, a FIFO queue for them, per-project timeouts, collected outputs, a channel of progress events | run projects and batches concurrently, ask once more, cancel | runners, the sync UI | fail-fast drops started work; completion order; timeouts that include queueing; events left unread when the run ends | output does not depend on timing; the progress shown is true; a run ends |
| Rule brief ledger and memory (`cli/commands/brief_ledger.rs`, `brief_memory.rs`, `rules_brief.rs`, `session_summary.rs`) | per session a record of what was briefed, reported and worked on, under a lock with a bounded wait; per agent a memory of what its context was told, under none | brief, gate round, summary, reset, pruning | hooks of one session at once, Claude Code's hook timeout | the same read-modify-write, here with a lock that may be given up on; a kill between remembering and saying | writers lose nothing that was accepted; nothing is reported or shown twice; nothing is withheld that was not said |
| Rule corpus (`rules/`) | none | parse, discover, scope, rank | the ranker model | pure algorithms with edge cases | selection is deterministic and total |
| Judge (`rules/check.rs`) | none | prompt, parse verdicts | runners | a model's answer that lacks or repeats rules | one verdict per rule, the worst on a duplicate |
| Generation (`generation/`) | a managed block with one section per ADR in the user's files | parse markers, merge, budget, minor changes, write | the file system, the author of the file | a file goes through many syncs and edits; files changed between read and write; a write that is cut short | text outside the block is kept; the block says what was agreed |
| Sync (`cli/commands/sync/`, `sync_wiring.rs`, `sync_kb_poller.rs`) | the last tailoring, in the config file; ADR documents | fetch, tailor or reuse, confirm, write; `cache clear` | API, tailoring, generation | a reused tailoring whose key lacks an input; partial failure over many files; a config loaded minutes before it is saved | writes what was confirmed; reuses what was made for the same inputs |
| API client (`api/`) | none | requests with retries | the API | what is safe to retry, for how long | bounded retries |
| Analysis (`analysis/`) | none | detectors and signals over a working tree | — | sequential and pure | — |
| Terminal UI (`cli/ui/`), configuration (`config/`), self update (`self_update.rs`, `update_check.rs`, `release_verify.rs`), tokens (`create_token.rs`, `mint_token.rs`), `crates/release-sign`, `crates/tui-test` | one file each, or none | — | — | see §7 | — |

How the parts interact: both hooks write their session with `write_secure`; the spools
and the stored sign-in write with it under a lock; every command may append to both
spools and start a detached uploader, which needs the stored sign-in and may renew it;
`logout` deletes with `remove_secure`. A sync calls tailoring, tailoring a runner per
batch, and what comes back goes through the merge into the context files and, as the
last tailoring, into the config file, which `write_secure` replaces. A brief, a gate
and a summary change the record of their session while any of them may be killed.
`PROJECT.json` lists the hazards line by line
and the properties aimed at each.

## 2 Conventions of the models

* One action is one step another process can observe the edges of: a read of a shared
  file, a rewrite, a request and its answer. Work in memory between two of them belongs
  to the step before it.
* A process that may die has a `Kill`/`Stop` action enabled at every step. An
  operating-system lock dies with its holder.
* Data is abstracted to what properties tell apart: a rule is its place in the order, a
  text is the name of its digest, an event is the number of its append, a refresh token
  is its number within its session.
* Bounds are named: `MaxStarts`, `MaxEvents`, `MaxSessions`, `MaxRenewals`, `MaxSyncs`,
  and the capacity constants of the code (`MaxRulesJudged`, `Cap`, `BatchSize`,
  `MaxRounds`, `CharLimit`, `MaxManaged`, `Limit`) scaled down. All are parameters; the proofs hold for every value.
* History variables are marked where they are declared. No guard reads one (but for the
  bound on `started`).
* Operators named `Mut...` are plausible bugs of the operator below them. Nothing uses
  them; they document what each property catches, and substituting one for its original
  makes TLC report the property violated.
* A renaming or removal, once made, is taken to be durable in the order it was made:
  the code syncs files, not directories, and the models do not question that.

## 3 Modules

| Module | What it is |
|---|---|
| `JudgedWindow` | operators: which rules one judge call sees under the cap |
| `GovernanceLedger` | abstract specification: a session's memory updated in single steps |
| `GovernanceLoop` | the hooks, the override command, the session file, the audit log |
| `GovernanceLoopProofs` | its theorems with overlap and, in its second half, those without, among them that the session file implements `GovernanceLedger` |
| `AtomicFile` | abstract specification: a write takes effect in one step, once, or never |
| `SecureFile` | `write_secure` and `remove_secure`, system call by system call |
| `Spool` | the two telemetry spools |
| `FileProofs` | the theorems of `SecureFile`, among them that the locked case implements `AtomicFile`, and of `Spool` |
| `SignIn` | the stored sign-in and the server's rotation |
| `DeviceSignIn` | the polling of `login --device`, with a clock |
| `SignInProofs` | the theorems of both |
| `Runner`, `RunnerProofs` | one streaming run of Claude Code |
| `Selection` | operator: the items of a sequence at given places, in their order |
| `SelectionProofs` | lemmas: induction and recursion over numbers, what a selection and a concatenation of sequences are |
| `TailoringOutputs` | operators: packing ADRs into batches, checking an answer, merging outputs |
| `TailoringProgress` | abstract specification: what the user may be shown of a run |
| `Tailoring`, `TailoringProofs` | projects, batches, permits, calls, timeouts, events, cancelling |
| `BriefLedger` | operators: the record of a session and the changes made to it |
| `Brief`, `BriefProofs` | the hooks that brief, report and sum up, the record's lock, the memories |
| `ManagedFile` | operators: a context file, its managed block, merge, budget, minor changes |
| `Sync`, `SyncProofs` | a sync from the config to the last write, the author, `cache clear` |
| `MCGovernance`, `MCSecureFile`, `MCSignIn`, `MCDeviceSignIn`, `MCSpool`, `MCRunner`, `MCTailoring`, `MCBrief`, `MCSync` | instances, views and symmetries for TLC |

### 3.1 JudgedWindow and GovernanceLoop

State: `session` is the file `governance_session::load` reads; `audit` the log; `hook`
one record per hook process, its `pc` naming the next effect other processes can see;
`human` the `check-override` process; `printed` the last answer.

| Action | Code |
|---|---|
| `StartHook` | `exec_hook_with` up to the judge: load, `gather_rules` with `select_judged_window` |
| `FailOpen` | the returns of `finish_hook` that print a notice and change nothing |
| `Judged` | `finish_verdicts`: counting the round, `record_denial`, clearances, the decision |
| `RecordRoundLimit`, `StoreSession`, `RecordPartialCoverage`, `PrintAnswer` | its audit entries, `store` and `emit`, in the code's order |
| `Kill` | Claude Code ends a hook that outlasts its timeout |
| `StartTurn`, `RecordTurnStart` | impl-check's `UserPromptSubmit` branch |
| `StartOverride`, `PushOverride`, `StoreOverride`, `KillOverride` | `exec_override_impl`, one audit entry per rule, then the store |
| `PruneStale` | `prune_stale` in another session's store |

`Overlap` says whether two processes of one session may run at the same time. Claude
Code runs a session's hooks one after the other most of the time, yet nothing in the
code makes sure of it, and `check-override` is run by hand in another terminal. So the
project separates what holds in any case (`TypeOK`, `LimitPassEarned`, `PassAudited`,
`CleanPassJustified`, `OverrideAudited`: checked *and proved* with overlap) from what
holds only without overlap (`OverrideHonoured`, `BudgetedDeny`, `AtomicSession`,
`NoRuleStarves`: checked and proved too). A store that races another one has
the outcomes `SecureFile`'s unlocked case produces: it is installed, it is lost, or the
file is damaged, which `load` reads as an empty session. That goes for both of the two:
`raced` remembers, when the first of them has stored, that the other was at its store
(`OthersStore`).

`AtomicSession` is the refinement: seen through the session file, non-overlapping
processes are `GovernanceLedger`, where each round, override and turn start is applied
in one step and a round of one gate leaves the other gate's loop alone. It says nothing of
the races of overlapping processes: what those cost is in §6, and what they may never lead
to are the four properties of `gov_overlap`, whose processes are hooks of both gates, turn
starts and `check-override`.

Abstractions: selection is a constant (`Applies`); every artifact sees the rules in
the same order; the judge may return any verdict for each rule it was given. Audit
entries are a set and always reach the log: the code ignores an I/O error of the
append and of the store (`let _ =`), and with such an error "audited" would mean
"attempted". The per-folder briefs of a plan keep nothing in the session and are left
out.

Note for readers of the code: the round-limit message counts the round that is let
through as well, so it speaks of `max_rounds + 1` rounds.

### 3.2 SecureFile and AtomicFile

State: `disk` maps inode numbers to block sequences, `stable` is the set of synced
inodes, `path` and `tmp` are the two directory entries, `proc` the processes with
descriptor and position. `Open`, `WriteBlock`, `Sync`, `Rename` are `write_secure`;
`RemoveFile`, `RemoveStaged` are `remove_secure`; `Stop` is a kill or an I/O error in
between; `PowerLoss` cuts unsynced files short. `Locked` is what the caller does: the
stored sign-in, the spools and the ledger hold an exclusive lock, the governance
session, the config and the caches do not. The inode a process writes to is the one it
opened, whatever the name stands for later: this is how two unlocked writers damage
each other's file.

`AtomicFile` is what the callers rely on: a process asks for a content (`asked`), and
either that content is put in place, in one step and once, or the process gives up and its
content never appears. That is more than `NeverPartial`, which any whole content of any
writer satisfies. A writer that died leaves a whole content in the staging file; a later
one that adopted it (`MutAdoptStaged`) would install, whole and under the lock, what nobody
asks for any more, and only the refinement notices.

### 3.3 SignIn

State: `file`, `lock`, `proc` (with the copy of the sign-in each process has in
memory), and the server's `current` refresh token per session, `ended` and `issued`
sessions. `StartRenewal`/`AcquireForRenewal`/`GiveUp` are `ensure_fresh`,
`refresh_held` and the uploader's `renewed`; `Renew`/`LoseRenewal`/`RenewalFails` the
outcomes of `refresh_tokens`; `Login`/`SaveLogin` the login command, whose flow takes
minutes and holds no lock; `StartLogout` is the logout that comes to `store::lock`,
`AcquireForLogout` its lock with the read under it, `Revoke`/`RevokeFails`/`Delete` the rest.
A logout that waits for the lock is a waiter like any other to `NobodyWaitsForever`.
`LoseRenewal` and `Kill` in `save` are the two ways a rotation is lost: the server has
moved on and nobody stores its answer. The properties name that case instead of
assuming it away (`lost`).

A save and a delete are single steps, which `SecureFile`'s locked case justifies. Left
out: sign-ins that carry no `auth_url`, and a credentials file that cannot be read.
Signing in again replaces a session without revoking it; the model shows the same.

### 3.4 Spool

State: `kind` chooses the spool, `file` the set of events on disk (order is number
order, since appends hold the lock), `torn` whether the last line lacks its newline,
`garbled` whether it holds a character that was cut in two, in which case
`read_to_string` fails and whoever reads the spool finds nothing (`Readable`),
`lock`, the appending `writer`s and the uploaders `up`. `StartAppend`, `AppendLines`,
`AppendAndTrim` are `append_lines`; `TearAppend` an append that stops half way through
a line, and perhaps through a character; `LoadAll`, `Deliver`, `Outage`, `Refuse` are `flush` with its chunks, its
one-at-a-time retry after a refusal and its two streams; `StartRemoval`,
`FinishRemoval` are `remove_delivered`; `StartTake`, `FinishTake`, `Post` are the OTLP
uploader. Between the read and the rewrite of every change other processes may do what
the lock lets them.

Left out: splitting requests by how they are authorised, the flush that only discards
when telemetry is switched off, the retries inside one OTLP request. A tear within a
line is modelled, a tear exactly between two lines is an append of fewer events that
reports failure and costs nothing the properties speak of. An event on a line that was
glued to a torn one, or in a file nobody can read, counts as in the file for
`AcceptedSurvives`: nothing removed it, yet nothing will send it (§6).

### 3.5 Runner

State: `child`, the lines in its two pipes (`out`, `err`), the `reader` and the
`drainer` with the last line and how often it came in a row, the notice's `permit` and
message `msg`, and `run`: in the `select`, in the `await` of the drainer, or
`returned`. `DrainLine`/`DrainEnd` are `stderr_task`; `ReadLine`/`ReadResult`/`ReadEnd`
are `find_result`, which runs only while the select polls it, so that its last step is
also the step that leaves the select; `TimeOut` and `Abort` are the other two arms, and
only `Abort` kills the child; `Return` is the end of each arm after it has awaited the
drainer. `SayOnStdout`, `SayOnStderr`, `WriteResult` and `Exit` are the child, which may
do anything but write after its result. Which arm is taken when several are ready is
open, as it is in `tokio::select!`.

A caller that listens to no events (`watched` false) has no repetition looked for on
stdout. Left out: failing to spawn, lines that do not parse, processes the child leaves
behind that keep a pipe open, a caller that drops the run.

### 3.6 TailoringOutputs, TailoringProgress and Tailoring

`create_batches` is `CreateBatches`: `PackCategory` for one category after the other, in
their order. `validate_and_filter_output` is `Refused` and `Filtered`, `merge_outputs`
is `MergeOutputs`. An answer is a sequence of files and may name a path twice, which the
code checks nowhere; its files at one path are put together in `Filtered` (each by
`OwnFile`), as the merge that every answer then goes through would. In `Tailoring`, `permits` and `queue` are the tokio semaphore, which
is fair: a permit goes to the batch that has waited longest. `Start` is the first poll
of a project's future (one task polls all of them, so nothing runs before every project
has started), `Grant` the permit and the call, `Retry` the second call after an answer
that does not parse, made under the same permit, `BatchDone` and `Fail` its end,
`Timeout` the project's `tokio::time::timeout`, which runs from the start and so counts
the time spent in the queue. `Stop` is fail-fast: the join drops every other project
with its child processes. `Apply` and `Return` are the loop of `pipeline.rs` that shows
events and drains the channel once the run is over; `Cancel` is Ctrl-C or `q`.

`ImplementsProgress` is the refinement: whatever the order of calls and events, what the
user is shown is a behaviour of `TailoringProgress`. Runners answer from a set that
holds a right answer, sections for foreign ADRs and twice for one, nothing at all, an
empty file and a file outside the format.

Left out: the prompt and the bundling of repository files, the reasons for skipped ADRs
and the counts, which follow from the rest. `Runner` is the call of a runner seen from
inside; here a call ends some time, or not.

### 3.7 BriefLedger and Brief

State: `memory` (one file per agent), `ledger` and `lock`, and `proc`, the hooks: a hook
has an `agenda` of changes to the record it makes one after the other, then stores the
memory and prints. `Check` is the read without the lock that can show a change to be
none (`record_folders`, `report_checks`, `hook_line`; a brief's own changes have no such
read), `Acquire`/`GiveUp` the lock with its bounded wait, `Commit` the second read under
the lock with the write, which may fail, `Send` the events for the keys this hook was
the first to record. `StoreMemory` and `PrintBrief` are `rules_brief.rs`'s last two steps in
the code's order, `EmptyContext` the compaction or `/clear` with the SessionStart hook
that forgets (or is killed before it does), `Week` a week without a hook of the session,
after which what is `stale` may be pruned (`PruneLedger`, `PruneMemory`) by another
session's hook at any moment until it is written again (`Written`), also between a hook's
read of the record and its lock, or while a brief is on its way,
`OthersLock` the one lock file that all sessions of the machine share. `Kill` is
possible at every step.

The record is one file for all agents and the memory one per agent, so the instance has
one agent beside a second hook. A gate reports per stage; one stage is modelled, since
the sets of two stages never meet. Which decisions govern a file, how they are ranked
and how a brief is cut to its room are inputs: any decision in `Long` may be left out or
trimmed. What a hook writes while it waits for nothing is one step with the wait's end.

History: `context` is what an agent was really told since its context was last emptied,
`lost` what a kill kept from it, `standing` the record as the accepted changes leave it,
`emitted` what went to telemetry. A memory that two hooks of one agent store at once may
be damaged and reads as empty: that costs a second telling (`StatedOnce` names it), it
never withholds.

### 3.8 ManagedFile and Sync

A context file is a sequence of items: the markers of the block, its version, sections,
and texts of the author. `Position` finds the first of a marker as `find` does, so a file
whose write was cut short before its END marker has no block and gets a second one
appended. `MergeContent` is `merge_content`, `MergeSections` its in-place update,
`WithinBudget` the root file's budget, `OnlyMinorChanges` the files a sync passes over.

`Sync` is one `actual adr-bot` from `LoadConfig` to the last write. `LoadConfig` reads
the copy of the config that `Tailor` saves much later; `Discover` reads the context files as
the tailoring will see them, at any time while the platform is asked, and `Fetch` is its
answer with the files found; `Reuse` takes the kept tailoring when its key matches (of what
the code hashes, `CacheKey` leaves out the projects and the model, which no action changes); `Prepare` applies pointer, budget and minor changes and writes the
ADR documents, which the code does before it asks; `Confirm` is the user's choice of
files. `ReadFile`, `Truncate`, `Fill` are `merge_into` with `std::fs::write`, `SkipFile`,
`FillFails` and `Kill` its failures. `Type` is the author saving a file, `ClearCache` the
command.

Two conditions limit what is claimed, and both are the code's limits. The author does
not save between a truncation and the fill after it, which no program could survive
without a lock the editor takes too; a save between `ReadFile` and `Truncate` is modelled,
and overwrites nothing that `typed` counts. A file a write of which was cut short
(`cut`) is out of both properties from then on, since `fs::write` keeps nothing.

### 3.9 DeviceSignIn

`actual login --device` from the request for a code to the stored sign-in. State:
`clock`; `client`, the command with its `interval`, what `remaining` says is left of the
code, and when its sleep or its request began or ends; `code`, the server's side: the
grant, when it expires, the interval the server wants by now and when it last answered;
`reply`, the answer under way. `RequestCode`/`ReceiveCode` are `request_device_code` and
what `device_login` does with it, `Loop` the head of the loop, `Poll` the end of a sleep and
the request, `Server` the server's `Answer` or `Issue` at any time while that request is
under way, from the grant as it is then, `ReceiveAnswer` the match on the outcome,
`RequestFails` the `?` of any of the three requests, `Identified` the rest. `Decide` is
the user. What follows `Identified` is `SignIn!SaveLogin`.

Time: a request takes up to `Latency` (the HTTP client's 30 s, `build_http_client`), a
sleeper is woken up to `Lateness` late, and `Tick` moves the clock by one unless one of
the two is due. The client does not read a clock: it subtracts the interval from
`expires_in` at each sleep. That its count runs slow (requests and late wake-ups are not
counted) is what makes `ExpiredMeansExpired` true, and `SignInEnds` is what the count is
for, since the server here may answer "pending" for ever. An approved code that expires
before the next poll is lost: the property says how late such an approval was.

The server may name no interval, zero or a negative one, and a lifetime of nothing; the
code allows for each. The model shows, and no property forbids, that a session that was
issued and whose identity request fails is forgotten, and stays alive on the server; and
that one failed poll, such as a connection that is reset, ends the whole sign-in.

## 4 Runs

| Run | Instance | Shows |
|---|---|---|
| `gov_serial` | 3 rules, cap 2, two texts, plan and diff gates, MaxRounds 1, 4 processes one after another | `OverrideHonoured`, `BudgetedDeny`, `NoRuleStarves`, and the refinement `AtomicSession` |
| `gov_overlap` | 3 rules, cap 2, a plan and its revision, a diff, an untracked plan, 3 processes overlapping freely | the four properties that hold with overlap |
| `securefile_locked` | 2 processes, contents of one and two blocks, 6 writes and removals | `NeverPartial`, `RemovedForGood`, `OkMeansMine`, the refinement of `AtomicFile` |
| `signin` | 3 processes, 2 sessions, 3 access tokens each, 4 commands | the four safety properties, and `NobodyWaitsForever` under fairness |
| `spool` | 2 writers, 2 uploaders, cap 3, batches of 2, 5 events of which one is refused and one foreign | `AcceptedSurvives`, `OnlyPoisonRefused`, `NeverTakenTwice`, `FlushClears` |
| `runner` | a limit message, a credit message, an exempt tool; two repetitions are a loop; 4 lines | `BlameIsDeserved`, `ResultStands`, `LoopIsNamed`, and `RunEnds` under fairness |
| `tailoring` | 2 projects, up to 4 ADRs in 2 categories, batches of 2, limits 0, 1 and 2, five kinds of answer | `BatchesAreSound`, `OrderDoesNotMatter`, the refinement `ImplementsProgress`, and `RunEnds` under fairness |
| `brief` | 2 hooks at a time, one agent, 2 decisions, 2 folders, a session that goes on, 3 starts | `LedgerKeeps`, `ReportedOnce`, `SummaryTellsNews`, `WithheldWasStated`, `StatedOnce`, and `HooksEnd` under fairness |
| `sync` | a root and a nested file, 2 ADRs, 1 text of the author, 2 syncs that are plain, dry, or forced without tailoring | `UserTextSurvives`, `FileSaysWhatWasAgreed` |
| `device` | lifetimes of none to 9, intervals absent and from -1 to 3, `SlowDownBy`, `Latency` and `Lateness` of 2, 1 and 1 | `ExpiredMeansExpired`, `PollsArePatient`, and `SignInEnds` under fairness |
| `gov_lost_override`, `sync_reuse` | smaller instances | the two disagreements of §6 |

**Why the bounds are enough to be interesting.** Three rules under a cap of two give a
truncated window, a rotation that wraps, and, once a rule is denied, a window with one
pinned and one rotating slot. MaxRounds 1 makes a rule pass on the limit in its third
round, within the four starts of the serial run and the three of the overlapping one.
Three processes of one session contain every pair of overlapping read and rewrite with
a third one that observes the result. In `SecureFile` a long and a short content show
both a truncated and an over-long mix. In `SignIn` two sessions are needed for a
sign-in that replaces another, three tokens for two rotations in a row, four commands
for a lost rotation followed by a renewal, a login and a logout. In `Spool` five events
with a cap of three overflow the file while a batch of it is being sent. In `Runner`
four lines are a loop on one pipe beside lines or a result on the other, and the
threshold of two (three in the code) also has sequences that must not count as a loop.
In `Tailoring` lists of one, two and three ADRs make a batch of two categories, a
category that just fits and one that is cut; two projects under one permit make a queue
whose head's project times out; with limit 0 only the clocks end the run. In `Brief` two
hooks contain every pair of a read and a write of the record, the third start a context
emptied or a week gone by in between; the session goes on from a record with a covered
folder, a gap and a line that was shown, so that news and no news both occur. In `Sync`
the second sync meets what the first left, was interrupted in, or the author changed
since; `CharLimit` and `MaxManaged` of 4 with a wording of size 3 make the budget leave
out a section, and the wordings `w1` and `w2` differ in a minor way only. In `DeviceSignIn` a lifetime
of 9 has room for several polls, two of them answered with `slow_down`, and for a last
sleep that overruns the lifetime; `MaxClock` is 60, and no state has a clock beyond 45,
so the bound cuts no behaviour off.

**Views and symmetry.** `SerialView` and `OverlapView` drop variables that no guard and
no property of the run reads. Calls, processes, writers and uploaders are
interchangeable, and symmetry is used in the runs without liveness properties only.

**Deadlock.** Every instance stops when its bound on started work is used up, so the
configurations switch TLC's deadlock check off. That no process is stuck while work is
left is what `NobodyWaitsForever` says where processes wait for each other.

**Fairness.** `SignIn`, `DeviceSignIn`, `Runner`, `Tailoring` and `Brief` need it. `Tailoring!Fairness` has the task scheduled, a free permit handed on, events read and
the projects' clocks go off; no runner need ever answer, and the user need not wait.
`Brief!Spec` asks that a hook that runs takes its next step, giving up on the lock
included; it asks neither that another session releases the lock nor that anyone starts
a hook. `Runner!FairSpec` asks that the run's task
and the drainer's are scheduled when they can go on and that the timer goes off, as the
tokio runtime does; it asks nothing of the child, which may hang. `SignIn!FairSpec` asks that a process which can proceed
does: system calls return, every request ends within the HTTP client's 30 s timeout
(`build_http_client`), a blocking `lock()` returns once the lock is free, and an
uploader that polls gives up at its deadline. `DeviceSignIn!DeviceFairSpec`
asks that the command takes steps or time passes; that a request or a sleep is over in
time is in `Due`. The user need not decide. Neither starting, dying, nor anything the
server or the clock does is assumed to happen. Weak fairness of a process is enough for
a waiter although the lock can be taken by others in between, because the number of
commands is bounded and the lock is therefore free for good in the end; with an endless
supply of competing commands the code's `flock` makes no promise of order, and neither
does the model.

## 5 Proofs

| Theorem | Property | Assumes |
|---|---|---|
| `GovernanceLoopProofs!TypeCorrect`, `Inductive` | `TypeOK`, `IInv` | the named assumptions on the constants only |
| `LimitPassIsEarned`, `PassIsAudited`, `CleanPassIsJustified`, `OverridesAreAudited` | the overlap-proof properties | any cap, corpus, requests, `Overlap` either way |
| `SerialInductive`, `OverridesAreHonoured`, `DenialsAreBudgeted`, `SessionIsAtomic`, `NoRuleIsStarved` | `SerialInv`, `OverrideHonoured`, `BudgetedDeny`, `AtomicSession`, `NoRuleStarves` | no overlap (`~Overlap`) |
| `FileProofs!LockedInductive`, `NeverAPartialWrite`, `RemovalIsComplete`, `SuccessIsMine`, `Atomic` | `Inv`, `NeverPartial`, `RemovedForGood`, `OkMeansMine`, `ImplementsAtomicFile` | `Locked` |
| `SignInProofs!Inductive`, `StoredTokenIsCurrent`, `SpentTokensStayHome`, `RenewalsStayInTheirSession`, `SignOutEndsTheSession` | `Inv`, `StoredIsCurrent`, `NoSpentToken`, `RenewalReplacesItself`, `SignOutIsFinal` | — |
| `SignInProofs!DeviceInductive`, `NotGivenUpEarly`, `Patience` | `DeviceInv`, `ExpiredMeansExpired`, `PollsArePatient` | the named assumptions on the constants only |
| `FileProofs!SpoolInductive`, `AcceptedEventsSurvive`, `RefusalCostsOnlyItself`, `RecordsAreSentOnce`, `FlushesClear` | `SpoolInv`, `AcceptedSurvives`, `OnlyPoisonRefused`, `NeverTakenTwice`, `FlushClears` | disjoint writers and uploaders |
| `RunnerProofs!Inductive`, `ResultIsReturned`, `LoopsAreNamed`, `BlamesAreDeserved` | `Inv`, `ResultStands`, `LoopIsNamed`, `BlameIsDeserved` | the named assumptions on the constants only |
| `TailoringProofs!Inductive`, `ShowsProgress` | `IInv`, `ImplementsProgress` | at least one project, batches of at least one, ADRs and answers as below |
| `TailoringProofs!BatchesHold`, `OutputHolds` | `BatchesAreSound`, `OrderDoesNotMatter` | the same |
| `BriefProofs!Isolated`, `RecordKeeps`, `SummariesAreNews`, `NothingReportedTwice`, `WithheldIsBacked`, `StatesOnce` | `Sound`, `LedgerKeeps`, `SummaryTellsNews`, `ReportedOnce`, `WithheldWasStated`, `StatedOnce` | the named assumptions on the constants only |
| `SyncProofs!AuthorsTextSurvives`, `FilesSayWhatWasAgreed` | `UserTextSurvives`, `FileSaysWhatWasAgreed` | no two syncs write one file at once (`[]OneWriter`) |
| `SyncProofs!OneSyncAtATime` | both | one process runs the syncs, one after another |
| `SyncProofs!MergeWhole` | what `MergeContent` makes of any whole file | — |

**Governance.** Without a lock the file can be rolled back to any earlier copy, so no
invariant can tie it to what *has been* stored. The one that works (`Evidence`) goes
the other way: every copy of the session, in the file or in a process, claims no more
than the histories support. Deny counts are at most the judged rounds that found the
rule in the way, clearances name verdicts that were given, overrides are in the log. A
lost store only loses claims, the histories only grow (`SupportedGrows`,
`HookOKGrows`), so a process's copy stays supported while it waits. `HookOK` adds what
a hook knows at each step; the properties are its consequences.

Without overlap more can be said (`SerialInv`): at most one process is not idle
(`Alone`), and what it holds is what the file holds, plus what it did itself: the pushed
overrides (`HumanIsFresh`), or the round it judged over rules the file does not settle
(`HookIsFresh`). So a store races nobody and replaces the file by its successor, which
makes it one step of `GovernanceLedger`. The denials printed are counted in the file, and
one about to be printed is counted there already (`DenialIsCounted`), so the count a hook
compares with `MaxRounds` is ahead of the user's.

**SecureFile.** With the lock one process at most is between its system calls. The
staging file holds a prefix of what it writes, the file a reader sees is a synced inode
of its own, so neither a stop nor a power loss can touch its content. The action
property and the refinement follow from the invariant step by step. The case without
the lock has no such theorem: there two writers can leave a mixed file (§6).

**SignIn.** The holder of the lock works on what the file holds (`HolderIsUpToDate`),
which needs the second read under the lock; the token in the file is current unless its
replacement was lost or is about to be saved (`FileIsCurrent`); a session not yet saved
is known to one process (`LoginIsNew`). The three carry each other through every step.

**DeviceSignIn.** What is left of the client's budget, counted from the last answer, is
never less than what is left of the code (`BudgetInv`); its interval is never shorter
than the server's (`SleepInv`); an approval still waiting is newer than the last poll, or
came within a round of the end (`ApprovalInv`). A round of the loop is one lemma,
`LoopHolds`, used for the first sleep and for both answers that keep polling.

**Spool.** Whoever is between its read and its rewrite holds the lock and has read what
the file still holds (`LockProtects`), what an uploader wants removed is recorded or
refused (`RemovalIsEarned`), and an event number is never used twice
(`NumbersAreFresh`), so a taken record cannot come back. An uploader that met no outage
has still to send, or will remove, each event it loaded (`FlushInv`), so its rewrite
leaves none of them (`FlushesClear`).

**Runner.** While the select waits, a result that was written is the last line of stdout
(`ResultIsLast`), so neither the child's exit nor the end of a pipe can overtake it; a
notice never comes without a message (`NoticeHasMessage`), which is why a loop that the
drainer meets late is still named. For `BlameIsDeserved` the counts are tied to the
child's output (`BlameInv`): equal lines in a pipe, with what its reader has counted when
they begin the pipe, are enough for a loop only if the child did repeat the message
(`CountsAreReal`), and those at the end of a pipe are part of the child's current
repetition (`EndIsReal`), which is what the next line written needs. So no interleaving of
the two pipes makes up a loop.

**Brief.** A hook that holds the lock has read what the record still holds
(`LockProtects`), so a commit can be stated in terms of the record itself
(`CommitFacts`), and each property then has an invariant of its own on top: the record
grows past everything accepted (`Keeps`, with `AcceptKeeps` for a change made under the
lock and `SettledKeeps` for one the unlocked read showed to be none); the line told last
is the one on record, or none is known to be (`ToldIsRecorded`); what a hook is about to
send is on record, unsent and no other hook's (`NewsIsNew`). The memory has no lock, so
`MemoryCovered` speaks of every copy of it, in the file and in a running hook: each is
covered by what the agent's context has, is about to have, or missed by a kill. While the
record may be pruned no hook has events to send (`NewsIsFresh`): who has some has just
written it, and only a week without a hook makes it old again (`StaleShrinks`).

**Sync.** Two syncs that write one file at once can lose the author's text (§6), so both
theorems are about behaviours in which no two are at the same file (`OneWriter`); two
syncs of one repository that write different files, or of different repositories, are
within them, and so is any number of syncs one after another (`OneSyncAtATime`). The
invariant (`IInv`) says of every file that nothing was cut off (`FilesAreWhole`): it is
the author's texts only (`IsPlain`), or one block with its version and sections of
distinct ADRs between his texts (`IsFramed`); each text he saved is in it once; it says
what was agreed on. What a sync holds for the file it is about to truncate has all of
that already (`MergedAreWhole`), also for texts saved before it read the file, which is
what survives the truncation. Two parts hold with it: outputs name an ADR once per file
(`IsTidy`), and a process has the inputs its `pc` promises (`HasItsInputs`).

Most of the work is in the operators. `Picked` and `WithinBudget` recurse over a
sequence; `PickedIsPart` and `BudgetIsPart` say that both return their input with
gaps, in its order. On that rest what is read of a framed file (`FramedReads`), that a
merge tells each new section once, in the old order or after it (`MergeTells`), that a
merged file is framed with the author's texts where they were (`MergeWhole`), and that
a file passed over says what it would have got (`OnlyMinorSays`).

**No rule starves.** While a window is too small, the rules that are not pinned wait in
a queue: a round judges a run of it from the rotation point on, and the rotation point
moves by a window each round (`Rotated`, `WindowIsFresh`). A rule's wait counts the last
rounds of the loop whose windows all missed it while the queue and the pinned rules were
the same (`WaitIsCounted`). The windows of `LongestWait` such rounds cover the queue, so
no more than that can miss it (`RotationInv`). A rule that is denied is pinned and one
that is cleared leaves the queue; then the count starts anew, and the property says so.

**Brief, told once.** A context is told a decision a second time only by a hook whose
memory lacked it, and a memory lacks what was told only if hooks of its agent
overlapped or a store failed, which `strayed` records.

**Tailoring, the run.** The invariant has one part per thing that could get out of step.
A batch waits in the queue once and only while its project runs (`QueueInv`), so a permit
is never given to work that was dropped. A project holds the outputs of the batches that
are done, once each, and is done only with all of them (`FinishedInv`); the run has
returned what its projects are (`ResultInv`). The answers kept have sections of their
batch's ADRs only, one of each (`AnswerInv`, from `Filtered`).

The refinement `ImplementsProgress` is about what the screen lags behind, so `ProgressInv`
speaks of the channel: the events the projects' states account for (`Sent`) are shown or
in the channel, and not both; each stands behind those that must be shown before it
(`Before`); nothing of a project stands behind its last. With that, showing the next event
is always a step `TailoringProgress` allows, and draining the channel before the result
is used leaves every project shown done, or the one that failed shown failed. A timeout, a
failure or a cancel only adds events at the end or ends the run.

**Tailoring, the packing.** `CreateBatches` packs category by category. What is packed
after each of them (the closed batches and the open one) holds the ADRs of the
categories so far, in that order; no batch is empty or too large; and the ADRs of a
category that fits are in one batch, since a category joins the open batch only whole.
That is kept from one category to the next, by induction over their number, through the
three cases of `PackCategory`: it joins, it opens a batch, or it is cut into chunks, which
put together again are what was cut. `BatchesHold` is that at the last category.

**Tailoring, the output.** A merge says of an ADR in a file what the last of the merged
outputs to mention it says, and names it once, by induction over the outputs and over the
sections of each. Two batches of one project have no ADR in common, because the server
names each ADR once and the packing repeats none; so for a project "last" means nothing,
and whatever order its calls end in, its output says what all its answers say together.
Projects are merged in their own order, so there "last" is the last project:
that is `Expected`, and `OutputHolds`.

Assumed of the constants, each as the code or what it talks to has it: a repository has a
project (the analysis finds at least the root) and the batch size is positive;
category ids are ordered, as the keys of a `BTreeMap` are; an answer is a parsed one, so its
files are a list and each file's sections are, with any paths, ADRs and texts in them. The
one that matters is `DistinctAssumption`, that the server's list names each ADR once. The client does not look
for duplicates: with one, two batches could answer for the same ADR, and which answer
stays would be a matter of which call was slower.

**Induction without operator parameters.** The library's induction theorems take an
operator, which none of the provers can instantiate. `SelectionProofs` states induction
of *sets* of naturals (`NatSetInduction`, from the well-foundedness of `<`), and, in the
same way, that a recursion over a function has a solution (`Recursion`). So the recursive
functions of the models (`Picked`, `WithinBudget`, `CreateBatches`, `Upserted`,
`MergeSections`) are proved about for every input. The library's `SelectSeq` and folds
with an operator for an argument are avoided in what proofs rest on.

**Only model-checked.** `NobodyWaitsForever`, `RunEnds` (of `Runner` and of `Tailoring`),
`SignInEnds` and `HooksEnd` are liveness under fairness and outside what TLAPS proves.
`OverrideHonoured` with overlap and `OwnFormatReused` are refuted (§6). Every other
property a run checks is a theorem. No module declares a recursive operator.

## 6 Where the code and its documentation disagree

Shown by a run:

1. **An override can be undone by a hook that was judging** (`gov_lost_override`).
   The hook loads the session, judges, and stores its copy; an override recorded in
   between is overwritten. The command tells the human "This rule will not be
   re-checked for this session".
2. **A tailoring is reused for another output format** (`sync_reuse`). The key is said to
   hash "all inputs that affect the tailoring output" and lacks the format. Two formats
   whose context files look alike (at first: none) under the same ADRs have one key, and
   the second sync writes the first one's files.

Met while modelling, read in the code, and not shown by a run:

* A usage limit does not fail fast. The reader gives notice and ends in one poll, so the
  select takes the reader's arm, not the arm that kills the child, and then waits for the
  end of the child's stderr. A test's comment says the child is killed before its sleep
  completes; the test passes because the sleep is short and no time is looked at. The
  timeout's arm waits for stderr in the same way, so the timeout alone does not end a run
  whose child hangs: what holds, and is checked, is `Runner!RunEnds`.
* `docs/SELF_UPDATE.md` says that two self updates at once don't both replace the file.
  A run looks up the latest version before it measures the binary, so one that measures
  after another's install sees nothing that changed under the lock and installs once
  more, an older release when one was published between the two lookups.
* The round-limit pass does not disclose a partial judgement: `plan_check.rs` says the
  cap is disclosed to every caller; the round-limit branch returns before the note is
  added.
* Unlocked writers can leave a mixed file: `write_secure` promises the previous or the
  new content, and two writers share the staging name. The brief ledger takes a lock for
  this reason; the governance session and the memory of a brief do not.
* After an append that stopped half way through a line, the next accepted event is
  written onto the same line, and every flush skips that line until it ages out. If it
  stopped inside a character, no read of the file succeeds: flushes and takes find nothing,
  and appends, which then count no lines, go on past the cap, while `spool.rs` says that
  the spool is bounded. That lasts until the file is deleted.
* The kept tailoring may have 10 MiB (`CACHE_MAX_SIZE_BYTES`), the config file it is
  kept in may be read back up to 1 MiB (`MAX_CONFIG_SIZE`): a tailoring in between makes
  every later command refuse the config, `cache clear` included. `Readable` models it;
  the instances keep `Bulky` empty.
* A tailoring made in one repository is reused in another that offers the same key;
  `repo_path` is kept for display. With equal inputs the output is equal, so no property
  speaks of it.
* The config a sync loaded at its start is saved minutes later as a whole: what `config
  set`, `advisor` or `cache clear` changed meanwhile is undone.
* A write of a context file that is cut short can leave a START marker without its END;
  the next sync then appends a second block and leaves the torn one in place.
* The ADR documents are written before the user confirms, stay when the user declines,
  and are not removed when their ADR is no longer offered. A context file that a later
  output no longer names keeps its last block.
* Two syncs in one repository at once: one can read a file the other has truncated and
  write it back without the author's text. The instance has one sync at a time, and the
  theorems exclude two syncs at one file (`OneWriter`).

## 7 Not modelled

Listed with reasons in `PROJECT.json`. In short: repository analysis and the terminal
UI are sequential and keep no shared state; configuration is typed access to one file;
the self update's download, signature check and binary swap are library calls around
I/O; the token commands are single requests; `release-sign` and `tui-test` are tools of
the release and of the tests. These are most of the implementation's lines (detectors,
tree-sitter queries, renderers, argument parsing, record formats), and a state machine
says nothing about them that a unit test does not.

Of the modelled parts: the direct commands of the governance loop and the folders a plan
names; the runners other than Claude Code; the bundling of files for a tailoring prompt;
the ranking of decisions and the rendering of a brief; in a sync the analysis and its
cache, the choice of projects, the list of rejected ADRs (which nothing adds to), markers
inside an author's text and blocks of the old format without section markers.

## 8 Plan

In order of importance.

1. *Done.* `JudgedWindow`, `GovernanceLedger`, `GovernanceLoop`; `AtomicFile`,
   `SecureFile`; `SignIn`; `Spool`; each with proofs. `Runner`, with proofs.
2. *Done.* `Tailoring` with its operators and `TailoringProgress`; `BriefLedger` and
   `Brief`, with proofs; `ManagedFile` and `Sync`.
3. *Done.* `DeviceSignIn`, with proofs.
4. *Done.* Proofs of `StatedOnce`, `NoRuleStarves`, `UserTextSurvives`,
   `FileSaysWhatWasAgreed` and `FlushClears`, and `Tailoring` with its refinement. Left:
   that a permit of `Tailoring` is held by a call or free.
5. The config file under several commands: a sync's late save against `config set` and
   `advisor`. Retry decisions and delays of the API client.
6. Two syncs at once, and two repositories under one config.
7. Selection of decisions for a file as operators against a reference definition.
