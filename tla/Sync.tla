-------------------------------- MODULE Sync ---------------------------------
(***************************************************************************)
(* actual adr-bot (cli/commands/sync): fetch the ADRs that apply, tailor   *)
(* them or reuse the last tailoring, and put the result into the context   *)
(* files of a repository, while their author edits them and other commands *)
(* change the config file the tailoring is kept in.                        *)
(*                                                                         *)
(* What the analysis of the repository finds, the answers of the platform  *)
(* and what tailoring makes of them are choices; Tailoring has the calls.  *)
(***************************************************************************)
EXTENDS ManagedFile, FiniteSets

CONSTANTS
  Syncs,        \* processes that run syncs
  Repos,        \* repositories
  Formats,      \* output formats
  RootFile,     \* the root file of a format
  Paths,        \* paths of context files, root files among them
  FormatOf,     \* the format a path belongs to
  TargetFiles,  \* per format and ADR: the files of the projects it matched
  Adrs,         \* what the platform may offer
  Inline,       \* those that are tailored into context files (schema v1)
  Offers,       \* the sets of ADRs it offers
  Answers,      \* what tailoring may return: outputs, functions from some paths
  Raw,          \* the wording of an ADR without tailoring
  Bulky,        \* wordings too long for load_from to read them back
  Options,      \* records [force, dryRun, noTailor] of flags
  Texts,        \* what an author may type, each once
  NoFile, Nothing, Nobody,
  MaxSyncs      \* bound: syncs started

Wordings(output) == UNION {{output[p][i].says : i \in DOMAIN output[p]} : p \in DOMAIN output}

Wording == {Raw[a] : a \in Inline} \cup {Governance.says} \cup UNION {Wordings(o) : o \in Answers}
ASection == [adr : Adrs \cup {Governance.adr}, says : Wording]
Item == ASection \cup [mark : {"start", "end", "header"}] \cup [version : Nat] \cup [text : Texts]

Outputs(adrs) == UNION {[P -> Seq([adr : adrs, says : Wording])] : P \in SUBSET Paths}

\* Tailoring names each ADR at most once per file (Tailoring, OrderDoesNotMatter).
IsTidy(output) == \A p \in DOMAIN output : Distinct(output[p])

ASSUME SyncAssumption ==
  /\ \A f \in Formats : RootFile[f] \in Paths /\ FormatOf[RootFile[f]] = f
  /\ \A f \in Formats, a \in Inline : TargetFiles[f][a] \subseteq Paths
  /\ Offers \subseteq SUBSET Adrs /\ Inline \subseteq Adrs
  /\ IsFiniteSet(Adrs) /\ Governance.adr \notin Adrs
  /\ \A o \in Answers : /\ IsTidy(o) /\ DOMAIN o \subseteq Paths
                        /\ o \in [DOMAIN o -> Seq([adr : Adrs, says : Wording])]
  /\ Options \subseteq [force : BOOLEAN, dryRun : BOOLEAN, noTailor : BOOLEAN]
  /\ NoFile \notin Seq(Item) /\ Nothing \notin Seq(Item)
  /\ Nobody \notin Repos \cup Formats \cup Paths
  /\ MaxSyncs \in Nat

VARIABLES
  files,    \* per repository and path: the file
  rules,    \* per repository: ADRs with a document under docs/adr and .claude/rules
  config,   \* the tailoring the user's config file keeps
  sync,     \* the processes
  \* history variables
  typed,    \* per file: the texts its author saved while no sync was writing it
  agreed,   \* per file: the sections the last sync wrote or found there
  cut,      \* per repository: files a write of which was cut short
  began     \* bound: syncs started

history == <<typed, agreed, cut>>
vars == <<files, rules, config, sync, history, began>>

Idle == [pc |-> "idle", repo |-> Nobody, format |-> Nobody, options |-> Nothing,
         config |-> Nothing, adrs |-> {}, seen |-> Nothing, output |-> <<>>,
         todo |-> {}, path |-> Nobody, merged |-> <<>>]

Init ==
  /\ files = [r \in Repos |-> [p \in Paths |-> NoFile]]
  /\ rules = [r \in Repos |-> {}]
  /\ config = Nothing
  /\ sync = [s \in Syncs |-> Idle]
  /\ typed = [r \in Repos |-> [p \in Paths |-> {}]]
  /\ agreed = [r \in Repos |-> [p \in Paths |-> Nothing]]
  /\ cut = [r \in Repos |-> {}]
  /\ began = 0

-----------------------------------------------------------------------------
(* From the start to an output.                                            *)

At(s, pc) == sync[s].pc = pc

Stop(s) == sync' = [sync EXCEPT ![s] = Idle]

\* load_from refuses a file of more than a megabyte.
Readable(kept) == kept = Nothing \/ Wordings(kept.output) \cap Bulky = {}

\* The environment is checked, the repository analysed and the user agrees.
StartSync(s) ==
  /\ At(s, "idle") /\ began < MaxSyncs
  /\ began' = began + 1
  /\ \E r \in Repos, f \in Formats, o \in Options :
       sync' = [sync EXCEPT ![s] = [Idle EXCEPT !.pc = "load", !.repo = r, !.format = f,
                                                !.options = o]]
  /\ UNCHANGED <<files, rules, config, history>>

\* The config is read once more; this copy is what will be saved.
LoadConfig(s) ==
  /\ At(s, "load")
  /\ IF Readable(config)
     THEN sync' = [sync EXCEPT ![s].pc = "fetch", ![s].config = config]
     ELSE Stop(s)
  /\ UNCHANGED <<files, rules, config, history, began>>

\* The context files of the format, as tailoring and the cache key see them.
Existing(r, f) ==
  [p \in {q \in Paths : FormatOf[q] = f /\ files[r][q] # NoFile} |-> Stripped(files[r][p])]

\* The context files are looked up while the platform is asked.
Discover(s) ==
  /\ At(s, "fetch") /\ sync[s].seen = Nothing
  /\ sync' = [sync EXCEPT ![s].seen = Existing(sync[s].repo, sync[s].format)]
  /\ UNCHANGED <<files, rules, config, history, began>>

\* The platform has answered and the files have been looked up.
Fetch(s) ==
  /\ At(s, "fetch") /\ sync[s].seen # Nothing
  /\ \E offer \in Offers : sync' = [sync EXCEPT ![s].pc = "tailor", ![s].adrs = offer]
  /\ UNCHANGED <<files, rules, config, history, began>>

\* The platform cannot be reached, answers with an error or stays unavailable.
FetchFails(s) ==
  /\ At(s, "fetch") /\ Stop(s)
  /\ UNCHANGED <<files, rules, config, history, began>>

\* The repository, the format and the config's other keys are not in the key.
\* The projects and the model that the code hashes too are left out: no action
\* changes them.
CacheKey(s) == <<sync[s].adrs, sync[s].options.noTailor, sync[s].seen>>

Inlined(s) == sync[s].adrs \cap Inline

\* One section per inlined ADR in the file of each project it matched.
RawOutput(s) ==
  LET target == TargetFiles[sync[s].format]
      in(p)  == SetToSeq({a \in Inlined(s) : p \in target[a]})
  IN  [p \in UNION {target[a] : a \in Inlined(s)} |->
         [i \in DOMAIN in(p) |-> Section(in(p)[i], Raw[in(p)[i]])]]

\* Tailoring names only files of the format and ADRs it was given.
Fits(s, output) ==
  \A p \in DOMAIN output : FormatOf[p] = sync[s].format /\ Ids(output[p]) \subseteq Inlined(s)

Tailored(s, output) ==
  sync' = [sync EXCEPT ![s].pc = "prepare", ![s].output = output]

\* The repository kept with it is for display; the format is not kept (history).
Cached(s, output) == [key |-> CacheKey(s), output |-> output,
                      repo |-> sync[s].repo, format |-> sync[s].format]

Hit(s) ==
  /\ ~sync[s].options.force
  /\ sync[s].config # Nothing
  /\ sync[s].config.key = CacheKey(s)

\* The tailoring in the copy of the config is that of the same inputs.
Reuse(s) ==
  /\ At(s, "tailor") /\ Hit(s)
  /\ Tailored(s, sync[s].config.output)
  /\ UNCHANGED <<files, rules, config, history, began>>

\* A new tailoring, or the raw ADRs; it replaces the one in the copy and the
\* copy the file, unless the save fails.  A kept one may have expired.
Tailor(s) ==
  /\ At(s, "tailor")
  /\ \E output \in IF sync[s].options.noTailor THEN {RawOutput(s)}
                   ELSE {answer \in Answers : Fits(s, answer)} :
       /\ Tailored(s, output)
       /\ config' \in {config, Cached(s, output)}
  /\ UNCHANGED <<files, rules, history, began>>

TailoringFails(s) ==
  /\ At(s, "tailor") /\ Stop(s)
  /\ UNCHANGED <<files, rules, config, history, began>>

-----------------------------------------------------------------------------
(* From the output to what is to be written.                               *)

Root(s) == RootFile[sync[s].format]

FileOr(r, p, other) == IF files[r][p] = NoFile THEN other ELSE files[r][p]

\* The root file points to the documents of the ADRs.
WithGovernance(s, output) ==
  IF sync[s].adrs = {} THEN output
  ELSE [p \in DOMAIN output \cup {Root(s)} |->
          LET sections == IF p \in DOMAIN output THEN output[p] ELSE <<>>
          IN  IF p = Root(s) THEN <<Governance>> \o sections ELSE sections]

WithBudget(s, output) ==
  IF Root(s) \in DOMAIN output
  THEN [output EXCEPT ![Root(s)] =
          WithinBudget(@, ManagedBudget(FileOr(sync[s].repo, Root(s), <<>>)))]
  ELSE output

\* Files that say the same in much the same words are left as they are.
UpToDate(s, output) ==
  {p \in DOMAIN output : /\ files[sync[s].repo][p] # NoFile
                         /\ OnlyMinorChanges(files[sync[s].repo][p], output[p])}

\* The documents of the ADRs are written before the user is asked.
Prepare(s) ==
  /\ At(s, "prepare")
  /\ LET r      == sync[s].repo
         dryRun == sync[s].options.dryRun
         output == WithBudget(s, WithGovernance(s, sync[s].output))
         same   == UpToDate(s, output)
     IN  /\ rules' = IF dryRun THEN rules ELSE [rules EXCEPT ![r] = @ \cup sync[s].adrs]
         /\ sync' = [sync EXCEPT ![s].pc = "confirm",
                                 ![s].output = RestrictDomain(output, LAMBDA p : p \notin same)]
         /\ agreed' = IF dryRun THEN agreed
                      ELSE [agreed EXCEPT ![r] = [p \in Paths |-> IF p \in same THEN output[p]
                                                                  ELSE @[p]]]
  /\ UNCHANGED <<files, config, typed, cut, began>>

\* A dry run ends here; the user picks files to write, unless forced.
Confirm(s) ==
  /\ At(s, "confirm")
  /\ LET all == DOMAIN sync[s].output
     IN  \E chosen \in CASE sync[s].options.dryRun -> {{}}
                          [] sync[s].options.force  -> {all}
                          [] OTHER                  -> SUBSET all :
           IF chosen = {} THEN Stop(s)
           ELSE sync' = [sync EXCEPT ![s].pc = "write", ![s].todo = chosen]
  /\ UNCHANGED <<files, rules, config, history, began>>

-----------------------------------------------------------------------------
(* Writing: std::fs::write truncates the file, then fills it.              *)

\* Sync s is done with the file it was at.
Proceed(s) ==
  IF sync[s].todo = {} THEN Stop(s)
  ELSE sync' = [sync EXCEPT ![s].pc = "write", ![s].path = Nobody, ![s].merged = <<>>]

\* The file is read again, and merged as it is now.
ReadFile(s) ==
  /\ At(s, "write")
  /\ \E p \in sync[s].todo :
       LET file     == files[sync[s].repo][p]
           sections == sync[s].output[p]
       IN  sync' = [sync EXCEPT
             ![s].pc = "truncate", ![s].path = p, ![s].todo = @ \ {p},
             ![s].merged = IF file = NoFile THEN NewFile(sections, p = Root(s))
                           ELSE MergeContent(file, sections)]
  /\ UNCHANGED <<files, rules, config, history, began>>

\* It cannot be read or opened, or its directory cannot be created.
SkipFile(s) ==
  /\ At(s, "truncate") /\ Proceed(s)
  /\ UNCHANGED <<files, rules, config, history, began>>

Truncate(s) ==
  /\ At(s, "truncate")
  /\ files' = [files EXCEPT ![sync[s].repo][sync[s].path] = <<>>]
  /\ sync' = [sync EXCEPT ![s].pc = "fill"]
  /\ UNCHANGED <<rules, config, history, began>>

Fill(s) ==
  /\ At(s, "fill")
  /\ LET r == sync[s].repo
         p == sync[s].path
     IN  /\ files' = [files EXCEPT ![r][p] = sync[s].merged]
         /\ agreed' = [agreed EXCEPT ![r][p] = sync[s].output[p]]
  /\ Proceed(s)
  /\ UNCHANGED <<rules, config, typed, cut, began>>

\* Part of the file of sync s is written, and no more.
CutShort(s) ==
  LET r == sync[s].repo
      p == sync[s].path
  IN  /\ \E n \in 0..Len(sync[s].merged) - 1 :
           files' = [files EXCEPT ![r][p] = SubSeq(sync[s].merged, 1, n)]
      /\ cut' = [cut EXCEPT ![r] = @ \cup {p}]
      /\ UNCHANGED <<typed, agreed>>

\* The disk is full.
FillFails(s) ==
  /\ At(s, "fill") /\ CutShort(s) /\ Proceed(s)
  /\ UNCHANGED <<rules, config, began>>

\* Ctrl-C, a crash, or the user cancels at any question.
Kill(s) ==
  /\ ~At(s, "idle") /\ Stop(s)
  /\ IF At(s, "fill") THEN CutShort(s) ELSE UNCHANGED <<files, history>>
  /\ UNCHANGED <<rules, config, began>>

-----------------------------------------------------------------------------
(* What others do meanwhile.                                               *)

Writing(r, p) == \E s \in Syncs : sync[s].repo = r /\ sync[s].path = p

Open(r, p) == \E s \in Syncs : At(s, "fill") /\ sync[s].repo = r /\ sync[s].path = p

TextsIn(items) == {items[i].text : i \in {j \in DOMAIN items : "text" \in DOMAIN items[j]}}

Surrounding(file, t) == {<<Text(t)>> \o file, Append(file, Text(t))}

\* The author adds a text above or below the block, or starts the file, though
\* not between a truncation and what follows it.
Type(r, p) ==
  /\ ~Open(r, p)
  /\ \E t \in Texts :
       /\ \A q \in Paths : t \notin TextsIn(FileOr(r, q, <<>>))
       /\ \E file \in Surrounding(FileOr(r, p, <<>>), t) :
            files' = [files EXCEPT ![r][p] = file]
       /\ typed' = IF Writing(r, p) THEN typed
                   ELSE [typed EXCEPT ![r][p] = @ \cup {t}]
  /\ UNCHANGED <<rules, config, sync, agreed, cut, began>>

\* actual cache clear.
ClearCache ==
  /\ config # Nothing /\ Readable(config)
  /\ config' = Nothing
  /\ UNCHANGED <<files, rules, sync, history, began>>

-----------------------------------------------------------------------------
SyncStep(s) ==
  \/ StartSync(s) \/ LoadConfig(s) \/ Discover(s) \/ Fetch(s) \/ FetchFails(s)
  \/ Reuse(s) \/ Tailor(s) \/ TailoringFails(s) \/ Prepare(s) \/ Confirm(s)
  \/ ReadFile(s) \/ SkipFile(s) \/ Truncate(s) \/ Fill(s) \/ FillFails(s) \/ Kill(s)

Next == (\E s \in Syncs : SyncStep(s)) \/ (\E r \in Repos, p \in Paths : Type(r, p)) \/ ClearCache

Spec == Init /\ [][Next]_vars

-----------------------------------------------------------------------------
(* Properties.                                                             *)

\* What the author wrote above or below the block is in the file, once, at any
\* moment a sync does not have the file open, however often syncs rewrite it
\* (merge.rs merge_content; GETTING_STARTED.md:93).  A file whose write was cut
\* short is out of this: fs::write keeps nothing of what was there.
UserTextSurvives ==
  \A r \in Repos, p \in Paths : \A t \in typed[r][p] :
    \/ p \in cut[r] \/ Open(r, p)
    \/ Cardinality({i \in DOMAIN files[r][p] : files[r][p][i] = Text(t)}) = 1

\* A file says what the last sync that wrote it, or passed it over as needing
\* only minor changes, had for it: one block, each of its ADRs once and no other,
\* in its words or words like them (merge.rs, minor_change.rs, writer.rs).
FileSaysWhatWasAgreed ==
  \A r \in Repos, p \in Paths :
    \/ agreed[r][p] = Nothing \/ p \in cut[r] \/ Open(r, p)
    \/ LET file == files[r][p]
           has  == Sections(file)
       IN  /\ HasBlock(file)
           /\ \A m \in {Start, End} : Cardinality({i \in DOMAIN file : file[i] = m}) = 1
           /\ Len(has) = Len(agreed[r][p]) /\ Ids(has) = Ids(agreed[r][p])
           /\ \A i \in DOMAIN has :
                LET said == Of(agreed[r][p], has[i].adr).says
                IN  has[i].says = said \/ <<has[i].says, said>> \in Similar

\* A reused tailoring is one made for the output format asked for: the key is
\* said to hash "all inputs that affect the tailoring output"
\* (sync/cache.rs compute_tailoring_cache_key).
OwnFormatReused ==
  [][\A s \in Syncs : Reuse(s) => sync[s].config.format = sync[s].format]_vars

-----------------------------------------------------------------------------
(* The inductive invariant of a repository in which no two syncs write the  *)
(* same file at once.                                                       *)

OneWriter ==
  \A s, t \in Syncs : s # t /\ sync[s].path # Nobody =>
    <<sync[s].repo, sync[s].path>> # <<sync[t].repo, sync[t].path>>

Seen == UNION {[P -> Seq(Wording \cup Texts)] : P \in SUBSET Paths}
Kept == [key : (SUBSET Adrs) \X BOOLEAN \X Seen, output : Outputs(Adrs),
         repo : Repos, format : Formats]

Process == [pc      : {"idle", "load", "fetch", "tailor", "prepare", "confirm", "write",
                       "truncate", "fill"},
            repo    : Repos \cup {Nobody},
            format  : Formats \cup {Nobody},
            options : Options \cup {Nothing},
            config  : Kept \cup {Nothing},
            adrs    : SUBSET Adrs,
            seen    : Seen \cup {Nothing},
            output  : Outputs(Adrs \cup {Governance.adr}),
            todo    : SUBSET Paths,
            path    : Paths \cup {Nobody},
            merged  : Seq(Item)]

TypeOK ==
  /\ files \in [Repos -> [Paths -> Seq(Item) \cup {NoFile}]]
  /\ rules \in [Repos -> SUBSET Adrs]
  /\ config \in Kept \cup {Nothing}
  /\ sync \in [Syncs -> Process]
  /\ typed \in [Repos -> [Paths -> SUBSET Texts]]
  /\ agreed \in [Repos -> [Paths -> Seq(ASection) \cup {Nothing}]]
  /\ cut \in [Repos -> SUBSET Paths]
  /\ began \in 0..MaxSyncs

\* What a process has at hand once it is as far as its pc says.
HasItsInputs(q) ==
  /\ q.pc # "idle" => q.repo \in Repos /\ q.format \in Formats /\ q.options \in Options
  /\ q.pc = "tailor" => q.seen \in Seen
  /\ q.pc = "prepare" => q.output \in Outputs(Adrs)
  /\ IsTidy(q.output)
  /\ q.config # Nothing => IsTidy(q.config.output)
  /\ q.todo \subseteq DOMAIN q.output
  /\ q.pc \notin {"write", "truncate", "fill"} => q.todo = {}
  /\ q.path \in DOMAIN q.output \cup {Nobody}
  /\ q.path = Nobody <=> q.pc \notin {"truncate", "fill"}

\* The text t is in the file, once.
Once(file, t) ==
  \E i \in 1..Len(file) : \A j \in 1..Len(file) : file[j] = Text(t) <=> j = i

IsPlain(file) == \A i \in DOMAIN file : file[i] \in [text : Texts]

\* A file with a block from b to e, the author's text around it.
IsFramedAt(file, b, e) ==
  /\ file[b] = Start /\ file[e] = End
  /\ b + 1 < e /\ file[b + 1] \in [version : Nat]
  /\ \A i \in 1..(b - 1) : file[i] \in [text : Texts] \cup {Header}
  /\ \A i \in (b + 2)..(e - 1) : file[i] \in ASection
  /\ \A i \in (e + 1)..Len(file) : file[i] \in [text : Texts]
  /\ Distinct(SubSeq(file, b + 2, e - 1))

IsFramed(file) == \E b, e \in 1..Len(file) : IsFramedAt(file, b, e)

\* What FileSaysWhatWasAgreed says of a file and the sections agreed on.
Says(file, sections) ==
  LET has == Sections(file)
  IN  /\ HasBlock(file)
      /\ \A m \in {Start, End} : Cardinality({i \in DOMAIN file : file[i] = m}) = 1
      /\ Len(has) = Len(sections) /\ Ids(has) = Ids(sections)
      /\ \A i \in DOMAIN has :
           LET said == Of(sections, has[i].adr).says
           IN  has[i].says = said \/ <<has[i].says, said>> \in Similar

\* A file with its shape, its author's texts, and what was agreed on.
IsWhole(file, texts, sections, open) ==
  /\ file # NoFile => IsPlain(file) \/ IsFramed(file)
  /\ texts # {} /\ ~open => file # NoFile
  /\ ~open => \A t \in texts : Once(file, t)
  /\ sections # Nothing => Distinct(sections)
  /\ sections # Nothing /\ ~open => file # NoFile /\ Says(file, sections)

\* Files nothing was cut off are whole.
FilesAreWhole ==
  \A r \in Repos, p \in Paths :
    p \notin cut[r] => IsWhole(files[r][p], typed[r][p], agreed[r][p], Open(r, p))

\* What a sync is about to write will be.
WillBeWhole(q, texts) ==
  /\ IsFramed(q.merged)
  /\ \A t \in texts : Once(q.merged, t)
  /\ Says(q.merged, q.output[q.path])

MergedAreWhole ==
  \A s \in Syncs :
    LET q == sync[s]
    IN  q.path # Nobody /\ q.path \notin cut[q.repo] => WillBeWhole(q, typed[q.repo][q.path])

IInv ==
  /\ TypeOK
  /\ config # Nothing => IsTidy(config.output)
  /\ \A s \in Syncs : HasItsInputs(sync[s])
  /\ MergedAreWhole
  /\ FilesAreWhole
==============================================================================
