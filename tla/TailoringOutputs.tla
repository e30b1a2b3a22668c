--------------------------- MODULE TailoringOutputs ---------------------------
(***************************************************************************)
(* What tailoring computes from ADRs and answers, as operators on          *)
(* sequences: the packing of ADRs into batches (tailoring/batch.rs), the   *)
(* validation of a runner's answer (tailoring/invoke.rs) and the merge of  *)
(* outputs (generation/merge.rs).                                          *)
(*                                                                         *)
(* An ADR is a record [id, category].  An output is a record [files,       *)
(* skipped]: files maps a path to a sequence of sections [adr, text], and  *)
(* skipped is a sequence of ADR ids.  A runner's answer is one, too, but   *)
(* its files are a sequence of records [path, sections], for it may name a *)
(* path more than once.  The reasons, the files' reasoning and the         *)
(* summary's counts, which follow from the rest, are left out.             *)
(***************************************************************************)
EXTENDS Selection, SequencesExt, FiniteSets

CONSTANTS
  OutputPaths,   \* paths an output of the run's format may have
  NoText         \* an empty section

-----------------------------------------------------------------------------
(* Batches.                                                                *)

InCategory(adrs, c) == Picked(adrs, {i \in DOMAIN adrs : adrs[i].category = c})

\* The categories in the order of their ids, as a BTreeMap keeps them.
Categories(adrs) ==
  LET ids == {a.category : a \in ToSet(adrs)}
  IN  [n \in 1..Cardinality(ids) |->
         CHOOSE c \in ids : Cardinality({d \in ids : d < c}) = n - 1]

Chunks(s, size) ==
  [i \in 1..((Len(s) + size - 1) \div size) |->
     SubSeq(s, (i - 1) * size + 1, Min({i * size, Len(s)}))]

Flush(packed) ==
  IF packed.open = <<>> THEN packed
  ELSE [closed |-> Append(packed.closed, packed.open), open |-> <<>>]

\* Mutant of PackCategory: an oversize category overtakes the open batch.
MutOvertake(packed, group, size) ==
  IF Len(group) > size
    THEN [packed EXCEPT !.closed = @ \o Chunks(group, size)]
  ELSE IF Len(packed.open) + Len(group) > size
    THEN [Flush(packed) EXCEPT !.open = group]
  ELSE [packed EXCEPT !.open = @ \o group]

\* A category joins the open batch if it fits there, opens a batch of its own
\* if it fits in one, and is cut in chunks if it does not.
PackCategory(packed, group, size) ==
  IF Len(group) > size
    THEN [Flush(packed) EXCEPT !.closed = @ \o Chunks(group, size)]
  ELSE IF Len(packed.open) + Len(group) > size
    THEN [Flush(packed) EXCEPT !.open = group]
  ELSE [packed EXCEPT !.open = @ \o group]

CreateBatches(adrs, size) ==
  LET categories == Categories(adrs)
      packed[n \in 0..Len(categories)] ==
        IF n = 0 THEN [closed |-> <<>>, open |-> <<>>]
        ELSE PackCategory(packed[n - 1], InCategory(adrs, categories[n]), size)
  IN  Flush(packed[Len(categories)]).closed

-----------------------------------------------------------------------------
(* The merge of a sequence of outputs.                                     *)

\* A section takes the place of the one its ADR has, or comes last.
Upsert(sections, new) ==
  IF \E i \in DOMAIN sections : sections[i].adr = new.adr
  THEN [i \in DOMAIN sections |-> IF sections[i].adr = new.adr THEN new ELSE sections[i]]
  ELSE Append(sections, new)

Sections(output, path) == IF path \in DOMAIN output.files THEN output.files[path] ELSE <<>>

Upserted(sections, new) ==
  LET upTo[n \in 0..Len(new)] ==
        IF n = 0 THEN sections ELSE Upsert(upTo[n - 1], new[n])
  IN  upTo[Len(new)]

\* The first file at a path is taken as it is, the sections of the others follow.
MergeSections(outputs, path) ==
  LET merged[n \in 0..Len(outputs)] ==
        IF n = 0 THEN <<>>
        ELSE LET new == Sections(outputs[n], path)
             IN  IF merged[n - 1] = <<>> THEN new ELSE Upserted(merged[n - 1], new)
  IN  merged[Len(outputs)]

MergeOutputs(outputs) ==
  LET paths   == UNION {DOMAIN outputs[i].files : i \in DOMAIN outputs}
      skipped == FlattenSeq([i \in DOMAIN outputs |-> outputs[i].skipped])
  IN  [files   |-> [path \in paths |-> MergeSections(outputs, path)],
       skipped |-> FoldLeft(LAMBDA kept, id : IF Contains(kept, id) THEN kept
                                              ELSE Append(kept, id), <<>>, skipped)]

-----------------------------------------------------------------------------
(* The answer of a runner for the ADRs ids.                                *)

Empty(sections) == \A i \in DOMAIN sections : sections[i].text = NoText

\* The answers validate_and_filter_output refuses.
Refused(answer) ==
  \E i \in DOMAIN answer.files :
    Empty(answer.files[i].sections) \/ answer.files[i].path \notin OutputPaths

LastWins(sections) ==
  Picked(sections, {i \in DOMAIN sections :
                      \A j \in DOMAIN sections : sections[j].adr = sections[i].adr => j <= i})

\* Mutant of OwnSections: sections for ADRs the batch does not have are kept.
MutForeignKept(sections, ids) == LastWins(sections)

\* Sections for ADRs the batch does not have are dropped, and of several for
\* one ADR the last is kept.
OwnSections(sections, ids) ==
  LastWins(Picked(sections, {i \in DOMAIN sections : sections[i].adr \in ids}))

\* One file of an answer as an output; it is dropped when no section is left.
OwnFile(file, ids) ==
  LET own == OwnSections(file.sections, ids)
  IN  [files   |-> [path \in IF own = <<>> THEN {} ELSE {file.path} |-> own],
       skipped |-> <<>>]

\* The validated answer.  Files it has at one path are put together here, as the
\* merge that every answer goes through puts them together; skipped ids are not
\* checked.
Filtered(answer, ids) ==
  [files   |-> MergeOutputs([i \in DOMAIN answer.files |-> OwnFile(answer.files[i], ids)]).files,
   skipped |-> answer.skipped]

-----------------------------------------------------------------------------

\* The triples <<path, ADR, text>> of an output: what it says, without the
\* order of its sections.
Content(output) ==
  UNION {{<<path, s.adr, s.text>> : s \in ToSet(output.files[path])} :
           path \in DOMAIN output.files}
=============================================================================
