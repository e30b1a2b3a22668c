----------------------------- MODULE ManagedFile -----------------------------
(***************************************************************************)
(* An output file (CLAUDE.md, AGENTS.md) with its managed block, and what  *)
(* a sync makes of it: generation/markers.rs, merge.rs and budget.rs and   *)
(* tailoring/minor_change.rs as operators.                                 *)
(*                                                                         *)
(* A file is a sequence of items: the two markers, the version comment, a  *)
(* section of an ADR with its own markers, and text the user wrote.  An    *)
(* output gives each of its paths a sequence of sections.                  *)
(***************************************************************************)
EXTENDS Selection, SequencesExt, Integers

CONSTANTS
  Similar,      \* pairs of wordings, old and new, that differ in a minor way
  Size,         \* the characters of a wording or a text, in units
  CharLimit,    \* what a context file may hold
  MaxManaged    \* what its managed block may hold

Start == [mark |-> "start"]
End == [mark |-> "end"]
Header == [mark |-> "header"]
Version(n) == [version |-> n]
Section(adr, wording) == [adr |-> adr, says |-> wording]
Text(text) == [text |-> text]

Governance == Section("v2-governance", "pointer")

-----------------------------------------------------------------------------
(* Reading a file.                                                         *)

Position(file, item) == SelectInSeq(file, LAMBDA i : i = item)

HasBlock(file) == 0 < Position(file, Start) /\ Position(file, Start) < Position(file, End)

Block(file) ==
  IF HasBlock(file) THEN SubSeq(file, Position(file, Start) + 1, Position(file, End) - 1)
                    ELSE <<>>

Sections(items) == Picked(items, {i \in DOMAIN items : "adr" \in DOMAIN items[i]})

Ids(sections) == {sections[i].adr : i \in DOMAIN sections}

Distinct(sections) ==
  \A i, j \in DOMAIN sections : sections[i].adr = sections[j].adr => i = j

\* The first section of an ADR.
Of(sections, adr) == sections[SelectInSeq(sections, LAMBDA s : s.adr = adr)]

NextVersion(file) ==
  LET where == IF HasBlock(file) THEN Block(file) ELSE file
      at    == SelectInSeq(where, LAMBDA i : "version" \in DOMAIN i)
  IN  IF at = 0 THEN 1 ELSE where[at].version + 1

\* What tailoring sees of a file: no markers, no metadata.
Stripped(file) ==
  LET seen == Picked(file, {i \in DOMAIN file : DOMAIN file[i] \cap {"adr", "text"} # {}})
  IN  [i \in DOMAIN seen |-> IF "adr" \in DOMAIN seen[i] THEN seen[i].says ELSE seen[i].text]

-----------------------------------------------------------------------------
(* Merging.                                                                *)

\* Mutant of MergeSections: a section the new output lacks stays.
MutKeepDropped(old, new) ==
  [i \in DOMAIN old |-> IF old[i].adr \in Ids(new) THEN Of(new, old[i].adr) ELSE old[i]]
    \o Picked(new, {i \in DOMAIN new : new[i].adr \notin Ids(old)})

\* Sections keep their place, get their new wording or go; new ones follow.
MergeSections(old, new) ==
  LET kept == Picked(old, {i \in DOMAIN old : old[i].adr \in Ids(new)})
  IN  [i \in DOMAIN kept |-> Of(new, kept[i].adr)]
        \o Picked(new, {i \in DOMAIN new : new[i].adr \notin Ids(old)})

Wrapped(sections, version) == <<Start, Version(version)>> \o sections \o <<End>>

\* Mutant of Around: the user's text below the block goes with it.
MutDropTail(file, block) == SubSeq(file, 1, Position(file, Start) - 1) \o block

\* The file with another block in the place of its own.
Around(file, block) ==
  SubSeq(file, 1, Position(file, Start) - 1) \o block
    \o SubSeq(file, Position(file, End) + 1, Len(file))

MergeContent(file, sections) ==
  LET old == Sections(Block(file))
  IN  IF HasBlock(file)
      THEN Around(file, Wrapped(IF old = <<>> THEN sections ELSE MergeSections(old, sections),
                                NextVersion(file)))
      ELSE file \o Wrapped(sections, NextVersion(file))

NewFile(sections, isRoot) == (IF isRoot THEN <<Header>> ELSE <<>>) \o Wrapped(sections, 1)

-----------------------------------------------------------------------------
(* The budget of the root file.                                            *)

ItemSize(item) ==
  CASE "adr"  \in DOMAIN item -> Size[item.says]
    [] "text" \in DOMAIN item -> Size[item.text]
    [] OTHER -> 0

Length(items) == FoldLeft(LAMBDA sum, item : sum + ItemSize(item), 0, items)

ManagedBudget(file) ==
  LET left == CharLimit - (Length(file) - Length(Block(file)))
  IN  IF left < 0 THEN 0 ELSE IF left < MaxManaged THEN left ELSE MaxManaged

\* Sections in their order while there is room; the governance pointer always.
WithinBudget(sections, budget) ==
  LET taken[n \in 0..Len(sections)] ==
        IF n = 0 THEN <<>>
        ELSE LET s    == sections[n]
                 left == budget - Length(taken[n - 1])
             IN  IF s = Governance \/ ItemSize(s) <= left THEN Append(taken[n - 1], s)
                                                           ELSE taken[n - 1]
  IN  taken[Len(sections)]

-----------------------------------------------------------------------------
(* Minor changes.                                                          *)

\* The same ADRs, each in words like those the file has.
OnlyMinorChanges(file, sections) ==
  LET old == Sections(Block(file))
  IN  /\ HasBlock(file)
      /\ Ids(sections) = Ids(old)
      /\ \A i \in DOMAIN sections :
           <<Of(old, sections[i].adr).says, sections[i].says>> \in Similar
==============================================================================
