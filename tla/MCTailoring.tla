----------------------------- MODULE MCTailoring -----------------------------
(* Two projects, lists of up to three ADRs in two categories, and answers    *)
(* that are right, mixed up, empty-handed or refused.                        *)
EXTENDS Tailoring

A == [id |-> "a", category |-> 1]
B == [id |-> "b", category |-> 2]
C == [id |-> "c", category |-> 2]
D == [id |-> "d", category |-> 2]


MCRuns ==
  [adrs : {<<>>, <<B, A>>, <<C, A, B>>}, limit : {0, 1, 2}] \cup
  [adrs : {<<D, C, A, B>>, <<D, B, C>>}, limit : {0}]

Section(adr, text) == [adr |-> adr, text |-> text]

File(path, sections) == [path |-> path, sections |-> sections]

\* Each ADR a section in the root file.
Plain(p, own) ==
  [files   |-> <<File("root", [i \in DOMAIN own |-> Section(own[i].id, p)])>>,
   skipped |-> <<>>]

\* The first ADR has two sections in a file and one more where its path is named
\* again, and the ADR of another batch has one; a file of its own has nothing but
\* that.
MixedUp(p, own) ==
  [files   |-> <<File("root", <<Section(own[1].id, 8), Section("a", 9), Section("b", 9),
                                Section(own[1].id, 7)>>),
                 File("web", <<Section("a", 9), Section("b", 9)>>),
                 File("root", <<Section(own[1].id, 6), Section("a", 9)>>)>>,
   skipped |-> <<"b", "c">>]

\* Nothing applies.
SkipAll(own) == [files |-> <<>>, skipped |-> [i \in DOMAIN own |-> own[i].id]]

\* A file with no text, and one at another path.
Blank == [files |-> <<File("root", <<Section("a", NoText)>>)>>, skipped |-> <<>>]
Astray == [files |-> <<File("readme", <<Section("a", 1)>>)>>, skipped |-> <<>>]

MCAnswers(p, own) == {Plain(p, own), MixedUp(p, own), SkipAll(own), Blank, Astray}
==============================================================================
