------------------------------- MODULE MCSync --------------------------------
(* Sync over two ADRs: the root file and one nested file of one format, or two  *)
(* formats with their root files.                                              *)
EXTENDS Sync

CONSTANTS s1, r1, claude, agents, root, nested, agentsRoot, a1, a2, t1, t2

Plain == [force |-> FALSE, dryRun |-> FALSE, noTailor |-> FALSE]

MCRootFile == claude :> root @@ agents :> agentsRoot
MCFormatOf == root :> claude @@ nested :> claude @@ agentsRoot :> agents
RootOnly == claude :> (a1 :> {root} @@ a2 :> {root})
         @@ agents :> (a1 :> {agentsRoot} @@ a2 :> {agentsRoot})
MCTargetFiles == claude :> (a1 :> {root} @@ a2 :> {root, nested})
              @@ agents :> (a1 :> {agentsRoot} @@ a2 :> {agentsRoot})

\* w1 and w2 differ in a minor way, w3 is another wording; "raw" is the ADR's own.
MCSimilar == {<<w, w>> : w \in {"w1", "w2", "w3", "raw", "pointer"}} \cup {<<"w1", "w2">>, <<"w2", "w1">>}
MCSize == [w \in {"w1", "w2", "raw", "pointer", t1, t2} |-> 1] @@ ("w3" :> 3)
MCRaw == [a \in {a1, a2} |-> "raw"]

MCOffers == {{}, {a1}, {a1, a2}}
MCAnswers == {root :> <<Section(a1, "w1")>>,
              root :> <<Section(a1, "w2")>>,
              root :> <<Section(a2, "w3"), Section(a1, "w1")>>,
              root :> <<Section(a1, "w1")>> @@ nested :> <<Section(a2, "w2")>>}
MCOptions == {Plain, [Plain EXCEPT !.force = TRUE, !.noTailor = TRUE], [Plain EXCEPT !.dryRun = TRUE]}

TwoFormatAnswers == {root :> <<Section(a1, "w1")>>, agentsRoot :> <<Section(a1, "w1")>>}
==============================================================================
