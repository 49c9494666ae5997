------------------------- MODULE MCJobDescriptions -------------------------
(* Small instances of JobDescriptions, DocumentArchive and                  *)
(* ResignationDecisions for TLC. The archive concerns one version that      *)
(* stays validated, whatever becomes of the description, and the decisions  *)
(* concern neither, so the three are explored one at a time: part says      *)
(* which one acts, and the others stand still.                              *)
EXTENDS JobDescriptions, DocumentArchive, ResignationDecisions, TLC

VARIABLE part

mcVars == <<part, vars, archiveVars, decisionVars>>

\* The first version and its major revision.
MCVersions == {<<1, 0>>, <<2, 0>>}

MCInit ==
    /\ part \in {"circuit", "archive", "decisions"}
    /\ Init /\ ArchiveInit /\ DecisionInit
    /\ part # "archive" => print \in {[g \in Generations |-> p] : p \in Prints}
    /\ part # "decisions" => resigned = {}

MCCircuitNext == part = "circuit" /\ Next /\ UNCHANGED <<part, archiveVars, decisionVars>>
MCArchiveNext == part = "archive" /\ ArchiveNext /\ UNCHANGED <<part, vars, decisionVars>>
MCDecisionsNext == part = "decisions" /\ DecisionNext /\ UNCHANGED <<part, vars, archiveVars>>

MCSpec == MCInit /\ [][MCCircuitNext \/ MCArchiveNext \/ MCDecisionsNext]_mcVars

Symmetry == Permutations(Handlers) \cup Permutations(Prints)
=============================================================================
