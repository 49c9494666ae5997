--------------------------- MODULE MCShiftPlanning ---------------------------
(* Small instances of ShiftPlanning for TLC.                               *)
EXTENDS ShiftPlanning, TLC

\* Bound of the instance: the planning is inherited beside one batch.
MCNext == Next /\ (moved' # {} => Cardinality(sent') = 1 /\ sent' \subseteq Batches)
MCSpec == Init /\ [][MCNext]_vars

Symmetry ==
    Permutations(Employees) \cup Permutations(Assigns) \cup Permutations(Batches)
        \cup Permutations(Reviewers)
=============================================================================
