----------------------------- MODULE MCSyncData -----------------------------
(* Instances of SyncData and of PunchPulls for TLC. Employees and punches   *)
(* are pulled one after the other into tables of their own, so the two are  *)
(* explored one at a time: part says which one acts.                        *)
EXTENDS SyncData, PunchPulls, TLC

VARIABLE part

mcVars == <<part, vars, punchVars>>

MCInit ==
    /\ part \in {"tables", "punches"}
    /\ Init /\ PunchInit
    /\ part = "punches" => \A e \in Employees : source[e] = Unborn
    /\ part = "tables" => \A e \in Persons : person[e] = "unknown"

TablesNext == part = "tables" /\ Next /\ UNCHANGED <<part, punchVars>>
PunchesNext == part = "punches" /\ PunchNext /\ UNCHANGED <<part, vars>>

MCSpec == MCInit /\ [][TablesNext \/ PunchesNext]_mcVars

\* There are two runs or imports when all the employees are known and stay as
\* they are, one otherwise.
FewRuns ==
    \/ moves = 0 /\ \A e \in Persons : person[e] = "ACTIVE"
    \/ Cardinality({p \in Syncs : sync[p].stage # "idle"}) <= 1

\* Persons are the Employees.
Symmetry ==
    Permutations(Employees) \cup Permutations(Pulls) \cup Permutations(Syncs)
=============================================================================
