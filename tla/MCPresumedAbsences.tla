------------------------- MODULE MCPresumedAbsences -------------------------
(* Instances of PresumedAbsences and of ManualDeclarations for TLC.  They   *)
(* are explored one at a time: part says which one acts, and the other      *)
(* stands still.                                                            *)
EXTENDS PresumedAbsences, ManualDeclarations, TLC

VARIABLE part

mcVars == <<part, vars, manualVars>>

\* Bound of the instance: the manual absences are those of the first day, and so are
\* the facts that only they ask for.
FirstDay ==
    /\ absent \cup onLeave \subseteq {1}
    /\ \A q \in Requests : request[q].op = "manual" => request[q].id = 1

\* Bound of the instance: the day begins with one kind of punch at most, nothing
\* summarised and every assignment approved; the changes bring the others.
PlainDay ==
    /\ summarised = {}
    /\ \A e \in Employees : Cardinality(punch[e]) <= 1 /\ plan[e] # "unapproved"

MCInit ==
    /\ part \in {"presumed", "manual"}
    /\ Init /\ PlainDay
    /\ part = "manual" => \A e \in Employees : /\ plan[e] = "none" /\ punch[e] = {}
                                               /\ excuse[e] = "none" /\ e \in active
                                               /\ e \notin summarised
    /\ ManualInit /\ FirstDay
    /\ part = "presumed" => punched = {} /\ absent = {}

MCPresumedNext == part = "presumed" /\ Next /\ UNCHANGED <<part, manualVars>>

MCManualNext == part = "manual" /\ ManualNext /\ FirstDay' /\ UNCHANGED <<part, vars>>

MCSpec == MCInit /\ [][MCPresumedNext \/ MCManualNext]_mcVars

\* Either the handlers or the requests have something to do.
Symmetry == {f @@ g : f \in Permutations(Handlers), g \in Permutations(Requests)}
=============================================================================
