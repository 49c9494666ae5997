------------------------- MODULE MCLeaveDeclarations -------------------------
(* Instances for TLC of LeaveDeclarations, four days in two years, and of  *)
(* WebPages. A page asks the server for rows of any kind, so the two are   *)
(* explored one at a time: part says which one acts.                       *)
EXTENDS LeaveDeclarations, WebPages, TLC

CONSTANTS
    CrowdLeaves,  \* leaves there are once requests have overlapped
    CrowdKinds,   \* their types
    CrowdPeriods, \* their periods
    CrowdModes    \* who declares them

VARIABLE part

MCDays == 1..4
MCYearOf == [d \in MCDays |-> IF d <= 2 THEN 1 ELSE 2]

\* In the first year, across both, in the second.
MCPeriods == {[start |-> 1, end |-> 2], [start |-> 2, end |-> 3], [start |-> 4, end |-> 4]}

\* Bound of the instance: one request at a time meets every leave there may be,
\* requests that overlap, or follow one that broke after its write, meet fewer of
\* them, and those that overlap do not break after their writes.
Crowd ==
    /\ Cardinality({l \in Leaves : row[l] # Unused})
        + Cardinality({r \in Requests : form[r] # Unused /\ target[r] = Unused})
            <= CrowdLeaves
    /\ \A r \in Requests :
         form[r] # Unused => /\ form[r].kind \in CrowdKinds
                             /\ form[r].period \in CrowdPeriods
                             /\ form[r].mode \in CrowdModes
    /\ \A l \in Leaves :
         Live(l) => row[l].kind \in CrowdKinds /\ row[l].period \in CrowdPeriods

mcVars == <<part, vars, webVars>>

MCInit ==
    /\ part \in {"leaves", "pages"}
    /\ Init /\ WebInit
    /\ part = "leaves" => page = Shape(MessagesPage)

LeavesNext ==
    /\ part = "leaves" /\ Next
    /\ overlapped' \/ owing' # {} => Crowd'
    /\ overlapped' => owing' = {}
    /\ UNCHANGED <<part, webVars>>

\* Bound of the instance: once loads have crossed, one handler at a time.
FewActs == Cardinality({a \in Acts : Busy(act, a)}) <= 1

PagesNext ==
    part = "pages" /\ WebNext /\ (crossed' => FewActs') /\ UNCHANGED <<part, vars>>

MCSpec == MCInit /\ [][LeavesNext \/ PagesNext]_mcVars

\* Across both years, and in the second.
MCCrowdPeriods == {p \in MCPeriods : p.end > 2}

\* Loads are the Leaves, Acts the Requests.
Symmetry == Permutations(Leaves) \cup Permutations(Requests)
=============================================================================
