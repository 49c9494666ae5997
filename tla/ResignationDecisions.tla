------------------------ MODULE ResignationDecisions ------------------------
(* The decisions of resignation and of change of position                   *)
(* (resignation-decisions.service.ts): numbered documents, generated once    *)
(* and again on demand by requests at once, each in a serializable           *)
(* transaction that also writes a file.                                     *)
EXTENDS Naturals

CONSTANTS
    Employees, \* employees
    Demands,   \* requests
    Series     \* a unit and a year, which number their decisions

ASSUME DecisionAssumption == Employees # {} /\ Series # {}

VARIABLES
    resigned,  \* the employees whose status is RESIGNED
    counter,   \* per series, the committed last number
    decisions, \* the committed decisions
    pdfs,      \* the requests whose file is on the disk
    demand     \* per request: what it asks, where it is, its series and number

decisionVars == <<resigned, counter, decisions, pdfs, demand>>

Types == {"RESIGNATION", "POSITION_CHANGE"}

Decision ==
    [of : Employees, type : Types, series : Series, number : Nat, by : Demands]

Demand ==
    [of : Employees, type : Types, again : BOOLEAN,
     at : {"idle", "checking", "entering", "waiting", "printing", "creating", "created", "ended"},
     series : Series, number : Nat, before : SUBSET Demands]

DecisionTypeOK ==
    /\ resigned \subseteq Employees
    /\ counter \in [Series -> Nat]
    /\ decisions \subseteq Decision
    /\ pdfs \subseteq Demands
    /\ demand \in [Demands -> Demand]

Idle == [of |-> CHOOSE e \in Employees : TRUE, type |-> "RESIGNATION", again |-> FALSE,
         at |-> "idle", series |-> CHOOSE s \in Series : TRUE, number |-> 0, before |-> {}]

\* Nothing is kept of a demand that ends without a new decision.
Ended == [Idle EXCEPT !.at = "ended"]

DecisionInit ==
    /\ resigned \in SUBSET Employees
    /\ counter = [s \in Series |-> 0]
    /\ decisions = {}
    /\ pdfs = {}
    /\ demand = [c \in Demands |-> Idle]

Committed == {d.by : d \in decisions}

\* BioTime makes an employee resigned, or active again.
StatusChanges(e) ==
    /\ resigned' = IF e \in resigned THEN resigned \ {e} ELSE resigned \cup {e}
    /\ UNCHANGED <<counter, decisions, pdfs, demand>>

\* A demand begins by reading the latest decision, which may be its answer.
Begins(c, e, type, again, answered) ==
    /\ demand[c].at = "idle"
    /\ demand' = [demand EXCEPT ![c] =
         IF answered THEN Ended
         ELSE [Idle EXCEPT !.of = e, !.type = type, !.again = again,
                           !.at = "checking", !.before = Committed]]
    /\ UNCHANGED <<resigned, counter, decisions, pdfs>>

Asks(c) ==
    \E e \in Employees, type \in Types, again \in BOOLEAN :
        LET previous == {d \in decisions : d.of = e /\ d.type = type}
        IN  Begins(c, e, type, again, previous # {} /\ ~again)

\* context: the employee must have resigned, his unit comes from the chart or from SAP;
\* the year from the date asked.  Without unit or with a bad date the demand is refused.
Checks(c) ==
    LET q == demand[c]
    IN  /\ q.at = "checking"
        /\ \/ \E s \in Series :
                /\ q.type = "RESIGNATION" => q.of \in resigned
                /\ demand' = [demand EXCEPT ![c].at = "entering", ![c].series = s]
           \/ demand' = [demand EXCEPT ![c] = Ended]
        /\ UNCHANGED <<resigned, counter, decisions, pdfs>>

\* An open transaction holds the number of its series.
Holds(c) == demand[c].at \in {"printing", "creating"}

Held(c) == \E d \in Demands : Holds(d) /\ demand[d].series = demand[c].series

\* The upsert of the sequence waits for the transaction that holds it.
Waits(c) ==
    /\ demand[c].at = "entering" /\ Held(c)
    /\ demand' = [demand EXCEPT ![c].at = "waiting"]
    /\ UNCHANGED <<resigned, counter, decisions, pdfs>>

Numbers(c) ==
    /\ demand[c].at \in {"entering", "waiting"} /\ ~Held(c)
    /\ demand' = [demand EXCEPT ![c].at = "printing",
                                ![c].number = counter[demand[c].series] + 1]
    /\ UNCHANGED <<resigned, counter, decisions, pdfs>>

PrintsDocument(c) ==
    /\ demand[c].at = "printing"
    /\ pdfs' = pdfs \cup {c}
    /\ demand' = [demand EXCEPT ![c].at = "creating"]
    /\ UNCHANGED <<resigned, counter, decisions>>

\* The row is created and the transaction commits; whoever waited for the number fails.
Creates(c) ==
    LET q == demand[c]
    IN  /\ q.at = "creating"
        /\ counter' = [counter EXCEPT ![q.series] = q.number]
        /\ decisions' = decisions \cup {[of |-> q.of, type |-> q.type, series |-> q.series,
                                         number |-> q.number, by |-> c]}
        /\ demand' = [d \in Demands |->
             IF d = c THEN [Idle EXCEPT !.at = "created", !.again = q.again,
                                        !.before = q.before]
             ELSE IF demand[d].at = "waiting" /\ demand[d].series = q.series
             THEN Ended ELSE demand[d]]
        /\ UNCHANGED <<resigned, pdfs>>

\* No browser, an error, 45 seconds or a crash: the transaction is rolled back, the
\* file stays.  Mutant: the number stays too.
MutUndoes(c) ==
    /\ demand[c].at \in {"entering", "waiting", "printing", "creating"}
    /\ demand' = [demand EXCEPT ![c] = Ended]
    /\ counter' = IF Holds(c) THEN [counter EXCEPT ![demand[c].series] = demand[c].number]
                  ELSE counter
    /\ UNCHANGED <<resigned, decisions, pdfs>>

Undoes(c) ==
    /\ demand[c].at \in {"entering", "waiting", "printing", "creating"}
    /\ demand' = [demand EXCEPT ![c] = Ended]
    /\ UNCHANGED <<resigned, counter, decisions, pdfs>>

DecisionNext ==
    \/ \E e \in Employees : StatusChanges(e)
    \/ \E c \in Demands :
         Asks(c) \/ Checks(c) \/ Waits(c) \/ Numbers(c) \/ PrintsDocument(c) \/ Creates(c) \/ Undoes(c)

DecisionSpec == DecisionInit /\ [][DecisionNext]_decisionVars

-----------------------------------------------------------------------------
\* The numbers of a unit and a year have neither gap nor double, whatever fails, and the
\* file of every decision is on the disk (generate).
NumbersAreWhole ==
    /\ \A s \in Series : {d.number : d \in {x \in decisions : x.series = s}} = 1..counter[s]
    /\ \A d, x \in decisions : d.series = x.series /\ d.number = x.number => d = x
    /\ Committed \subseteq pdfs

\* An employee has a second decision of a type only if it was asked for again, or if the
\* two demands overlapped: nothing in the schema forbids it (generate).
DecidedAgain ==
    \A d, x \in decisions :
        (d # x /\ d.of = x.of /\ d.type = x.type /\ d.by \in demand[x.by].before)
            => demand[x.by].again

\* The decisions keep both, whatever else is asked for or fails (generate).
DecisionsAreWhole == NumbersAreWhole /\ DecidedAgain
=============================================================================
