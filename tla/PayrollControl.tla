--------------------------- MODULE PayrollControl ---------------------------
(* The payroll control (payroll-control.service.ts): the bulletin lines of  *)
(* one period imported from SAP by requests at once, each in a transaction  *)
(* at read committed, the rows it shows of them, and the hours it compares. *)
EXTENDS Naturals, SequencesExt, TLC

CONSTANTS
    Imports,   \* requests that import the period
    Bulletins, \* what SAP may answer: sequences of [company, number, rubric, amount]
    Persons,   \* the employees followed
    RecordsOf, \* [Persons -> sets of <<company, number>>]: their SAP records, disjoint
    CodesOf,   \* [Persons -> sets of numbers]: those their own codes end with
    Selections, \* the sets of rubrics somebody selects
    Targets,   \* what a rubric may map to
    Blank      \* a rubric without code; no value

ASSUME PayAssumption == \A b \in Bulletins : DOMAIN b \subseteq Nat

VARIABLES
    lines,   \* the committed lines, as <<import, place in its answer>>
    mapping, \* the rubrics known, and what they map to
    request, \* per import: where it is, its answer, rubrics it upserted, lines it saw and took out
    checked  \* the confirmed pairs of an employee and a set of rubrics

payVars == <<lines, mapping, request, checked>>

\* The rubrics an answer names.
NamedIn(answer) == {answer[k].rubric : k \in DOMAIN answer} \ {Blank}

Rubrics == UNION {NamedIn(b) : b \in Bulletins}
Rows == Imports \X Nat

Import == [at : {"idle", "upserting", "deleting", "inserting", "done", "failed"},
           answer : Bulletins \cup {<<>>}, upserted : SUBSET Rubrics, seen : SUBSET Rows]

PayTypeOK ==
    /\ lines \in SUBSET Rows
    /\ DOMAIN mapping \in SUBSET Rubrics
    /\ mapping \in [DOMAIN mapping -> Targets \cup {"IGNORED"}]
    /\ request \in [Imports -> Import]
    /\ checked \in SUBSET (Persons \X Selections)

PayInit ==
    /\ lines = {}
    /\ mapping = [r \in {} |-> "IGNORED"]
    /\ request = [i \in Imports |-> [at |-> "idle", answer |-> <<>>, upserted |-> {},
                                     seen |-> {}]]
    /\ checked = {}

Open(i) == request[i].at \in {"upserting", "deleting", "inserting"}

\* A row written by an open transaction is locked until it ends; mutant: it is not.
MutHeld(r, i) == FALSE

Held(r, i) == \E j \in Imports \ {i} : Open(j) /\ r \in request[j].upserted

\* SAP is asked first, outside the transaction.
AsksLines(i) ==
    /\ request[i].at = "idle"
    /\ \E answer \in Bulletins :
         request' = [request EXCEPT ![i].at = "upserting", ![i].answer = answer]
    /\ UNCHANGED <<lines, mapping, checked>>

\* The lines whose rubric is still to be upserted.
Left(i) ==
    LET w == request[i] IN {k \in DOMAIN w.answer : w.answer[k].rubric \notin w.upserted \cup {Blank}}

\* The rubrics in the order of the answer, then the statement that takes the lines out.
Upserts(i) ==
    /\ request[i].at = "upserting"
    /\ \/ /\ Left(i) = {}
          /\ request' = [request EXCEPT ![i].at = "deleting", ![i].seen = lines]
       \/ \E k \in Left(i) :
          LET r == request[i].answer[k].rubric IN
            /\ \A j \in Left(i) : k <= j
            /\ ~Held(r, i)
            /\ request' = [request EXCEPT ![i].upserted = @ \cup {r}]
    /\ UNCHANGED <<lines, mapping, checked>>

\* The lines seen when the statement began are taken out; those that another
\* transaction is taking out are waited for, its own lines are not seen.
Deletes(i) ==
    /\ request[i].at = "deleting"
    /\ \A j \in Imports \ {i} : request[j].at = "inserting"
                                  => request[j].seen \cap request[i].seen \cap lines = {}
    /\ request' = [request EXCEPT ![i].at = "inserting"]
    /\ UNCHANGED <<lines, mapping, checked>>

Given(i) == {k \in DOMAIN request[i].answer : request[i].answer[k].rubric # Blank}

\* The lines are created and the transaction commits; the audit record follows.
Commits(i) ==
    /\ request[i].at = "inserting"
    /\ lines' = (lines \ request[i].seen) \cup ({i} \X Given(i))
    /\ mapping' = [r \in DOMAIN mapping \cup request[i].upserted |->
                     IF r \in DOMAIN mapping THEN mapping[r] ELSE "IGNORED"]
    /\ \E at \in {"done", "failed"} : request' = [request EXCEPT ![i].at = at]
    /\ UNCHANGED checked

\* SAP, a statement or the time allowed fails, or two transactions wait for each other.
ImportFails(i) ==
    /\ Open(i)
    /\ request' = [request EXCEPT ![i].at = "failed"]
    /\ UNCHANGED <<lines, mapping, checked>>

\* updateRubric: waits for whoever is importing the rubric.
UpdateRubric(r, target) ==
    /\ r \in DOMAIN mapping
    /\ \A i \in Imports : ~(Open(i) /\ r \in request[i].upserted)
    /\ mapping' = [mapping EXCEPT ![r] = target]
    /\ UNCHANGED <<lines, request, checked>>

\* confirm and restore, for the exact set of rubrics selected.
Confirm(e, scope) ==
    /\ checked' = checked \cup {<<e, scope>>}
    /\ UNCHANGED <<lines, mapping, request>>

Restore(e, scope) ==
    /\ checked' = checked \ {<<e, scope>>}
    /\ UNCHANGED <<lines, mapping, request>>

PayNext ==
    \/ \E i \in Imports : AsksLines(i) \/ Upserts(i) \/ Deletes(i) \/ Commits(i) \/ ImportFails(i)
    \/ \E r \in Rubrics, target \in Targets : UpdateRubric(r, target)
    \/ \E e \in Persons, scope \in Selections : Confirm(e, scope) \/ Restore(e, scope)

PaySpec == PayInit /\ [][PayNext]_payVars

-----------------------------------------------------------------------------
(* rows(): what the control shows for a selection of rubrics.               *)

Line(row) == request[row[1]].answer[row[2]]

\* The employee a line is shown with: the one with the SAP record, or else one whose
\* code ends with the number, whatever his company; Blank for a line of SAP alone.
OwnerOf(l) ==
    LET linked == {e \in Persons : <<l.company, l.number>> \in RecordsOf[e]}
        coded == {e \in Persons : l.number \in CodesOf[e]}
    IN  IF linked # {} THEN CHOOSE e \in linked : TRUE
        ELSE IF coded # {} THEN CHOOSE e \in coded : TRUE ELSE Blank

\* The key of the row a line is added to.
KeyOf(l) == IF OwnerOf(l) # Blank THEN <<OwnerOf(l)>> ELSE <<l.company, l.number>>

\* A line is added to the amount of its row and rubric; mutant: replaces it.
MutAdded(amounts, key, r, amount) ==
    [k \in DOMAIN amounts \cup {<<key, r>>} |-> IF k = <<key, r>> THEN amount ELSE amounts[k]]

Added(amounts, key, r, amount) ==
    [k \in DOMAIN amounts \cup {<<key, r>>} |->
        (IF k \in DOMAIN amounts THEN amounts[k] ELSE 0)
            + (IF k = <<key, r>> THEN amount ELSE 0)]

\* The amounts of the rows, by row and rubric.
Amounts(scope) ==
    FoldSet(LAMBDA row, amounts :
                Added(amounts, KeyOf(Line(row)), Line(row).rubric, Line(row).amount),
            [k \in {} |-> 0], {row \in lines : Line(row).rubric \in scope})

\* The rows of a tab: confirmed ones, and the others with those of SAP alone.
Shown(scope, tab) ==
    {k \in {key[1] : key \in DOMAIN Amounts(scope)} :
        (tab = "confirmed") <=> \E e \in Persons : k = <<e>> /\ <<e, scope>> \in checked}

-----------------------------------------------------------------------------
(* operationalRows(): the days SAP counts beside the employees followed.    *)

\* An employee has a row before any of SAP, under a record of his or his own key.
SeedOf(e) == IF RecordsOf[e] = {} THEN <<e>> ELSE CHOOSE record \in RecordsOf[e] : TRUE

Seeds ==
    [key \in {SeedOf(e) : e \in Persons} |->
        [local |-> CHOOSE e \in Persons : SeedOf(e) = key, days |-> 0]]

\* A line of SAP joins the row of its key, or that of its employee, which takes the
\* key; mutant: the row also stays under its former key.
Without(grouped, keys) == [k \in DOMAIN grouped \ keys |-> grouped[k]]

Joins(grouped, l) ==
    LET key == <<l.company, l.number>>
        held == {k \in DOMAIN grouped : OwnerOf(l) # Blank /\ grouped[k].local = OwnerOf(l)}
        current == IF key \in DOMAIN grouped THEN grouped[key]
                   ELSE IF held # {} THEN grouped[CHOOSE k \in held : TRUE]
                   ELSE [local |-> OwnerOf(l), days |-> 0]
    IN  (key :> [current EXCEPT !.days = @ + l.amount]) @@ Without(grouped, held)

Operational(answer) == FoldLeft(Joins, Seeds, answer)

-----------------------------------------------------------------------------
TotalOf(amounts, keys) == MapThenSumSet(LAMBDA k : amounts[k], keys)

\* The period holds the lines of one answer of SAP, all of them: imports at once never
\* add up, because the rubrics they share are upserted before the lines are replaced,
\* and held until the commit (importPeriod). Only answers without a common rubric may.
ImportIsWhole ==
    /\ \A row \in lines : {row[1]} \X Given(row[1]) \subseteq lines
    /\ \A a, b \in lines :
         a[1] # b[1] => NamedIn(request[a[1]].answer) \cap NamedIn(request[b[1]].answer) = {}

\* Whatever is selected and confirmed, every line is counted once, in a row of one of
\* the two tabs, whether its employee is known or not (rows).
AmountsAreCounted ==
    \A scope \in Selections :
        LET amounts == Amounts(scope)
            confirmed == Shown(scope, "confirmed")
            pending == Shown(scope, "pending")
        IN  /\ confirmed \cap pending = {}
            /\ \A r \in scope :
                 TotalOf(amounts, {k \in DOMAIN amounts : k[2] = r /\ k[1] \in confirmed \cup pending})
                   = MapThenSumSet(LAMBDA row : Line(row).amount,
                                   {row \in lines : Line(row).rubric = r})

\* Every employee has one row and every day SAP counts is in one row, that of its
\* employee when he is known, in whatever order SAP gives its lines (operationalRows).
DaysAreGathered ==
    \A i \in Imports :
    LET grouped == Operational(request[i].answer)
        DaysOf(owner) == FoldLeft(LAMBDA sum, l : IF OwnerOf(l) = owner THEN sum + l.amount
                                                  ELSE sum, 0, request[i].answer)
    IN  /\ \A e \in Persons :
             \E key \in DOMAIN grouped :
                /\ grouped[key].days = DaysOf(e)
                /\ {k \in DOMAIN grouped : grouped[k].local = e} = {key}
        /\ TotalOf([k \in DOMAIN grouped |-> grouped[k].days],
                   {k \in DOMAIN grouped : grouped[k].local = Blank}) = DaysOf(Blank)

\* Both: nothing SAP gives is lost or counted twice in the rows (rows, operationalRows).
LinesAreCounted == AmountsAreCounted /\ DaysAreGathered
=============================================================================
