-------------------------- MODULE AdvancedTreatment --------------------------
(* The advance on salary (advanced-treatment.service.ts): who is at risk over *)
(* a period, whom the staff confirm or freeze by requests at once, and whom  *)
(* the transfer file pays.                                                  *)
EXTENDS Integers, FiniteSets

CONSTANTS
    Workers,
    AdvanceRequests,   \* slots of the requests under way at once
    FirstDay, LastDay, \* the period
    Fridays,
    Facts,      \* what may be known of an employee: punches, declarations, account
    Nothing,    \* no confirmation, no account
    MaxChanges  \* bound on the changes of what is known

ASSUME AdvanceAssumption == FirstDay \in Int /\ LastDay \in Int /\ MaxChanges \in Nat

VARIABLES
    known,     \* per employee, the facts recorded now
    eligible,  \* the employees active, followed and hired six months ago
    confirmation, \* per employee, the confirmation of the period
    frozen,    \* the employees with a freeze of the period
    treatment, \* per request: what it does, of whom, where it is and what it read
    granted,   \* whether the last decision on the employee was to confirm him
    changes    \* how often what is known has changed

advanceVars == <<known, eligible, confirmation, frozen, treatment, granted, changes>>

Kinds == {"confirm", "unconfirm", "freeze", "unfreeze", "export"}

-----------------------------------------------------------------------------
(* computeRows() and calendar(): a row and its calendar.                    *)

Period == FirstDay..LastDay
WorkDays == Period \ Fridays

\* The days of the period that declarations cover, and the working days among them.
Covered(ranges) == {d \in Period : \E r \in ranges : d \in r[1]..r[2]}

Declared(ranges) == Covered(ranges) \ Fridays

\* A row counts the punches that count as presence, by their day in UTC.
PunchedOf(punches) == {p.utc : p \in {q \in punches : q.presence}} \cap Period

RiskOf(punched, empty, justified) ==
    IF punched = 0 /\ justified < Cardinality(WorkDays) THEN "HIGH"
    ELSE IF empty > 4 THEN "MEDIUM" ELSE "LOW"

RowOf(punches, sick, leaves) ==
    LET punched == PunchedOf(punches)
        justified == Declared(sick) \cup Declared(leaves)
        empty == WorkDays \ (punched \cup justified)
    IN  [punched |-> Cardinality(punched \ Fridays),
         empty |-> Cardinality(empty),
         justified |-> Cardinality(justified \ Fridays),
         risk |-> RiskOf(Cardinality(punched \ Fridays), Cardinality(empty),
                         Cardinality(justified \ Fridays))]

\* The calendar shows every punch, by its local day, and the Fridays declared.
Calendar(fact) ==
    [d \in Period |->
        [punches |-> {p \in fact.punches : p.local = d},
         sick |-> d \in Covered(fact.sick),
         leave |-> d \in Covered(fact.leaves)]]

-----------------------------------------------------------------------------
NoTreatment == [kind |-> "none", of |-> Nothing, at |-> "idle", read |-> {}, punches |-> {},
         sick |-> {}, leaves |-> {}, account |-> Nothing, confirmed |-> Nothing,
         frozen |-> FALSE, paid |-> Nothing, due |-> FALSE]

\* Of the queries made together, those whose answer the request uses.
QueriesOf(kind) ==
    CASE kind = "confirm" -> {"punches", "sick", "leaves"}
      [] kind = "export" -> {"confirmations", "freezes"}
      [] OTHER -> {}

Accounts == {f.account : f \in Facts} \cup {Nothing}

Confirmation ==
    [punched : Nat, empty : Nat, justified : Nat, risk : {"HIGH", "MEDIUM", "LOW"},
     account : Accounts, beneath : BOOLEAN]

Treatment ==
    [kind : Kinds \cup {"none"}, of : Workers \cup {Nothing},
     at : {"idle", "finding", "reading", "deleted", "done"},
     read : SUBSET {"punches", "sick", "leaves", "confirmations", "freezes"},
     punches : {f.punches : f \in Facts} \cup {{}},
     sick : {f.sick : f \in Facts} \cup {{}}, leaves : {f.leaves : f \in Facts} \cup {{}},
     account : Accounts, confirmed : Confirmation \cup {Nothing}, frozen : BOOLEAN,
     paid : Accounts, due : BOOLEAN]

AdvanceTypeOK ==
    /\ known \in [Workers -> Facts]
    /\ eligible \in SUBSET Workers
    /\ confirmation \in [Workers -> Confirmation \cup {Nothing}]
    /\ frozen \in SUBSET Workers
    /\ treatment \in [AdvanceRequests -> Treatment]
    /\ granted \in [Workers -> BOOLEAN]
    /\ changes \in 0..MaxChanges

AdvanceInit ==
    /\ known \in [Workers -> Facts]
    /\ eligible = Workers
    /\ confirmation = [e \in Workers |-> Nothing]
    /\ frozen = {}
    /\ treatment = [c \in AdvanceRequests |-> NoTreatment]
    /\ granted = [e \in Workers |-> FALSE]
    /\ changes = 0

\* Punches arrive, declarations are decided, SAP changes the account; an employee
\* leaves or is exempted.
Occurs(e) ==
    /\ changes < MaxChanges /\ changes' = changes + 1
    /\ \/ \E f \in Facts \ {known[e]} : known' = [known EXCEPT ![e] = f] /\ UNCHANGED eligible
       \/ e \in eligible /\ eligible' = eligible \ {e} /\ UNCHANGED known
    /\ UNCHANGED <<confirmation, frozen, treatment, granted>>

\* Of a request that has ended nothing is kept; of an export, whom it paid and whether
\* it was due.
Done == [NoTreatment EXCEPT !.at = "done"]

Requests(c) ==
    /\ treatment[c].at \in {"idle", "done"}
    /\ \E kind \in Kinds, e \in Workers :
         treatment' = [treatment EXCEPT ![c] = [NoTreatment EXCEPT !.kind = kind, !.of = e,
                                                !.at = "finding",
                                                !.due = kind = "export" /\ granted[e]]]
    /\ UNCHANGED <<known, eligible, confirmation, frozen, granted, changes>>

\* The employees of the period with their account; none, and the request is refused.
Finds(c) ==
    LET e == treatment[c].of
    IN  /\ treatment[c].at = "finding"
        /\ treatment[c].kind \in {"confirm", "freeze", "export"}
        /\ treatment' =
             IF e \in eligible
             THEN [treatment EXCEPT ![c].at = "reading", ![c].account = known[e].account]
             ELSE [treatment EXCEPT ![c] = Done]
        /\ UNCHANGED <<known, eligible, confirmation, frozen, granted, changes>>

\* The other queries are answered in any order.
Reads(c, query) ==
    LET e == treatment[c].of
        read == [treatment[c] EXCEPT !.read = @ \cup {query}]
    IN  /\ treatment[c].at = "reading"
        /\ query \in QueriesOf(treatment[c].kind) \ treatment[c].read
        /\ treatment' = [treatment EXCEPT ![c] =
             CASE query = "punches" -> [read EXCEPT !.punches = known[e].punches]
               [] query = "sick" -> [read EXCEPT !.sick = known[e].sick]
               [] query = "leaves" -> [read EXCEPT !.leaves = known[e].leaves]
               [] query = "confirmations" -> [read EXCEPT !.confirmed = confirmation[e]]
               [] query = "freezes" -> [read EXCEPT !.frozen = e \in frozen]]
        /\ UNCHANGED <<known, eligible, confirmation, frozen, granted, changes>>

ReadAll(c) ==
    treatment[c].at = "reading" /\ treatment[c].read = QueriesOf(treatment[c].kind)

\* A freeze of the employee has taken his confirmation out and is not yet written.
BeingFrozen(e) == \E c \in AdvanceRequests : treatment[c].of = e /\ treatment[c].at = "deleted"

\* The request ends; exports under way remember that the employee was granted.
Ends(c, e, decision) ==
    /\ granted' = [granted EXCEPT ![e] = decision]
    /\ treatment' = [d \in AdvanceRequests |->
         IF d = c THEN Done
         ELSE [treatment[d] EXCEPT
                 !.due = @ \/ (decision /\ treatment[d].kind = "export" /\ treatment[d].of = e)]]

\* confirm: the row computed is written, whether the employee is frozen or not.
ConfirmsRow(c) ==
    LET t == treatment[c]
        beneath == t.of \in frozen \/ BeingFrozen(t.of)
        row == RowOf(t.punches, t.sick, t.leaves)
    IN  /\ t.kind = "confirm" /\ ReadAll(c)
        /\ confirmation' = [confirmation EXCEPT ![t.of] =
             [punched |-> row.punched, empty |-> row.empty, justified |-> row.justified,
              risk |-> row.risk, account |-> t.account, beneath |-> beneath]]
        /\ Ends(c, t.of, ~beneath)
        /\ UNCHANGED <<known, eligible, frozen, changes>>

UnconfirmsRow(c) ==
    /\ treatment[c].kind = "unconfirm" /\ treatment[c].at = "finding"
    /\ confirmation' = [confirmation EXCEPT ![treatment[c].of] = Nothing]
    /\ Ends(c, treatment[c].of, FALSE)
    /\ UNCHANGED <<known, eligible, frozen, changes>>

\* freeze: the confirmation is taken out, then the freeze written; the second statement
\* may fail.  Mutant: the confirmation stays.
MutFreezeDeletes(c) ==
    /\ treatment[c].kind = "freeze" /\ ReadAll(c)
    /\ treatment' = [treatment EXCEPT ![c].at = "deleted"]
    /\ UNCHANGED <<known, eligible, confirmation, frozen, granted, changes>>

FreezeDeletes(c) ==
    /\ treatment[c].kind = "freeze" /\ ReadAll(c)
    /\ confirmation' = [confirmation EXCEPT ![treatment[c].of] = Nothing]
    /\ treatment' = [treatment EXCEPT ![c].at = "deleted"]
    /\ UNCHANGED <<known, eligible, frozen, granted, changes>>

Freezes(c) ==
    /\ treatment[c].at = "deleted"
    /\ \/ frozen' = frozen \cup {treatment[c].of}
       \/ UNCHANGED frozen
    /\ Ends(c, treatment[c].of, FALSE)
    /\ UNCHANGED <<known, eligible, confirmation, changes>>

Unfreezes(c) ==
    /\ treatment[c].kind = "unfreeze" /\ treatment[c].at = "finding"
    /\ frozen' = frozen \ {treatment[c].of}
    /\ treatment' = [treatment EXCEPT ![c] = Done]
    /\ UNCHANGED <<known, eligible, confirmation, granted, changes>>

\* exportConfirmedExcel: the account is the one SAP gives today.
Pays(c) ==
    LET t == treatment[c]
    IN  /\ t.kind = "export" /\ ReadAll(c)
        /\ treatment' = [treatment EXCEPT ![c] =
             IF t.confirmed # Nothing /\ ~t.frozen
             THEN [Done EXCEPT !.paid = t.account, !.due = t.due \/ t.confirmed.beneath]
             ELSE Done]
        /\ UNCHANGED <<known, eligible, confirmation, frozen, granted, changes>>

AdvanceNext ==
    \/ \E e \in Workers : Occurs(e)
    \/ \E c \in AdvanceRequests :
         \/ Requests(c) \/ Finds(c) \/ ConfirmsRow(c) \/ UnconfirmsRow(c)
         \/ FreezeDeletes(c) \/ Freezes(c) \/ Unfreezes(c) \/ Pays(c)
         \/ \E query \in QueriesOf(treatment[c].kind) : Reads(c, query)

AdvanceSpec == AdvanceInit /\ [][AdvanceNext]_advanceVars

-----------------------------------------------------------------------------
\* The transfer file pays an employee only if the last decision taken on him, when the
\* export began or since, was to confirm him: a freeze or a withdrawal is never undone
\* by a later unfreeze.  A confirmation written beneath a freeze, which the code does
\* not refuse (confirm, freeze), is the exception.
PayIsGranted ==
    \A c \in AdvanceRequests :
        treatment[c].paid # Nothing => treatment[c].due

\* The risk of a row is high exactly when the calendar shows no presence on a working
\* day and some working day without declaration, and its counts are those of the
\* calendar, but for punches of the hour whose day differs in UTC (computeRows, calendar).
RowIsFounded ==
    \A e \in Workers :
        LET fact == known[e]
            row == RowOf(fact.punches, fact.sick, fact.leaves)
            day == Calendar(fact)
            present == {d \in WorkDays : \E p \in day[d].punches : p.presence}
            excused == {d \in WorkDays : day[d].sick \/ day[d].leave}
        IN  (\A p \in fact.punches : p.utc = p.local) =>
                /\ row.punched = Cardinality(present)
                /\ row.justified = Cardinality(excused)
                /\ row.empty = Cardinality(WorkDays \ (present \cup excused))
                /\ row.risk = "HIGH" <=> present = {} /\ WorkDays \ excused # {}

\* What the transfer file pays was granted, and the risk and counts of a row are those
\* of its calendar (export, computeRows).
AdvanceIsSound == PayIsGranted /\ RowIsFounded
=============================================================================
