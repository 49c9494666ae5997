-------------------------- MODULE LeaveDeclarations --------------------------
(***************************************************************************)
(* The leaves of ManualDeclarationsService (src/apps/api/src/attendance/   *)
(* manual-declarations.service.ts): declaration, modification, deletion    *)
(* and review of the leaves of one employee, the rules a declaration is    *)
(* validated against, and the annual balance recomputed after each change. *)
(*                                                                         *)
(* A handler awaits the database between its queries, so each query is a   *)
(* step.  The balance of a year is daysEntitled minus daysTaken, and       *)
(* daysTaken sums the days of the approved annual leaves of the year: it   *)
(* is represented by the set of leaves that were summed.  A query, or the  *)
(* record of the audit between the write and the recalculation, may fail:  *)
(* what was written stays, and the balances are those of before.           *)
(***************************************************************************)
EXTENDS Integers, FiniteSets

CONSTANTS
    Leaves,      \* ids of leave_declaration rows
    Requests,    \* requests in flight at once
    Days,        \* calendar days
    YearOf,      \* year of a day
    Periods,     \* [start |-> d, end |-> e] a form may carry
    Kinds,       \* leave types in use
    Modes,       \* who declares: see Form
    MaxShort,    \* longest exceptional leave (3 days)
    MaxUnpaid,   \* unpaid days granted in a year (10)
    Unused,      \* id not given to a row yet
    Deleted      \* row that has been deleted

Years == {YearOf[d] : d \in Days}

\* Leave types; an exceptional leave for the Hajj has rules of its own.
LeaveTypes == {"ANNUEL", "SANS_SOLDE", "EXCEPTIONNEL", "HAJJ"}

\* A declarer whose leaves wait for a review, an Admin or DRH, or an Admin or
\* DRH who gives a note, which overrides the rules (canOverride).
Form == [period : Periods, kind : Kinds, mode : Modes]

Row == [period : Periods, kind : LeaveTypes,
        status : {"PENDING", "APPROVED", "REJECTED"}]

ASSUME CalendarAssumption ==
    /\ Days \subseteq Int
    /\ YearOf \in [Days -> Int]
    /\ \A d, e \in Days : d <= e => YearOf[d] <= YearOf[e]
    /\ \A d, e \in Days : YearOf[d]..YearOf[e] \subseteq Years
    /\ Periods \subseteq [start : Days, end : Days]
    /\ \A p \in Periods : p.start <= p.end /\ p.start..p.end \subseteq Days
    /\ \A y \in Years : IsFiniteSet({d \in Days : YearOf[d] = y})

ASSUME NamesAssumption ==
    /\ Kinds \subseteq LeaveTypes
    /\ Unused \notin Leaves \cup Row \cup Form
    /\ Deleted \notin Row
    /\ Deleted # Unused

ASSUME RulesAssumption ==
    /\ IsFiniteSet(Leaves)
    /\ MaxShort \in Nat
    /\ MaxUnpaid \in Nat

VARIABLES
    row,       \* the leave_declaration table
    balance,   \* leaves summed in annual_leave_balance.daysTaken of a year
    phase,     \* the query a request is about to make
    target,    \* the leave it is about, Unused for a creation
    form,      \* what it was submitted with
    before,    \* the row updateLeave or deleteLeave read
    todo,      \* years its current loop still has to visit
    snapshot,  \* the leaves its recalculation has summed
    overlapped, \* history: a request went on while another was in flight
    owing      \* history: years a failed request has left to recalculate

request == <<phase, target, form, before, todo, snapshot>>
vars == <<row, balance, request, overlapped, owing>>

-----------------------------------------------------------------------------
Live(l) == row[l] \in Row

\* yearsBetween(dateStart, dateEnd)
YearsOf(p) == YearOf[p.start]..YearOf[p.end]

\* The smallest period that contains p and q.
Hull(p, q) == [start |-> IF p.start < q.start THEN p.start ELSE q.start,
               end |-> IF p.end > q.end THEN p.end ELSE q.end]

\* daysInclusive(dateStart, dateEnd)
Length(p) == p.end - p.start + 1

\* The days of p in year y: overlapDays(...).
DaysIn(p, y) == {d \in p.start..p.end : YearOf[d] = y}

\* The leaves recalculateAnnualLeaveBalance sums for year y.
Taken(y) ==
    {t \in Leaves \X Periods :
        /\ row[t[1]] = [period |-> t[2], kind |-> "ANNUEL", status |-> "APPROVED"]
        /\ y \in YearsOf(t[2])}

First(years, y) == y \in years /\ \A z \in years : y <= z

StatusOf(mode) == IF mode = "pending" THEN "PENDING" ELSE "APPROVED"

TypeOK ==
    /\ row \in [Leaves -> Row \cup {Unused, Deleted}]
    /\ balance \in [Years -> SUBSET (Leaves \X Periods)]
    /\ phase \in [Requests -> {"idle", "duplicate", "rules", "write", "delete",
                               "recalc", "save"}]
    /\ target \in [Requests -> Leaves \cup {Unused}]
    /\ form \in [Requests -> Form \cup {Unused}]
    /\ before \in [Requests -> Row \cup {Unused}]
    /\ todo \in [Requests -> SUBSET Years]
    /\ snapshot \in [Requests -> SUBSET (Leaves \X Periods)]
    /\ overlapped \in BOOLEAN
    /\ owing \in SUBSET Years

Init ==
    /\ row = [l \in Leaves |-> Unused]
    /\ balance = [y \in Years |-> {}]
    /\ phase = [r \in Requests |-> "idle"]
    /\ target = [r \in Requests |-> Unused]
    /\ form = [r \in Requests |-> Unused]
    /\ before = [r \in Requests |-> Unused]
    /\ todo = [r \in Requests |-> {}]
    /\ snapshot = [r \in Requests |-> {}]
    /\ overlapped = FALSE
    /\ owing = {}

\* Request r moves on to query p, with the years t to visit.
Goto(r, p, t) ==
    /\ phase' = [phase EXCEPT ![r] = p]
    /\ todo' = [todo EXCEPT ![r] = t]
    /\ overlapped' = (overlapped \/ \E q \in Requests \ {r} : phase[q] # "idle")

\* What r remembers of the row and of its form is no longer used.
Forget(r) ==
    /\ target' = [target EXCEPT ![r] = Unused]
    /\ form' = [form EXCEPT ![r] = Unused]
    /\ before' = [before EXCEPT ![r] = Unused]

\* r goes on to recalculate the balances of `years`, or ends if there are none.
Recalculate(r, years) ==
    /\ Goto(r, IF years = {} THEN "idle" ELSE "recalc", years)
    /\ Forget(r)
    /\ UNCHANGED <<balance, snapshot, owing>>

\* r ends with an error.
Fail(r) ==
    /\ Goto(r, "idle", {})
    /\ Forget(r)
    /\ UNCHANGED <<row, balance, snapshot, owing>>

-----------------------------------------------------------------------------
(* Declaring and modifying                                                 *)

\* Bound of the model: no more rows are created than it has ids.
IdIsLeft ==
    LET creating == {r \in Requests : form[r] # Unused /\ target[r] = Unused}
        free == {l \in Leaves : row[l] = Unused}
    IN  Cardinality(creating) < Cardinality(free)

\* createLeave, up to the first query of validateLeaveRules.
StartCreate(r, f) ==
    /\ phase[r] = "idle"
    /\ IdIsLeft
    /\ Goto(r, "duplicate", {})
    /\ form' = [form EXCEPT ![r] = f]
    /\ UNCHANGED <<row, balance, target, before, snapshot, owing>>

\* updateLeave reads the row, whatever its status.
StartUpdate(r, l, f) ==
    /\ phase[r] = "idle"
    /\ Live(l)
    /\ Goto(r, "duplicate", {})
    /\ form' = [form EXCEPT ![r] = f]
    /\ target' = [target EXCEPT ![r] = l]
    /\ before' = [before EXCEPT ![r] = row[l]]
    /\ UNCHANGED <<row, balance, snapshot, owing>>

\* The other leaves of the employee (excludeId).
Others(r) == {l \in Leaves \ {target[r]} : Live(l)}

\* Mutant of IsDuplicate: only approved leaves are looked for.
MutIsDuplicate(r) ==
    \E l \in Others(r) : row[l].period = form[r].period /\ row[l].status = "APPROVED"

IsDuplicate(r) ==
    \E l \in Others(r) : row[l].period = form[r].period /\ row[l].status # "REJECTED"

TooLong(r) ==
    /\ form[r].kind = "EXCEPTIONNEL"
    /\ Length(form[r].period) > MaxShort
    /\ form[r].mode # "forced"

\* Approved leaves of the type asked for, the one under modification excepted.
Granted(r) ==
    {l \in Others(r) : row[l].kind = form[r].kind /\ row[l].status = "APPROVED"}

HajjTaken(r) ==
    /\ form[r].kind = "HAJJ"
    /\ Granted(r) # {}
    /\ form[r].mode # "forced"

\* The days of these leaves in year y: the sum of overlapDays(...).
DaysOf(leaves, y) == {t \in leaves \X Days : t[2] \in DaysIn(row[t[1]].period, y)}

OverQuota(r, y) ==
    /\ form[r].kind = "SANS_SOLDE"
    /\ Cardinality(DaysOf(Granted(r), y)) + Cardinality(DaysIn(form[r].period, y)) > MaxUnpaid
    /\ form[r].mode # "forced"

\* The query for an exact duplicate, and the rules that need no other query.
CheckDuplicate(r) ==
    /\ phase[r] = "duplicate"
    /\ ~IsDuplicate(r)
    /\ ~TooLong(r)
    /\ Goto(r, IF form[r].kind \in {"HAJJ", "SANS_SOLDE"} THEN "rules" ELSE "write",
               IF form[r].kind = "SANS_SOLDE" THEN YearsOf(form[r].period) ELSE {})
    /\ UNCHANGED <<row, balance, target, form, before, snapshot, owing>>

\* The query for a Hajj leave already granted.
CheckHajj(r) ==
    /\ phase[r] = "rules"
    /\ form[r].kind = "HAJJ"
    /\ ~HajjTaken(r)
    /\ Goto(r, "write", {})
    /\ UNCHANGED <<row, balance, target, form, before, snapshot, owing>>

\* The query for the unpaid leaves of one year.
CheckUnpaid(r, y) ==
    /\ phase[r] = "rules"
    /\ First(todo[r], y)
    /\ ~OverQuota(r, y)
    /\ Goto(r, IF todo[r] = {y} THEN "write" ELSE "rules", todo[r] \ {y})
    /\ UNCHANGED <<row, balance, target, form, before, snapshot, owing>>

\* validateLeaveRules throws.
Refuse(r) ==
    /\ \/ phase[r] = "duplicate" /\ (IsDuplicate(r) \/ TooLong(r))
       \/ phase[r] = "rules" /\ HajjTaken(r)
       \/ phase[r] = "rules" /\ \E y \in Years : First(todo[r], y) /\ OverQuota(r, y)
    /\ Fail(r)

FormRow(r) == [period |-> form[r].period, kind |-> form[r].kind,
               status |-> StatusOf(form[r].mode)]

\* The insert of createLeave: only an approved annual leave is recalculated.
InsertRow(r, l) ==
    /\ phase[r] = "write"
    /\ target[r] = Unused
    /\ row[l] = Unused
    /\ row' = [row EXCEPT ![l] = FormRow(r)]
    /\ Recalculate(r, IF form[r].kind = "ANNUEL" /\ form[r].mode # "pending"
                        THEN YearsOf(form[r].period) ELSE {})

\* Mutant of UpdateRow: the balances of the former dates are forgotten.
MutUpdateRow(r) ==
    LET l == target[r] IN
    /\ phase[r] = "write"
    /\ l # Unused
    /\ Live(l)
    /\ row' = [row EXCEPT ![l] = FormRow(r)]
    /\ Recalculate(r, YearsOf(form[r].period))

\* The update of updateLeave: it replaces the status, and recalculates from
\* the earlier start to the later end of the row it read and of the form.
UpdateRow(r) ==
    LET l == target[r] IN
    /\ phase[r] = "write"
    /\ l # Unused
    /\ Live(l)
    /\ row' = [row EXCEPT ![l] = FormRow(r)]
    /\ Recalculate(r, YearsOf(Hull(before[r].period, form[r].period)))

-----------------------------------------------------------------------------
(* Deleting, reviewing, consulting                                         *)

\* deleteLeave reads the row.
StartDelete(r, l) ==
    /\ phase[r] = "idle"
    /\ Live(l)
    /\ Goto(r, "delete", {})
    /\ target' = [target EXCEPT ![r] = l]
    /\ before' = [before EXCEPT ![r] = row[l]]
    /\ UNCHANGED <<row, balance, form, snapshot, owing>>

\* deleteLeave deletes it, and relies on what it read.
DeleteRow(r) ==
    /\ phase[r] = "delete"
    /\ Live(target[r])
    /\ row' = [row EXCEPT ![target[r]] = Deleted]
    /\ Recalculate(r, IF before[r].kind = "ANNUEL" THEN YearsOf(before[r].period) ELSE {})

\* The row to update or delete is gone: the query throws.
RowIsGone(r) ==
    /\ phase[r] \in {"write", "delete"}
    /\ target[r] # Unused
    /\ ~Live(target[r])
    /\ Fail(r)

Reviewed(l, v) == [period |-> row[l].period, kind |-> row[l].kind, status |-> v]

\* Mutant of Review: a rejected leave does not give its days back.
MutReview(r, l, v) ==
    /\ phase[r] = "idle"
    /\ Live(l)
    /\ row' = [row EXCEPT ![l] = Reviewed(l, v)]
    /\ Recalculate(r, IF row[l].kind = "ANNUEL" /\ v = "APPROVED"
                        THEN YearsOf(row[l].period) ELSE {})

\* approve and reject: one update, whatever the status was, and no rule is
\* validated again.
Review(r, l, v) ==
    /\ phase[r] = "idle"
    /\ Live(l)
    /\ row' = [row EXCEPT ![l] = Reviewed(l, v)]
    /\ Recalculate(r, IF row[l].kind = "ANNUEL" THEN YearsOf(row[l].period) ELSE {})

\* annualLeaveBalance: consulting a balance recalculates it.
Consult(r, y) ==
    /\ phase[r] = "idle"
    /\ Recalculate(r, {y})
    /\ UNCHANGED row

\* recalculateAnnualLeaveBalance: the query for the leaves of the year...
RecalcReads(r, y) ==
    /\ phase[r] = "recalc"
    /\ First(todo[r], y)
    /\ phase' = [phase EXCEPT ![r] = "save"]
    /\ snapshot' = [snapshot EXCEPT ![r] = Taken(y)]
    /\ UNCHANGED <<row, balance, target, form, before, todo, overlapped, owing>>

\* ... and the upsert of the balance.
RecalcSaves(r, y) ==
    /\ phase[r] = "save"
    /\ First(todo[r], y)
    /\ balance' = [balance EXCEPT ![y] = snapshot[r]]
    /\ Goto(r, IF todo[r] = {y} THEN "idle" ELSE "recalc", todo[r] \ {y})
    /\ snapshot' = [snapshot EXCEPT ![r] = {}]
    /\ owing' = owing \ {y}
    /\ UNCHANGED <<row, target, form, before>>

\* A query of r fails, or the audit of createLeave does: the years it had still
\* to recalculate keep their balances.
Breaks(r) ==
    /\ phase[r] # "idle"
    /\ Goto(r, "idle", {})
    /\ Forget(r)
    /\ snapshot' = [snapshot EXCEPT ![r] = {}]
    /\ owing' = owing \cup IF phase[r] \in {"recalc", "save"} THEN todo[r] ELSE {}
    /\ UNCHANGED <<row, balance>>

-----------------------------------------------------------------------------
Next ==
    \/ \E r \in Requests, f \in Form : StartCreate(r, f)
    \/ \E r \in Requests, l \in Leaves, f \in Form : StartUpdate(r, l, f)
    \/ \E r \in Requests : CheckDuplicate(r)
    \/ \E r \in Requests : CheckHajj(r)
    \/ \E r \in Requests, y \in Years : CheckUnpaid(r, y)
    \/ \E r \in Requests : Refuse(r)
    \/ \E r \in Requests, l \in Leaves : InsertRow(r, l)
    \/ \E r \in Requests : UpdateRow(r)
    \/ \E r \in Requests, l \in Leaves : StartDelete(r, l)
    \/ \E r \in Requests : DeleteRow(r)
    \/ \E r \in Requests : RowIsGone(r)
    \/ \E r \in Requests, l \in Leaves, v \in {"APPROVED", "REJECTED"} : Review(r, l, v)
    \/ \E r \in Requests, y \in Years : Consult(r, y)
    \/ \E r \in Requests, y \in Years : RecalcReads(r, y)
    \/ \E r \in Requests, y \in Years : RecalcSaves(r, y)
    \/ \E r \in Requests : Breaks(r)

Spec == Init /\ [][Next]_vars

-----------------------------------------------------------------------------
(* Properties                                                              *)

\* r is about to write to a row that changed since it read it.
StaleReading(r) == target[r] # Unused /\ row[target[r]] # before[r]

\* Whatever step changes the leaves that count in a year, the request that
\* takes it goes on to recalculate that year, unless it updates or deletes a
\* row that another request changed since it was read (createLeave,
\* updateLeave, deleteLeave, approve, reject).
ChangeIsRecalculated ==
    [][\A y \in Years :
         Taken(y)' # Taken(y)
           => \E r \in Requests :
                /\ phase'[r] # phase[r]
                /\ \/ StaleReading(r)
                   \/ phase'[r] = "recalc" /\ y \in todo'[r]]_vars

\* As long as no two requests have overlapped, every balance is right as soon
\* as the request has been answered, after any sequence of declarations,
\* modifications, deletions and reviews, but for the years a request that failed
\* after its write has left; and those are right again once any later request
\* has recalculated them (recalculateAnnualLeaveBalances).
BalanceIsRight ==
    ~overlapped /\ (\A r \in Requests : phase[r] = "idle")
      => \A y \in Years \ owing : balance[y] = Taken(y)

\* Two leaves of one period, none of them rejected.
Doubled ==
    \E l, m \in Leaves :
        /\ l # m /\ Live(l) /\ Live(m)
        /\ row[l].period = row[m].period
        /\ "REJECTED" \notin {row[l].status, row[m].status}

\* Two approved leaves for the Hajj.
HajjTwice ==
    \E l, m \in Leaves :
        /\ l # m /\ Live(l) /\ Live(m)
        /\ \A k \in {l, m} : row[k].kind = "HAJJ" /\ row[k].status = "APPROVED"

\* The unpaid leaves granted take more days of year y than they may.
OverUnpaid(y) ==
    LET unpaid == {l \in Leaves : Live(l) /\ row[l].kind = "SANS_SOLDE"
                                          /\ row[l].status = "APPROVED"}
    IN  Cardinality(DaysOf(unpaid, y)) > MaxUnpaid

\* An exceptional leave of more days than it may have.
Overlong(l) ==
    Live(l) /\ row[l].kind = "EXCEPTIONNEL" /\ Length(row[l].period) > MaxShort

\* The request that goes on is that of an Admin or DRH who gives a note.
Forced ==
    \E r \in Requests :
        phase'[r] # phase[r] /\ form[r] # Unused /\ form[r].mode = "forced"

Approves == \E r \in Requests, l \in Leaves : Review(r, l, "APPROVED")

\* Who breaks the rules of validateLeaveRules.  A double comes from requests that
\* overlapped, or from the approval of a rejected leave, which validates nothing
\* again; a second Hajj and unpaid days beyond the quota of a year from either or
\* from an Admin or DRH who gives a note; and an exceptional leave that is too
\* long from such a note only, whatever overlaps.
RulesAreKept ==
    [][/\ ~Doubled /\ Doubled' =>
            \/ overlapped'
            \/ \E r \in Requests, l \in Leaves :
                  Review(r, l, "APPROVED") /\ row[l].status = "REJECTED"
       /\ ~HajjTwice /\ HajjTwice' => overlapped' \/ Approves \/ Forced
       /\ \A y \in Years :
            ~OverUnpaid(y) /\ OverUnpaid(y)' => overlapped' \/ Approves \/ Forced
       /\ \A l \in Leaves : ~Overlong(l) /\ Overlong(l)' => Forced]_vars
=============================================================================
