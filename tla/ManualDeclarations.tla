------------------------- MODULE ManualDeclarations -------------------------
(***************************************************************************)
(* The declarations of ManualDeclarationsService (src/apps/api/src/        *)
(* attendance/manual-declarations.service.ts) but the leaves, about one    *)
(* employee: overtime, compensations, absence reversals, sick leaves and   *)
(* manual absences.  They are declared on facts that are read first, wait  *)
(* for a review unless an Admin or a DRH declares them, are announced to   *)
(* the approvers, edited by their owner and deleted by an Admin.           *)
(***************************************************************************)
EXTENDS Naturals, FiniteSets

CONSTANTS
    Dates,         \* calendar days, in order; a manual absence is that of a day
    Rows,          \* ids of the other declarations
    Actors,        \* a user of each role: some of ADMIN, DRH, GRH, RESPONSABLE
    None,          \* null
    Requests,      \* requests under way at once
    MaxRequests,   \* bound on the requests
    MaxAltered     \* bound on the changes of the facts

ASSUME ManualAssumption ==
    /\ None \notin Requests
    /\ Rows \cap Dates = {}
    /\ MaxRequests \in Nat /\ MaxAltered \in Nat

VARIABLES
    punched,    \* days with a punch that counts as presence
    absent,     \* days the main list shows ABSENT (ReportsService.dailyAbsences)
    onLeave,    \* days of the approved leaves (LeaveDeclarations)
    row,        \* overtime, compensations, reversals, sick leaves
    manual,     \* manual_absence_declarations, unique by day
    announced,  \* pending declarations the approvers are notified of
    lost,       \* those whose request failed before its notification (a history)
    begun,      \* requests so far
    altered,    \* changes of the facts so far
    request     \* what each request has read and has to write

dayFacts == <<punched, absent, onLeave>>
manualVars == <<dayFacts, row, manual, announced, lost, begun, altered, request>>

-----------------------------------------------------------------------------
Types == {"overtime", "compensation", "reversal", "sick"}
RowStatuses == {"PENDING", "APPROVED", "REJECTED"}

Row == [type : Types, start : Dates, end : Dates, status : RowStatuses, owner : Actors]

NoRow == [type |-> "unborn"]
Gone == [type |-> "deleted"]
NoManual == [status |-> "none", owner |-> None]

Questions == {"main", "punches", "sick", "leaves", "existing"}

Request == [op : {"none", "declare", "edit", "manual", "announce"},
         by : Actors \cup {None}, id : Rows \cup Dates \cup {None}, row : Row \cup {NoRow},
         asked : SUBSET Questions,      \* the queries answered so far
         existing : {"none"} \cup RowStatuses,
         since : BOOLEAN]    \* what it read was changed meanwhile (a history)

NoRequest == [op |-> "none", by |-> None, id |-> None, row |-> NoRow, asked |-> {},
    existing |-> "none", since |-> FALSE]

ManualTypeOK ==
    /\ punched \in SUBSET Dates /\ absent \in SUBSET Dates /\ onLeave \in SUBSET Dates
    /\ row \in [Rows -> Row \cup {NoRow, Gone}]
    /\ manual \in [Dates -> [status : {"none"} \cup RowStatuses, owner : Actors \cup {None}]]
    /\ announced \in SUBSET (Rows \cup Dates) /\ lost \in SUBSET (Rows \cup Dates)
    /\ begun \in 0 .. MaxRequests /\ altered \in 0 .. MaxAltered
    /\ request \in [Requests -> Request]

ManualInit ==
    /\ punched \in SUBSET Dates
    /\ absent \in SUBSET (Dates \ punched) /\ onLeave = {}
    /\ row = [x \in Rows |-> NoRow]
    /\ manual = [d \in Dates |-> NoManual]
    /\ announced = {} /\ lost = {}
    /\ begun = 0 /\ altered = 0
    /\ request = [q \in Requests |-> NoRequest]

-----------------------------------------------------------------------------
Live(x) == row[x].type \in Types
Live2(id) == IF id \in Rows THEN Live(id) ELSE manual[id].status # "none"
StatusOf(id) == IF id \in Rows THEN row[id].status ELSE manual[id].status

SickDays ==
    UNION {row[x].start .. row[x].end :
              x \in {y \in Rows : Live(y) /\ row[y].type = "sick"
                                         /\ row[y].status = "APPROVED"}}

\* The requests that have begun to read note the changes of others.
Noted(w, q) ==
    [p \in Requests |-> IF p # q /\ w[p].op \in {"declare", "edit", "manual"}
        THEN [w[p] EXCEPT !.since = TRUE] ELSE w[p]]

Begins(q, w) ==
    /\ request[q].op = "none" /\ begun < MaxRequests
    /\ begun' = begun + 1
    /\ request' = [request EXCEPT ![q] = w]

\* The punches of the synchronisation, the absences confirmed or rejected, the
\* leaves approved or deleted.
FactsChange(d) ==
    /\ altered < MaxAltered /\ altered' = altered + 1
    /\ \/ /\ punched' = IF d \in punched THEN punched \ {d} ELSE punched \cup {d}
          /\ absent' = absent \ {d} /\ UNCHANGED onLeave
       \/ /\ d \notin punched
          /\ absent' = IF d \in absent THEN absent \ {d} ELSE absent \cup {d}
          /\ UNCHANGED <<punched, onLeave>>
       \/ /\ onLeave' = IF d \in onLeave THEN onLeave \ {d} ELSE onLeave \cup {d}
          /\ UNCHANGED <<punched, absent>>
    /\ request' = Noted(request, None)
    /\ UNCHANGED <<row, manual, announced, lost, begun>>

-----------------------------------------------------------------------------
(* Declaring: createOvertime, createCompensation, createAbsenceReversal,   *)
(* createSickLeave                                                         *)

\* ensure...Declarer
MayDeclare(type, by) ==
    CASE type \in {"overtime", "compensation", "reversal"} ->
            by \in {"ADMIN", "DRH", "RESPONSABLE"}
      [] type = "sick" -> by \in {"ADMIN", "DRH", "GRH"}

Approver(by) == by \in {"ADMIN", "DRH"}

\* approvalFor
ApprovalFor(by) == IF Approver(by) THEN "APPROVED" ELSE "PENDING"

\* The day worked, overtime or compensation, has a real punch; dates are in
\* order.  The days of a compensation are that of the absence and its own.
Refused(type, start, end) ==
    \/ type = "overtime" /\ start \notin punched
    \/ type = "compensation" /\ end \notin punched

Ordered(type, start, end) ==
    /\ type = "sick" => start <= end
    /\ type \in {"overtime", "reversal"} => start = end

BeginsDeclaring(q, x, type, start, end, by) ==
    /\ row[x] = NoRow /\ \A p \in Requests : request[p].id # x
    /\ MayDeclare(type, by) /\ Ordered(type, start, end)
    /\ ~Refused(type, start, end)
    /\ Begins(q, [NoRequest EXCEPT !.op = "declare", !.by = by, !.id = x,
          !.row = [type |-> type, start |-> start, end |-> end,
                   status |-> ApprovalFor(by), owner |-> by]])
    /\ UNCHANGED <<dayFacts, row, manual, announced, lost, altered>>

\* updateSickLeave: its owner's new dates, which wait for a review again.
BeginsEdit(q, x, start, end) ==
    /\ Live(x) /\ row[x].type = "sick" /\ start <= end
    /\ LET by == row[x].owner IN
       Begins(q, [NoRequest EXCEPT !.op = "edit", !.by = by, !.id = x,
          !.row = [row[x] EXCEPT !.start = start, !.end = end,
                                 !.status = ApprovalFor(by)]])
    /\ UNCHANGED <<dayFacts, row, manual, announced, lost, altered>>

\* What is written waits for its announcement if it is pending; a sick leave
\* declared is announced in any case.
Saves(q, id, announce) ==
    /\ announced' = announced \ {id} /\ lost' = lost \ {id}
    /\ request' = [Noted(request, q) EXCEPT ![q] = IF announce
          THEN [NoRequest EXCEPT !.op = "announce", !.by = request[q].by, !.id = id] ELSE NoRequest]
    /\ UNCHANGED <<dayFacts, begun, altered>>

\* Mutant of ToAnnounce: a sick leave edited waits without a word.
MutToAnnounce(w) == w.op = "declare" /\ (w.row.status = "PENDING" \/ w.row.type = "sick")

ToAnnounce(w) ==
    \/ w.row.status = "PENDING"
    \/ w.op = "declare" /\ w.row.type = "sick"

WritesRow(q) ==
    /\ request[q].op \in {"declare", "edit"}
    /\ request[q].op = "edit" => Live(request[q].id)
    /\ LET w == request[q] IN
        /\ row' = [row EXCEPT ![w.id] = w.row]
        /\ Saves(q, w.id, ToAnnounce(w))
    /\ UNCHANGED manual

Announces(q) ==
    /\ request[q].op = "announce"
    /\ announced' = announced \cup {request[q].id}
    /\ request' = [request EXCEPT ![q] = NoRequest]
    /\ UNCHANGED <<dayFacts, row, manual, lost, begun, altered>>

RequestFails(q) ==
    /\ request[q].op # "none"
    /\ lost' = IF request[q].op = "announce" THEN lost \cup {request[q].id} ELSE lost
    /\ request' = [request EXCEPT ![q] = NoRequest]
    /\ UNCHANGED <<dayFacts, row, manual, announced, begun, altered>>

\* deleteOvertime, deleteSickLeave
Deletes(x) ==
    /\ Live(x) /\ row[x].type \in {"overtime", "sick"}
    /\ row' = [row EXCEPT ![x] = Gone]
    /\ announced' = announced \ {x}
    /\ request' = Noted(request, None)
    /\ UNCHANGED <<dayFacts, manual, lost, begun, altered>>

-----------------------------------------------------------------------------
(* createManualAbsence: five queries at once                               *)

BeginsManual(q, d, by) ==
    /\ MayDeclare("reversal", by)
    /\ Begins(q, [NoRequest EXCEPT !.op = "manual", !.by = by, !.id = d])
    /\ UNCHANGED <<dayFacts, row, manual, announced, lost, altered>>

\* Mutant of Refuses: a day already declared is declared again.
MutRefuses(question, d) ==
    CASE question = "main" -> d \in absent
      [] question = "punches" -> d \in punched
      [] question = "sick" -> d \in SickDays
      [] question = "leaves" -> d \in onLeave
      [] question = "existing" -> manual[d].status = "PENDING"

Refuses(question, d) ==
    CASE question = "main" -> d \in absent
      [] question = "punches" -> d \in punched
      [] question = "sick" -> d \in SickDays
      [] question = "leaves" -> d \in onLeave
      [] question = "existing" -> manual[d].status \notin {"none", "REJECTED"}

Answered(w, question) ==
    [w EXCEPT !.asked = @ \cup {question},
              !.existing = IF question = "existing" THEN manual[w.id].status ELSE @]

\* A query that refuses ends the request; the other four write nothing.
Asks(q, question) ==
    /\ request[q].op = "manual" /\ question \notin request[q].asked
    /\ request' = [request EXCEPT ![q] =
          IF Refuses(question, request[q].id) THEN NoRequest ELSE Answered(request[q], question)]
    /\ UNCHANGED <<dayFacts, row, manual, announced, lost, begun, altered>>

\* The rejected declaration is written over, by its id; another is inserted,
\* unless the day has one by now (unique).
WritesManual(q) ==
    /\ request[q].op = "manual" /\ request[q].asked = Questions
    /\ LET w == request[q] IN
        /\ w.existing = "none" => manual[w.id].status = "none"
        /\ manual' = [manual EXCEPT ![w.id] =
              [status |-> ApprovalFor(w.by), owner |-> w.by]]
        /\ Saves(q, w.id, ApprovalFor(w.by) = "PENDING")
    /\ UNCHANGED row

-----------------------------------------------------------------------------
(* approve, reject, approveManualAbsence, rejectManualAbsence: by id,      *)
(* whatever the status                                                     *)

Reviews(id, status) ==
    /\ Live2(id)
    /\ IF id \in Rows
       THEN row' = [row EXCEPT ![id].status = status] /\ UNCHANGED manual
       ELSE manual' = [manual EXCEPT ![id].status = status] /\ UNCHANGED row
    /\ request' = Noted(request, None)
    /\ UNCHANGED <<dayFacts, announced, lost, begun, altered>>

-----------------------------------------------------------------------------
ManualNext ==
    \/ \E d \in Dates : FactsChange(d)
    \/ \E q \in Requests, x \in Rows, type \in Types, start, end \in Dates, by \in Actors :
          BeginsDeclaring(q, x, type, start, end, by)
    \/ \E q \in Requests, x \in Rows, start, end \in Dates : BeginsEdit(q, x, start, end)
    \/ \E q \in Requests, d \in Dates, by \in Actors : BeginsManual(q, d, by)
    \/ \E q \in Requests, question \in Questions : Asks(q, question)
    \/ \E q \in Requests : WritesRow(q) \/ WritesManual(q) \/ Announces(q) \/ RequestFails(q)
    \/ \E x \in Rows : Deletes(x)
    \/ \E id \in Rows \cup Dates, status \in {"APPROVED", "REJECTED"} : Reviews(id, status)

ManualSpec == ManualInit /\ [][ManualNext]_manualVars

-----------------------------------------------------------------------------
(* Properties                                                              *)

\* pendingApprovals
PendingApprovals == {id \in Rows \cup Dates : Live2(id) /\ StatusOf(id) = "PENDING"}

\* A declaration that waits for a review has been announced to the approvers,
\* or is about to be, or its request failed in between; one that was edited or
\* declared again is announced again (notify, notifyPending).
PendingIsAnnounced ==
    \A id \in PendingApprovals :
        \/ id \in announced \cup lost
        \/ \E q \in Requests : request[q].op = "announce" /\ request[q].id = id

\* Overtime and compensations are declared for days that were worked, a manual
\* absence for a day without punch, leave, sickness or absence already known,
\* never over a declaration that waits or was approved; unless what was read
\* changed meanwhile.
DeclarationIsFounded ==
    [][/\ \A x \in Rows : row[x] # row'[x] /\ row[x] = NoRow =>
            \/ row'[x].type \in {"reversal", "sick"}
            \/ row'[x].end \in punched
            \/ \E q \in Requests : request[q].id = x /\ request[q].since
       /\ \A d \in Dates : manual[d] # manual'[d] =>
            \/ /\ d \notin absent \cup punched \cup onLeave \cup SickDays
               /\ manual[d].status \in {"none", "REJECTED"}
            \/ \E q \in Requests : /\ request[q].op = "manual" /\ request[q].id = d
                                   /\ request[q].since
            \/ \E status \in {"APPROVED", "REJECTED"} : Reviews(d, status)]_manualVars
=============================================================================
