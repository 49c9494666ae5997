------------------------------ MODULE SyncData ------------------------------
(***************************************************************************)
(* What a pull of SyncService does to the tables (src/apps/api/src/sync/   *)
(* sync.service.ts: pullAll, the upserts, the reconciliation of a full run *)
(* and the cursor of the next run), against BioTime, which other people    *)
(* change, and against the staff who write both systems through            *)
(* EmployeesService (src/apps/api/src/employees/employees.service.ts).     *)
(*                                                                         *)
(* BioTime keeps for each employee a row with an update time and at most   *)
(* one resignation.  A step is one answer of BioTime or of the database    *)
(* with the code that follows it up to the next await.  A run that was     *)
(* interrupted or timed out gives up its pull, which goes on writing.      *)
(* Terminals are left out; the punches are in PunchPulls.                  *)
(***************************************************************************)
EXTENDS Naturals, FiniteSets, FiniteSetsExt

CONSTANTS
    Employees,   \* zktecoIds
    Pulls,       \* pulls under way at once
    MaxTime,     \* bound on the clock
    MaxChanges,  \* bound on the changes made in BioTime
    Ratio        \* BIOTIME_MISSING_EMPLOYEE_MIN_SNAPSHOT_RATIO, in percent

ASSUME BoundsAssumption ==
    /\ MaxTime \in Nat
    /\ MaxChanges \in Nat
    /\ Ratio \in Nat \ {0}

VARIABLES
    now,       \* the clock
    changes,   \* changes made in BioTime so far
    source,    \* BioTime: row of each employee
    resign,    \* BioTime: update time of his resignation, Never without one
    local,     \* employees: status, content and sourceUpdatedAt
    record,    \* resign_records: sourceUpdatedAt, Never without a row
    cursor,    \* lastCursor of the latest SUCCESS row
    pull,      \* local state of each pull
    staff      \* the request of the staff in flight

biotime == <<changes, source, resign>>
tables == <<local, record>>
vars == <<now, biotime, tables, cursor, pull, staff>>

-----------------------------------------------------------------------------
\* Times start at 1: Never is earlier than all of them.
Never == 0
Times == 1 .. MaxTime + 1
Stamps == Times \cup {Never}
Contents == 0 .. MaxChanges

Source == [state : {"unborn", "present", "deleted"}, rev : Contents, at : Stamps]
Local == [status : {"none", "ACTIVE", "RESIGNED"}, rev : Contents, stamp : Stamps]
Cursor == [employees : Stamps, resigns : Stamps]

\* An employee row as it was listed: `at` is Never when it was not.
Listing == [rev : Contents, at : Stamps]
Unlisted == [rev |-> 0, at |-> Never]

Phases == {"idle", "listing", "employees", "resigns", "reconciling",
           "reactivating", "counting", "missing", "archiving", "closing"}

Pull == [phase : Phases,
         full : BOOLEAN,
         owned : BOOLEAN,          \* its run has not given it up
         since : Cursor,           \* the cursor it started from
         asked : SUBSET {"employees", "resigns"},  \* lists still to come
         rows : [Employees -> Listing],
         resigns : [Employees -> Stamps],
         times : Cursor,           \* when each list was made
         todo : SUBSET Employees,  \* rows left, or rows read
         kept : BOOLEAN,           \* the archive was skipped
         touched : SUBSET Employees]  \* written by others since a full one began

NoPull == [phase |-> "idle", full |-> FALSE, owned |-> FALSE,
           since |-> [employees |-> Never, resigns |-> Never], asked |-> {},
           rows |-> [e \in Employees |-> Unlisted],
           resigns |-> [e \in Employees |-> Never],
           times |-> [employees |-> Never, resigns |-> Never],
           todo |-> {}, kept |-> FALSE, touched |-> {}]

\* What a request has obtained from BioTime and is about to write.
Request == [does : {"nothing", "edit", "resign", "reinstate"},
            who : SUBSET Employees, rev : Contents, at : Stamps]

TypeOK ==
    /\ now \in Times
    /\ changes \in 0 .. MaxChanges
    /\ source \in [Employees -> Source]
    /\ resign \in [Employees -> Stamps]
    /\ local \in [Employees -> Local]
    /\ record \in [Employees -> Stamps]
    /\ cursor \in Cursor
    /\ pull \in [Pulls -> Pull]
    /\ staff \in Request

Idle == [does |-> "nothing", who |-> {}, rev |-> 0, at |-> Never]

\* BioTime was in use before the first run.
Unborn == [state |-> "unborn", rev |-> 0, at |-> Never]
Hired == [state |-> "present", rev |-> 0, at |-> 1]

Init ==
    /\ now = 1
    /\ changes = 0
    /\ source \in [Employees -> {Unborn, Hired}]
    /\ resign = [e \in Employees |-> Never]
    /\ local = [e \in Employees |-> [status |-> "none", rev |-> 0, stamp |-> Never]]
    /\ record = [e \in Employees |-> Never]
    /\ cursor = [employees |-> Never, resigns |-> Never]
    /\ pull = [p \in Pulls |-> NoPull]
    /\ staff = Idle

-----------------------------------------------------------------------------
(* BioTime                                                                 *)

Present(e) == source[e].state = "present"
Change == changes < MaxChanges /\ changes' = changes + 1

\* A row is created or edited: a new content and a new update time.
Save(e) ==
    /\ Change
    /\ source' = [source EXCEPT ![e] =
                    [state |-> "present", rev |-> changes', at |-> now]]

\* Somebody else hires, edits, resigns, reinstates or deletes an employee in
\* BioTime.  A deleted id is not used again.
HireOrEdit(e) ==
    /\ source[e].state # "deleted"
    /\ Save(e)
    /\ UNCHANGED <<now, resign, tables, cursor, pull, staff>>

Resign(e) ==
    /\ Present(e) /\ resign[e] = Never
    /\ Change
    /\ resign' = [resign EXCEPT ![e] = now]
    /\ UNCHANGED <<now, source, tables, cursor, pull, staff>>

Reinstate(e) ==
    /\ Present(e) /\ resign[e] # Never
    /\ Change
    /\ resign' = [resign EXCEPT ![e] = Never]
    /\ UNCHANGED <<now, source, tables, cursor, pull, staff>>

Delete(e) ==
    /\ Present(e)
    /\ Change
    /\ source' = [source EXCEPT ![e].state = "deleted"]
    /\ resign' = [resign EXCEPT ![e] = Never]
    /\ UNCHANGED <<now, tables, cursor, pull, staff>>

Tick ==
    /\ now <= MaxTime
    /\ now' = now + 1
    /\ UNCHANGED <<biotime, tables, cursor, pull, staff>>

-----------------------------------------------------------------------------
(* A pull                                                                  *)

Step(p, phase, todo) ==
    pull' = [pull EXCEPT ![p].phase = phase, ![p].todo = todo]

\* The full pull q notes who is written by somebody else (a history, for
\* FullRunAgrees).
Touched(q, written) ==
    IF pull[q].full THEN [pull[q] EXCEPT !.touched = @ \cup written] ELSE pull[q]

Touching(p, written, phase, todo) ==
    pull' = [q \in Pulls |->
        IF q = p THEN [pull[p] EXCEPT !.phase = phase, !.todo = todo]
        ELSE Touched(q, written)]

\* A run starts unless another one is in charge of its pull, and reads the
\* cursor.
Starts(p, full) ==
    /\ pull[p].phase = "idle"
    /\ \A q \in Pulls : ~pull[q].owned
    /\ pull' = [pull EXCEPT ![p] =
                    [NoPull EXCEPT !.phase = "listing", !.full = full,
                                   !.owned = TRUE, !.since = cursor,
                                   !.asked = {"employees", "resigns"}]]
    /\ UNCHANGED <<now, biotime, tables, cursor, staff>>

\* Mutant of Newer: the rows of the very second of the cursor are left out.
MutNewer(at, since) == at # Never /\ at > since

\* Rows updated at or after `since`: update_time__gte, no filter without one.
Newer(at, since) == at # Never /\ at >= since

\* The two lists are asked for at once, and the loops start when both came.
Listed(p, which) ==
    IF pull[p].asked = {which} THEN "employees" ELSE "listing"

ListEmployees(p) ==
    LET since == IF pull[p].full THEN Never ELSE pull[p].since.employees
        rows == [e \in Employees |->
                    IF Present(e) /\ Newer(source[e].at, since)
                    THEN [rev |-> source[e].rev, at |-> source[e].at]
                    ELSE Unlisted]
    IN  /\ pull[p].phase = "listing" /\ "employees" \in pull[p].asked
        /\ pull' = [pull EXCEPT
                ![p].rows = rows,
                ![p].times.employees = now,
                ![p].asked = @ \ {"employees"},
                ![p].todo = {e \in Employees : rows[e] # Unlisted},
                ![p].phase = Listed(p, "employees")]
        /\ UNCHANGED <<now, biotime, tables, cursor, staff>>

ListResigns(p) ==
    LET since == IF pull[p].full THEN Never ELSE pull[p].since.resigns
    IN  /\ pull[p].phase = "listing" /\ "resigns" \in pull[p].asked
        /\ pull' = [pull EXCEPT
                ![p].resigns = [e \in Employees |->
                    IF Newer(resign[e], since) THEN resign[e] ELSE Never],
                ![p].times.resigns = now,
                ![p].asked = @ \ {"resigns"},
                ![p].phase = Listed(p, "resigns")]
        /\ UNCHANGED <<now, biotime, tables, cursor, staff>>

\* upsertEmployee: the status is set when the row is new, and on full runs.
UpsertEmployee(p, e) ==
    /\ pull[p].phase = "employees" /\ e \in pull[p].todo
    /\ local' = [local EXCEPT ![e] =
            [status |-> IF pull[p].full \/ local[e].status = "none"
                        THEN "ACTIVE" ELSE local[e].status,
             rev |-> pull[p].rows[e].rev,
             stamp |-> pull[p].rows[e].at]]
    /\ Touching(p, {e}, "employees", pull[p].todo \ {e})
    /\ UNCHANGED <<now, biotime, record, cursor, staff>>

\* Employees listed with a resignation.
Resigned(p) == {e \in Employees : pull[p].resigns[e] # Never}

\* The terminals come between the employees and the resignations.
EmployeesDone(p) ==
    /\ pull[p].phase = "employees" /\ pull[p].todo = {}
    /\ Step(p, "resigns", Resigned(p))
    /\ UNCHANGED <<now, biotime, tables, cursor, staff>>

\* upsertResign: the employee is known, or the record stands alone.
UpsertResign(p, e) ==
    /\ pull[p].phase = "resigns" /\ e \in pull[p].todo
    /\ record' = [record EXCEPT ![e] = pull[p].resigns[e]]
    /\ local' = [local EXCEPT ![e].status =
                    IF @ = "none" THEN "none" ELSE "RESIGNED"]
    /\ Touching(p, {e}, "resigns", pull[p].todo \ {e})
    /\ UNCHANGED <<now, biotime, cursor, staff>>

\* The punches come next, and the reconciliation on full runs.
ResignsDone(p) ==
    /\ pull[p].phase = "resigns" /\ pull[p].todo = {}
    /\ Step(p, IF pull[p].full THEN "reconciling" ELSE "closing", {})
    /\ UNCHANGED <<now, biotime, tables, cursor, staff>>

\* Mutant of ReconcileReads: the list of resignations is not consulted.
MutReconcileReads(p) ==
    /\ pull[p].phase = "reconciling"
    /\ Step(p, "reactivating", {e \in Employees : local[e].status = "RESIGNED"})
    /\ UNCHANGED <<now, biotime, tables, cursor, staff>>

\* reconcileCurrentResigns: who is resigned here and not in the list.
ReconcileReads(p) ==
    /\ pull[p].phase = "reconciling"
    /\ Step(p, "reactivating",
            {e \in Employees : local[e].status = "RESIGNED"} \ Resigned(p))
    /\ UNCHANGED <<now, biotime, tables, cursor, staff>>

ReconcileWrites(p) ==
    /\ pull[p].phase = "reactivating"
    /\ local' = [e \in Employees |->
                    IF e \in pull[p].todo THEN [local[e] EXCEPT !.status = "ACTIVE"]
                    ELSE local[e]]
    /\ Touching(p, pull[p].todo, "counting", {})
    /\ UNCHANGED <<now, biotime, record, cursor, staff>>

Snapshot(p) == {e \in Employees : pull[p].rows[e] # Unlisted}
Active == {e \in Employees : local[e].status = "ACTIVE"}

\* The list of employees is empty, or too short to be trusted.
TooSmall(p) ==
    \/ Snapshot(p) = {}
    \/ Cardinality(Snapshot(p)) < (Cardinality(Active) * Ratio) \div 100

\* archiveEmployeesMissingFromBiotime: the count, the query, the transaction.
CountsActive(p) ==
    /\ pull[p].phase = "counting"
    /\ pull' = [pull EXCEPT
            ![p].kept = TooSmall(p),
            ![p].phase = IF TooSmall(p) THEN "closing" ELSE "missing"]
    /\ UNCHANGED <<now, biotime, tables, cursor, staff>>

MissingReads(p) ==
    /\ pull[p].phase = "missing"
    /\ Step(p, "archiving", Active \ (Snapshot(p) \cup Resigned(p)))
    /\ UNCHANGED <<now, biotime, tables, cursor, staff>>

Archives(p) ==
    /\ pull[p].phase = "archiving"
    /\ local' = [e \in Employees |->
                    IF e \in pull[p].todo
                    THEN [local[e] EXCEPT !.status = "RESIGNED", !.stamp = now]
                    ELSE local[e]]
    /\ Touching(p, pull[p].todo, "closing", {})
    /\ UNCHANGED <<now, biotime, record, cursor, staff>>

\* computeCursor: the latest stamps of the tables, whoever wrote them.
NextCursor == [employees |-> Max({Never} \cup {local[e].stamp : e \in Employees}),
               resigns |-> Max({Never} \cup {record[e] : e \in Employees})]

\* A run that is still in charge closes its row SUCCESS with the cursor.
Closes(p) ==
    /\ pull[p].phase = "closing"
    /\ cursor' = IF pull[p].owned THEN NextCursor ELSE cursor
    /\ pull' = [pull EXCEPT ![p] = NoPull]
    /\ UNCHANGED <<now, biotime, tables, staff>>

\* An answer is an error, or the process dies: the run closes FAILED.
Fails(p) ==
    /\ pull[p].phase # "idle"
    /\ pull' = [pull EXCEPT ![p] = NoPull]
    /\ UNCHANGED <<now, biotime, tables, cursor, staff>>

\* The run is interrupted or times out; its pull goes on.
GivesUp(p) ==
    /\ pull[p].owned
    /\ pull' = [pull EXCEPT ![p].owned = FALSE]
    /\ UNCHANGED <<now, biotime, tables, cursor, staff>>

\* A historical import closes SUCCESS without a cursor.
BackfillSucceeds ==
    /\ \A p \in Pulls : ~pull[p].owned
    /\ cursor' = [employees |-> Never, resigns |-> Never]
    /\ UNCHANGED <<now, biotime, tables, pull, staff>>

-----------------------------------------------------------------------------
(* The staff                                                               *)

\* A request that writes BioTime first, and the tables when it answered.
Asks(does, e, rev) ==
    /\ staff.does = "nothing"
    /\ staff' = [does |-> does, who |-> {e}, rev |-> rev, at |-> now]

\* The answer is written by the database, under the eyes of the pulls.
Lands(does, e) ==
    /\ staff.does = does /\ staff.who = {e}
    /\ staff' = Idle
    /\ pull' = [q \in Pulls |-> Touched(q, {e})]

\* createInBioTime, updateInBioTime, uploadBiotimePhoto.
EditInBioTime(e) ==
    /\ \/ Present(e) /\ local[e].status # "none"
       \/ source[e].state = "unborn"
    /\ Save(e)
    /\ Asks("edit", e, changes')
    /\ UNCHANGED <<now, resign, tables, cursor, pull>>

\* upsertLocalFromBioTime: the update time of the answer, the one of the last
\* payload when the answer has none, or the clock.
EditLands(e) ==
    /\ Lands("edit", e)
    /\ \E stamp \in {staff.at, local[e].stamp, now} \ {Never} :
        local' = [local EXCEPT ![e] =
                    [status |-> "ACTIVE", rev |-> staff.rev, stamp |-> stamp]]
    /\ UNCHANGED <<now, biotime, record, cursor>>

ResignInBioTime(e) ==
    /\ local[e].status = "ACTIVE"
    /\ Present(e) /\ resign[e] = Never
    /\ Change
    /\ resign' = [resign EXCEPT ![e] = now]
    /\ Asks("resign", e, 0)
    /\ UNCHANGED <<now, source, tables, cursor, pull>>

ResignLands(e) ==
    /\ Lands("resign", e)
    /\ record' = [record EXCEPT ![e] = now]
    /\ local' = [local EXCEPT ![e].status = "RESIGNED"]
    /\ UNCHANGED <<now, biotime, cursor>>

ReinstateInBioTime(e) ==
    /\ record[e] # Never
    /\ Present(e) /\ resign[e] # Never
    /\ Change
    /\ resign' = [resign EXCEPT ![e] = Never]
    /\ Asks("reinstate", e, 0)
    /\ UNCHANGED <<now, source, tables, cursor, pull>>

\* The record may stand alone: there is nobody to reinstate here.
ReinstateLands(e) ==
    /\ Lands("reinstate", e)
    /\ local' = [local EXCEPT ![e].status =
                    IF @ = "none" THEN "none" ELSE "ACTIVE"]
    /\ UNCHANGED <<now, biotime, record, cursor>>

\* The database fails after BioTime has answered: the systems are apart.
StaffFails ==
    /\ staff.does # "nothing"
    /\ staff' = Idle
    /\ UNCHANGED <<now, biotime, tables, cursor, pull>>

-----------------------------------------------------------------------------
Next ==
    \/ Tick
    \/ \E e \in Employees : HireOrEdit(e) \/ Resign(e) \/ Reinstate(e) \/ Delete(e)
    \/ \E p \in Pulls, full \in BOOLEAN : Starts(p, full)
    \/ \E p \in Pulls : ListEmployees(p) \/ ListResigns(p)
    \/ \E p \in Pulls, e \in Employees : UpsertEmployee(p, e)
    \/ \E p \in Pulls : EmployeesDone(p)
    \/ \E p \in Pulls, e \in Employees : UpsertResign(p, e)
    \/ \E p \in Pulls : ResignsDone(p)
    \/ \E p \in Pulls : ReconcileReads(p) \/ ReconcileWrites(p)
    \/ \E p \in Pulls : CountsActive(p) \/ MissingReads(p) \/ Archives(p)
    \/ \E p \in Pulls : Closes(p) \/ Fails(p) \/ GivesUp(p)
    \/ BackfillSucceeds
    \/ \E e \in Employees : EditInBioTime(e) \/ EditLands(e)
    \/ \E e \in Employees : ResignInBioTime(e) \/ ResignLands(e)
    \/ \E e \in Employees : ReinstateInBioTime(e) \/ ReinstateLands(e)
    \/ StaffFails

Spec == Init /\ [][Next]_vars

-----------------------------------------------------------------------------
(* Properties                                                              *)

\* The next incremental run does not ask for e: what it would read is here.
Covered(e) ==
    Present(e) /\ source[e].at < cursor.employees
        => local[e].status # "none" /\ local[e].rev = source[e].rev

\* Likewise for the resignation of e.
ResignCovered(e) ==
    resign[e] # Never /\ resign[e] < cursor.resigns => local[e].status = "RESIGNED"

\* An older content replaces a newer one: the writer had read it before.
Regresses == \E e \in Employees : local'[e].rev < local[e].rev

\* The cursor that p sets is later than its list of employees: somebody
\* stamped a row since (an edit, a full run that archives).
PastList(p) == cursor'.employees > pull[p].times.employees

\* What p wrote of an employee was replaced by something older.
Overwritten(p) ==
    \E e \in Employees : local[e].rev < pull[p].rows[e].rev

\* An update made in BioTime is skipped by the incremental runs only when the
\* cursor went past the list it was computed from, or a pull that was given
\* up, or a slow request of the staff, wrote back what it had read before
\* (pullAll, computeCursor).
CursorSkipsNothing ==
    [][(\A e \in Employees : Covered(e)) =>
        \/ (\A e \in Employees : Covered(e))'
        \/ Regresses
        \/ \E p \in Pulls : Closes(p) /\ (PastList(p) \/ Overwritten(p))]_vars

\* A resigned employee is active again, or comes into being as active.
Reactivates ==
    \E e \in Employees : local[e].status # "ACTIVE" /\ local'[e].status = "ACTIVE"

\* Somebody p listed as resigned is not, when p closes: he was not known here
\* when his resignation came, or was made active since.
Unheard(p) ==
    \E e \in Resigned(p) : local[e].status # "RESIGNED"

\* A resignation recorded in BioTime is missed by the incremental runs only
\* when somebody made the employee active, or when the cursor went past the
\* list of resignations, or when the run that listed it could not apply it.
ResignationIsHeard ==
    [][(\A e \in Employees : ResignCovered(e)) =>
        \/ (\A e \in Employees : ResignCovered(e))'
        \/ Reactivates
        \/ \E p \in Pulls :
              /\ Closes(p)
              /\ cursor'.resigns > pull[p].times.resigns \/ Unheard(p)]_vars

\* What BioTime says is heard by the incremental runs, of the employees and of
\* their resignations (pullAll, computeCursor).
NothingIsSkipped == CursorSkipsNothing /\ ResignationIsHeard

\* Local status after a full run, by what it listed.
Agrees(p, e) ==
    /\ e \in Resigned(p) => local[e].status # "ACTIVE"
    /\ e \in Snapshot(p) \ Resigned(p) => local[e].status = "ACTIVE"
    /\ e \in Snapshot(p) => local[e].rev = pull[p].rows[e].rev
    /\ e \notin Snapshot(p) \cup Resigned(p) /\ ~pull[p].kept
         => local[e].status # "ACTIVE"

\* At the end of a full run every employee nobody else wrote since it began is
\* as BioTime listed him, those missing from it being archived unless the list
\* was too short to be trusted (pullAll with options.full).
FullRunAgrees ==
    \A p \in Pulls :
        pull[p].phase = "closing" /\ pull[p].full
            => \A e \in Employees \ pull[p].touched : Agrees(p, e)
=============================================================================
