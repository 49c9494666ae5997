--------------------------- MODULE SyncData_proofs ---------------------------
(***************************************************************************)
(* Theorems about SyncData, for any number of employees and pulls: a full  *)
(* run ends with every row nobody else wrote as BioTime listed it, and the *)
(* incremental runs skip no change BioTime dated. The invariant says what  *)
(* a list holds of a source that goes on changing, what the loops over the *)
(* list have established so far, and that one run at most owns the cursor. *)
(* At the end, PunchPulls: an uploaded punch stays in reach of the runs.   *)
(***************************************************************************)
EXTENDS SyncData, PunchPulls, FiniteSetTheorems, WellFoundedInduction, TLAPS

\* A set of bounded numbers has a greatest one.
LEMMA MaxExists ==
    ASSUME NEW N \in Nat, NEW S \in SUBSET (0..N), S # {}
    PROVE  Max(S) \in S /\ \A x \in S : x <= Max(S)
<1> DEFINE R == OpToRel(<, Nat)
           T == {t \in 0..N : N - t \in S}
<1>1. \A x, y \in Nat : x < y => <<x, y>> \in R
  BY DEF OpToRel
<1>2. T \subseteq Nat /\ T # {}
  <2>1. PICK x \in S : x \in 0..N
    OBVIOUS
  <2>2. N - x \in 0..N /\ N - (N - x) = x
    BY <2>1
  <2>3. N - x \in T
    BY <2>2
  <2>4. T \subseteq Nat
    <3> SUFFICES ASSUME NEW t \in T PROVE t \in Nat
      OBVIOUS
    <3>1. t \in 0..N
      OBVIOUS
    <3> QED BY <3>1
  <2> HIDE DEF T
  <2> QED BY <2>3, <2>4
<1>3. \A t \in T : t \in Nat /\ N - t \in S
  OBVIOUS
<1>4. \A x \in S : x \in Nat /\ x \in 0..N /\ N - x \in T
  <2> TAKE x \in S
  <2>1. x \in 0..N /\ N - x \in 0..N /\ N - (N - x) = x
    OBVIOUS
  <2> QED BY <2>1
<1> HIDE DEF R, T
<1>5. PICK t \in T : \A u \in T : ~(<<u, t>> \in R)
  BY <1>2, NatLessThanWellFounded, WFMin DEF R
<1>6. N - t \in S /\ \A y \in S : N - t >= y
  <2> SUFFICES ASSUME NEW y \in S PROVE N - t \in S /\ N - t >= y
    BY <1>3
  <2>1. ~(N - y < t)
    BY <1>1, <1>2, <1>4, <1>5
  <2> QED BY <2>1, <1>3, <1>4
<1>7. Max(S) \in S /\ \A y \in S : Max(S) >= y
  BY <1>6 DEF Max
<1> QED
  <2> SUFFICES ASSUME NEW x \in S PROVE x <= Max(S)
    BY <1>7
  <2>1. x \in Nat /\ Max(S) \in Nat
    BY <1>4, <1>7
  <2> QED BY <1>7, <2>1

-----------------------------------------------------------------------------
(* Types.                                                                  *)

\* The clock and the bounds leave room for the values of the next step.
LEMMA Ranges ==
    /\ Never \in Stamps /\ Times \subseteq Stamps /\ Stamps = 0 .. MaxTime + 1
    /\ Stamps \subseteq Nat /\ Contents \subseteq Nat /\ 0 \in Contents /\ 1 \in Times
    /\ NoPull \in Pull /\ Idle \in Request /\ Unlisted \in Listing
<1>1. /\ Never \in Stamps /\ Times \subseteq Stamps /\ Stamps = 0 .. MaxTime + 1
      /\ Stamps \subseteq Nat /\ Contents \subseteq Nat /\ 0 \in Contents /\ 1 \in Times
  BY BoundsAssumption DEF Stamps, Times, Never, Contents
<1>2. Unlisted \in Listing
  BY <1>1 DEF Unlisted, Listing
<1>3. NoPull \in Pull
  BY <1>1, <1>2 DEF NoPull, Pull, Phases, Cursor
<1> QED BY <1>1, <1>2, <1>3 DEF Idle, Request

\* The latest stamps of the tables.
LEMMA Cursors ==
    ASSUME TypeOK
    PROVE  /\ NextCursor \in Cursor
           /\ \A e \in Employees : local[e].stamp <= NextCursor.employees
           /\ \A e \in Employees : record[e] <= NextCursor.resigns
           /\ \/ NextCursor.employees = Never
              \/ \E e \in Employees : local[e].stamp = NextCursor.employees
           /\ \/ NextCursor.resigns = Never
              \/ \E e \in Employees : record[e] = NextCursor.resigns
<1> DEFINE A == {Never} \cup {local[e].stamp : e \in Employees}
           B == {Never} \cup {record[e] : e \in Employees}
<1>1. A \in SUBSET (0 .. MaxTime + 1) /\ B \in SUBSET (0 .. MaxTime + 1)
  BY Ranges DEF TypeOK, Local
<1>2. MaxTime + 1 \in Nat
  BY BoundsAssumption
<1>3. /\ Max(A) \in A /\ \A x \in A : x <= Max(A)
      /\ Max(B) \in B /\ \A x \in B : x <= Max(B)
  BY <1>1, <1>2, MaxExists
<1>4. NextCursor = [employees |-> Max(A), resigns |-> Max(B)]
  BY DEF NextCursor
<1> QED BY <1>1, <1>3, <1>4, Ranges DEF Cursor

\* Every step keeps the types.
LEMMA TypeStep == TypeOK /\ [Next]_vars => TypeOK'
<1> SUFFICES ASSUME TypeOK, [Next]_vars
             PROVE  TypeOK'
  OBVIOUS
<1> USE Ranges, BoundsAssumption DEF TypeOK, biotime, tables
<1>1. ASSUME Change PROVE changes' \in Contents /\ changes' \in 0 .. MaxChanges
  BY <1>1 DEF Change, Contents
<1>2. CASE Tick
  BY <1>2 DEF Tick, Times
<1>3. ASSUME NEW e \in Employees, Save(e)
      PROVE  changes' \in 0 .. MaxChanges /\ source' \in [Employees -> Source]
  BY <1>1, <1>3 DEF Save, Source
<1>4. ASSUME NEW e \in Employees, HireOrEdit(e) \/ Resign(e) \/ Reinstate(e) \/ Delete(e)
      PROVE  TypeOK'
  <2>1. CASE HireOrEdit(e)
    BY <1>3, <2>1 DEF HireOrEdit, Save
  <2>2. CASE Resign(e) \/ Reinstate(e)
    BY <1>1, <2>2 DEF Resign, Reinstate
  <2>3. CASE Delete(e)
    BY <1>1, <2>3 DEF Delete, Source
  <2> QED BY <1>4, <2>1, <2>2, <2>3
<1>5. ASSUME NEW p \in Pulls, NEW full \in BOOLEAN, Starts(p, full)
      PROVE  TypeOK'
  BY <1>5 DEF Starts, Pull, Phases
<1>6. ASSUME NEW p \in Pulls, ListEmployees(p)
      PROVE  TypeOK'
  <2> DEFINE since == IF pull[p].full THEN Never ELSE pull[p].since.employees
             rows == [e \in Employees |->
                         IF Present(e) /\ Newer(source[e].at, since)
                         THEN [rev |-> source[e].rev, at |-> source[e].at]
                         ELSE Unlisted]
             todo == {e \in Employees : rows[e] # Unlisted}
  <2>1. rows \in [Employees -> Listing]
    BY DEF Source, Listing
  <2>2. todo \in SUBSET Employees
    OBVIOUS
  <2>3. Listed(p, "employees") \in Phases
    BY DEF Listed, Phases
  <2>4. pull' = [pull EXCEPT
              ![p].rows = rows, ![p].times.employees = now,
              ![p].asked = @ \ {"employees"}, ![p].todo = todo,
              ![p].phase = Listed(p, "employees")]
    BY <1>6 DEF ListEmployees
  <2>5. [pull[p].times EXCEPT !.employees = now] \in Cursor
    BY DEF Pull, Cursor
  <2> DEFINE ph == Listed(p, "employees")
             ts == [pull[p].times EXCEPT !.employees = now]
             q == [pull[p] EXCEPT !.rows = rows, !.times = ts,
                     !.asked = @ \ {"employees"}, !.todo = todo, !.phase = ph]
  <2> HIDE DEF rows, todo, ph
  <2>6. pull' = [pull EXCEPT ![p] = q]
    BY <2>4 DEF ph
  <2> HIDE DEF ts
  <2>7. q \in Pull
    BY <2>1, <2>2, <2>3, <2>5 DEF Pull, ts, ph
  <2> HIDE DEF q
  <2>8. pull' \in [Pulls -> Pull]
    BY <2>6, <2>7
  <2>9. UNCHANGED <<now, biotime, tables, cursor, staff>>
    BY <1>6 DEF ListEmployees
  <2> QED BY <2>8, <2>9
<1>7. ASSUME NEW p \in Pulls, ListResigns(p)
      PROVE  TypeOK'
  <2> DEFINE since == IF pull[p].full THEN Never ELSE pull[p].since.resigns
             resigns == [e \in Employees |->
                            IF Newer(resign[e], since) THEN resign[e] ELSE Never]
  <2>1. resigns \in [Employees -> Stamps]
    OBVIOUS
  <2>2. Listed(p, "resigns") \in Phases
    BY DEF Listed, Phases
  <2>3. pull' = [pull EXCEPT
              ![p].resigns = resigns, ![p].times.resigns = now,
              ![p].asked = @ \ {"resigns"}, ![p].phase = Listed(p, "resigns")]
    BY <1>7 DEF ListResigns
  <2>4. [pull[p].times EXCEPT !.resigns = now] \in Cursor
    BY DEF Pull, Cursor
  <2> DEFINE ph == Listed(p, "resigns")
             ts == [pull[p].times EXCEPT !.resigns = now]
             q == [pull[p] EXCEPT !.resigns = resigns, !.times = ts,
                     !.asked = @ \ {"resigns"}, !.phase = ph]
  <2> HIDE DEF resigns, ph
  <2>5. pull' = [pull EXCEPT ![p] = q]
    BY <2>3 DEF ph
  <2> HIDE DEF ts
  <2>6. q \in Pull
    BY <2>1, <2>2, <2>4 DEF Pull, ts, ph
  <2> HIDE DEF q
  <2>7. pull' \in [Pulls -> Pull]
    BY <2>5, <2>6
  <2>8. UNCHANGED <<now, biotime, tables, cursor, staff>>
    BY <1>7 DEF ListResigns
  <2> QED BY <2>7, <2>8
<1>8. ASSUME NEW p \in Pulls, NEW phase \in Phases, NEW todo \in SUBSET Employees,
             Step(p, phase, todo)
      PROVE  pull' \in [Pulls -> Pull]
  <2>1. [pull[p] EXCEPT !.phase = phase, !.todo = todo] \in Pull
    BY DEF Pull
  <2>2. pull' = [pull EXCEPT ![p] = [pull[p] EXCEPT !.phase = phase, !.todo = todo]]
    BY <1>8 DEF Step
  <2> QED BY <2>1, <2>2
<1>9. ASSUME NEW q \in Pulls, NEW W \in SUBSET Employees
      PROVE  Touched(q, W) \in Pull
  BY DEF Touched, Pull
<1>10. ASSUME NEW p \in Pulls, NEW W \in SUBSET Employees,
              NEW phase \in Phases, NEW todo \in SUBSET Employees,
              Touching(p, W, phase, todo)
       PROVE  pull' \in [Pulls -> Pull]
  <2>1. [pull[p] EXCEPT !.phase = phase, !.todo = todo] \in Pull
    BY DEF Pull
  <2> QED BY <1>9, <1>10, <2>1 DEF Touching
<1>11. ASSUME NEW p \in Pulls, NEW e \in Employees, UpsertEmployee(p, e)
       PROVE  TypeOK'
  <2>1. pull[p].rows[e] \in Listing /\ pull[p].todo \in SUBSET Employees
    BY DEF Pull
  <2>2. pull' \in [Pulls -> Pull]
    <3>1. "employees" \in Phases /\ {e} \in SUBSET Employees
          /\ pull[p].todo \ {e} \in SUBSET Employees
      BY <2>1 DEF Phases
    <3> QED BY <1>10, <1>11, <3>1 DEF UpsertEmployee
  <2> QED BY <1>11, <2>1, <2>2 DEF UpsertEmployee, Local, Listing
<1>12. ASSUME NEW p \in Pulls, NEW e \in Employees, UpsertResign(p, e)
       PROVE  TypeOK'
  <2>1. pull[p].resigns[e] \in Stamps /\ pull[p].todo \in SUBSET Employees
    BY DEF Pull
  <2>2. pull' \in [Pulls -> Pull]
    <3>1. "resigns" \in Phases /\ {e} \in SUBSET Employees
          /\ pull[p].todo \ {e} \in SUBSET Employees
      BY <2>1 DEF Phases
    <3> QED BY <1>10, <1>12, <3>1 DEF UpsertResign
  <2> QED BY <1>12, <2>1, <2>2 DEF UpsertResign, Local
<1>13. ASSUME NEW p \in Pulls, EmployeesDone(p) \/ ResignsDone(p) \/ ReconcileReads(p)
                               \/ MissingReads(p)
       PROVE  TypeOK'
  <2>1. /\ Resigned(p) \in SUBSET Employees /\ Active \in SUBSET Employees
        /\ {e \in Employees : local[e].status = "RESIGNED"} \in SUBSET Employees
    BY DEF Resigned, Active
  <2>2. pull' \in [Pulls -> Pull]
    BY <1>8, <1>13, <2>1
       DEF EmployeesDone, ResignsDone, ReconcileReads, MissingReads, Phases
  <2> QED BY <1>13, <2>2 DEF EmployeesDone, ResignsDone, ReconcileReads, MissingReads
<1>14. ASSUME NEW p \in Pulls, ReconcileWrites(p) \/ Archives(p)
       PROVE  TypeOK'
  <2>1. pull[p].todo \in SUBSET Employees
    BY DEF Pull
  <2>2. pull' \in [Pulls -> Pull]
    <3>1. "counting" \in Phases /\ "closing" \in Phases /\ {} \in SUBSET Employees
      BY DEF Phases
    <3> QED BY <1>10, <1>14, <2>1, <3>1 DEF ReconcileWrites, Archives
  <2>3. local' \in [Employees -> Local]
    <3>1. \A e \in Employees :
            /\ [local[e] EXCEPT !.status = "ACTIVE"] \in Local
            /\ [local[e] EXCEPT !.status = "RESIGNED", !.stamp = now] \in Local
      BY DEF Local
    <3> QED BY <1>14, <3>1 DEF ReconcileWrites, Archives
  <2> QED BY <1>14, <2>2, <2>3 DEF ReconcileWrites, Archives
<1>15. ASSUME NEW p \in Pulls, CountsActive(p)
       PROVE  TypeOK'
  <2> DEFINE b == TooSmall(p)
  <2>1. b \in BOOLEAN
    BY DEF TooSmall
  <2> HIDE DEF b
  <2>2. pull' = [pull EXCEPT ![p].kept = b, ![p].phase = IF b THEN "closing" ELSE "missing"]
    BY <1>15 DEF CountsActive, b
  <2> QED BY <1>15, <2>1, <2>2 DEF CountsActive, Pull, Phases
<1>16. ASSUME NEW p \in Pulls, Closes(p) \/ Fails(p) \/ GivesUp(p)
       PROVE  TypeOK'
  <2>1. NextCursor \in Cursor
    BY Cursors
  <2>2. pull' \in [Pulls -> Pull]
    <3>1. [pull[p] EXCEPT !.owned = FALSE] \in Pull
      BY DEF Pull
    <3>2. \/ pull' = [pull EXCEPT ![p] = NoPull]
          \/ pull' = [pull EXCEPT ![p] = [pull[p] EXCEPT !.owned = FALSE]]
      BY <1>16 DEF Closes, Fails, GivesUp
    <3> QED BY <3>1, <3>2
  <2> QED BY <1>16, <2>1, <2>2 DEF Closes, Fails, GivesUp
<1>17. CASE BackfillSucceeds
  BY <1>17 DEF BackfillSucceeds, Cursor
<1>18. ASSUME NEW does \in {"edit", "resign", "reinstate"}, NEW e \in Employees,
              NEW rev \in Contents, Asks(does, e, rev)
       PROVE  staff' \in Request
  BY <1>18 DEF Asks, Request
<1>19. ASSUME NEW e \in Employees,
              EditInBioTime(e) \/ ResignInBioTime(e) \/ ReinstateInBioTime(e)
       PROVE  TypeOK'
  <2>1. CASE EditInBioTime(e)
    BY <1>1, <1>3, <1>18, <2>1 DEF EditInBioTime, Save
  <2>2. CASE ResignInBioTime(e) \/ ReinstateInBioTime(e)
    BY <1>1, <1>18, <2>2 DEF ResignInBioTime, ReinstateInBioTime
  <2> QED BY <1>19, <2>1, <2>2
<1>20. ASSUME NEW does \in {"edit", "resign", "reinstate"}, NEW e \in Employees,
              Lands(does, e)
       PROVE  staff' \in Request /\ pull' \in [Pulls -> Pull]
  BY <1>9, <1>20 DEF Lands
<1>21. ASSUME NEW e \in Employees, EditLands(e) \/ ResignLands(e) \/ ReinstateLands(e)
       PROVE  TypeOK'
  <2>1. staff' \in Request /\ pull' \in [Pulls -> Pull]
    BY <1>20, <1>21 DEF EditLands, ResignLands, ReinstateLands
  <2>2. CASE EditLands(e)
    BY <2>1, <2>2 DEF EditLands, Local, Request
  <2>3. CASE ResignLands(e) \/ ReinstateLands(e)
    <3>1. \A f \in Employees, s \in {"none", "ACTIVE", "RESIGNED"} :
            [local[f] EXCEPT !.status = s] \in Local
      BY DEF Local
    <3>2. local' \in [Employees -> Local]
      BY <2>3, <3>1 DEF ResignLands, ReinstateLands
    <3> QED BY <2>1, <2>3, <3>2 DEF ResignLands, ReinstateLands
  <2> QED BY <1>21, <2>2, <2>3
<1>22. CASE StaffFails
  BY <1>22 DEF StaffFails
<1>23. CASE UNCHANGED vars
  BY <1>23 DEF vars
<1> QED
  BY <1>2, <1>4, <1>5, <1>6, <1>7, <1>11, <1>12, <1>13, <1>14, <1>15, <1>16,
     <1>17, <1>19, <1>21, <1>22, <1>23 DEF Next

\* Every reachable state has the types of TypeOK.
THEOREM TypeCorrect == Spec => []TypeOK
<1>1. Init => TypeOK
  BY Ranges, BoundsAssumption
     DEF Init, TypeOK, Source, Local, Cursor, Unborn, Hired
<1> QED BY <1>1, TypeStep, PTL DEF Spec

-----------------------------------------------------------------------------
(* The inductive invariant.                                                *)

\* Nothing is dated later than now, and a row of BioTime has a date.
TimeInv ==
    /\ \A e \in Employees :
        /\ source[e].at <= now /\ resign[e] <= now
        /\ local[e].stamp <= now /\ record[e] <= now
        /\ source[e].state = "present" => source[e].at # Never
    /\ cursor.employees <= now /\ cursor.resigns <= now
    /\ staff.at <= now
    /\ \A p \in Pulls :
        /\ pull[p].times.employees <= now /\ pull[p].times.resigns <= now
        /\ \A e \in Employees : pull[p].rows[e].at <= now /\ pull[p].resigns[e] <= now

\* Nobody has read of an employee what BioTime does not say yet.
RevInv ==
    /\ \A e \in Employees : source[e].rev <= changes /\ local[e].rev <= source[e].rev
    /\ \A p \in Pulls, e \in Employees : pull[p].rows[e].rev <= source[e].rev
    /\ staff.does = "edit" => \A e \in staff.who : staff.rev <= source[e].rev

\* One run at most is in charge of its pull, and the cursor is the one it read.
OwnedInv ==
    /\ \A p \in Pulls : pull[p].owned => pull[p].phase # "idle" /\ pull[p].since = cursor
    /\ \A p, q \in Pulls : pull[p].owned /\ pull[q].owned => p = q

\* Where the lists of p begin.
From(p) == IF pull[p].full THEN [employees |-> Never, resigns |-> Never] ELSE pull[p].since

\* What has not changed in BioTime since it was listed is on the list.
RowsListed(p) ==
    \A e \in Employees :
        /\ Present(e) /\ source[e].at < pull[p].times.employees
        /\ Newer(source[e].at, From(p).employees)
        => pull[p].rows[e] = [rev |-> source[e].rev, at |-> source[e].at]

ResignsListed(p) ==
    \A e \in Employees :
        /\ resign[e] < pull[p].times.resigns /\ Newer(resign[e], From(p).resigns)
        => pull[p].resigns[e] = resign[e]

ListsInv ==
    \A p \in Pulls :
        /\ pull[p].phase # "idle" /\ "employees" \notin pull[p].asked => RowsListed(p)
        /\ pull[p].phase # "idle" /\ "resigns" \notin pull[p].asked => ResignsListed(p)
        /\ pull[p].phase # "listing" => pull[p].asked = {}
        /\ pull[p].phase = "listing" /\ "employees" \notin pull[p].asked
              => pull[p].todo = Snapshot(p)
        /\ pull[p].phase = "employees" => pull[p].todo \subseteq Snapshot(p)
        /\ pull[p].phase = "resigns" => pull[p].todo \subseteq Resigned(p)

\* The employees listed and left behind by the loop are known here.
Loaded(p) ==
    IF pull[p].phase \in {"idle", "listing"} THEN {}
    ELSE IF pull[p].phase = "employees" THEN Snapshot(p) \ pull[p].todo ELSE Snapshot(p)

LoadedInv ==
    \A p \in Pulls : \A e \in Loaded(p) : local[e].status # "none"

\* What a full pull has established of an employee nobody else has written.
Applied(p, e) ==
    /\ e \in Resigned(p) => local[e].status # "ACTIVE"
    /\ e \in Snapshot(p) \ Resigned(p) => local[e].status = "ACTIVE"
    /\ e \in Snapshot(p) => local[e].rev = pull[p].rows[e].rev

Progress(p, e) ==
    /\ pull[p].phase = "employees" /\ e \in Snapshot(p) \ pull[p].todo =>
          local[e].status = "ACTIVE" /\ local[e].rev = pull[p].rows[e].rev
    /\ pull[p].phase = "resigns" =>
          /\ e \in Resigned(p) \ pull[p].todo => local[e].status # "ACTIVE"
          /\ e \in Snapshot(p) \ Resigned(p) => local[e].status = "ACTIVE"
          /\ e \in Snapshot(p) => local[e].rev = pull[p].rows[e].rev
    /\ pull[p].phase \in {"reconciling", "reactivating", "counting", "missing",
                          "archiving", "closing"} => Applied(p, e)
    /\ pull[p].phase = "reactivating" => e \notin pull[p].todo \cap Resigned(p)
    /\ pull[p].phase = "archiving" =>
          /\ e \in pull[p].todo => e \notin Snapshot(p) \cup Resigned(p)
          /\ local[e].status = "ACTIVE" /\ e \notin Snapshot(p) \cup Resigned(p)
                => e \in pull[p].todo
    /\ pull[p].phase = "closing" => Agrees(p, e)

FullInv ==
    \A p \in Pulls : pull[p].full =>
        \A e \in Employees \ pull[p].touched : Progress(p, e)

IInv == TimeInv /\ RevInv /\ OwnedInv /\ ListsInv /\ LoadedInv /\ FullInv
-----------------------------------------------------------------------------
(* What the steps do, pull by pull and employee by employee.               *)

\* What the pull q has read stays.
Same(q) ==
    /\ pull'[q].full = pull[q].full /\ pull'[q].since = pull[q].since
    /\ pull'[q].asked = pull[q].asked /\ pull'[q].times = pull[q].times
    /\ pull'[q].rows = pull[q].rows /\ pull'[q].resigns = pull[q].resigns

\* The control of the pull q goes from its phase to the next one.
Moves(q, from, to, todo) ==
    /\ Same(q) /\ pull'[q].owned = pull[q].owned
    /\ pull[q].phase = from /\ pull'[q].phase = to /\ pull'[q].todo = todo
    /\ pull'[q].touched = pull[q].touched

\* It stays where it is, W being written by others.
Stays(q, W) ==
    /\ Same(q) /\ pull'[q].phase = pull[q].phase /\ pull'[q].todo = pull[q].todo
    /\ pull'[q].kept = pull[q].kept
    /\ pull[q].full => pull'[q].touched = pull[q].touched \cup W

\* A step of the control alone keeps what every pull has read.
LEMMA StepFields ==
    ASSUME TypeOK, NEW p \in Pulls, NEW to, NEW todo, Step(p, to, todo)
    PROVE  /\ Moves(p, pull[p].phase, to, todo) /\ pull'[p].kept = pull[p].kept
           /\ \A q \in Pulls \ {p} : Stays(q, {}) /\ pull'[q].owned = pull[q].owned
<1>1. pull'[p] = [pull[p] EXCEPT !.phase = to, !.todo = todo]
  BY DEF Step, TypeOK
<1>2. pull[p] \in Pull
  BY DEF TypeOK
<1>3. \A q \in Pulls \ {p} : pull'[q] = pull[q]
  BY DEF Step, TypeOK
<1>4. Moves(p, pull[p].phase, to, todo) /\ pull'[p].kept = pull[p].kept
  BY <1>1, <1>2 DEF Pull, Moves, Same
<1> QED BY <1>3, <1>4 DEF Stays, Same

\* A pull under way marks the rows another writer takes.
LEMMA TouchedFields ==
    ASSUME TypeOK, NEW q \in Pulls, NEW W \in SUBSET Employees,
           pull'[q] = Touched(q, W)
    PROVE  Stays(q, W) /\ pull'[q].owned = pull[q].owned
<1>1. pull[q] \in Pull
  BY DEF TypeOK
<1>2. CASE ~pull[q].full
  BY <1>2 DEF Touched, Stays, Same
<1>3. CASE pull[q].full
  <2>1. pull'[q] = [pull[q] EXCEPT !.touched = @ \cup W]
    BY <1>3 DEF Touched
  <2> QED BY ONLY <1>1, <2>1 DEF Pull, Stays, Same
<1> QED BY <1>2, <1>3

\* The pull that writes W goes on, and the others mark W.
LEMMA WriteFields ==
    ASSUME TypeOK, NEW p \in Pulls, NEW W \in SUBSET Employees, NEW to, NEW todo,
           Touching(p, W, to, todo)
    PROVE  /\ Moves(p, pull[p].phase, to, todo) /\ pull'[p].kept = pull[p].kept
           /\ \A q \in Pulls \ {p} : Stays(q, W) /\ pull'[q].owned = pull[q].owned
<1>1. pull'[p] = [pull[p] EXCEPT !.phase = to, !.todo = todo]
  BY DEF Touching
<1>2. pull[p] \in Pull
  BY DEF TypeOK
<1>3. Moves(p, pull[p].phase, to, todo) /\ pull'[p].kept = pull[p].kept
  BY <1>1, <1>2 DEF Pull, Moves, Same
<1>4. \A q \in Pulls \ {p} : pull'[q] = Touched(q, W)
  BY DEF Touching
<1> QED BY <1>3, <1>4, TouchedFields

\* The write of the staff about e is marked by every pull.
LEMMA LandFields ==
    ASSUME TypeOK, NEW does, NEW e \in Employees, Lands(does, e), NEW q \in Pulls
    PROVE  Stays(q, {e}) /\ pull'[q].owned = pull[q].owned
<1>1. pull'[q] = Touched(q, {e})
  BY DEF Lands
<1> QED BY <1>1, TouchedFields

\* The employees listed, and the time of the list.
RowsOf(p) ==
    [e \in Employees |->
        IF Present(e) /\ Newer(source[e].at, From(p).employees)
        THEN [rev |-> source[e].rev, at |-> source[e].at] ELSE Unlisted]

ResignsOf(p) ==
    [e \in Employees |-> IF Newer(resign[e], From(p).resigns) THEN resign[e] ELSE Never]

\* Listing the employees gives the rows BioTime then holds.
LEMMA ListEmployeesFields ==
    ASSUME TypeOK, NEW p \in Pulls, ListEmployees(p)
    PROVE  /\ pull'[p].rows = RowsOf(p) /\ pull'[p].resigns = pull[p].resigns
           /\ pull'[p].times.employees = now
           /\ pull'[p].times.resigns = pull[p].times.resigns
           /\ pull'[p].asked = pull[p].asked \ {"employees"}
           /\ pull'[p].todo = {e \in Employees : RowsOf(p)[e] # Unlisted}
           /\ pull[p].phase = "listing" /\ "employees" \in pull[p].asked
           /\ pull'[p].phase = Listed(p, "employees")
           /\ pull'[p].full = pull[p].full /\ pull'[p].since = pull[p].since
           /\ pull'[p].owned = pull[p].owned /\ pull'[p].touched = pull[p].touched
           /\ \A q \in Pulls \ {p} : pull'[q] = pull[q]
<1> DEFINE todo == {e \in Employees : RowsOf(p)[e] # Unlisted}
           rows == RowsOf(p)
           ph == Listed(p, "employees")
           ts == [pull[p].times EXCEPT !.employees = now]
           q == [pull[p] EXCEPT !.rows = rows, !.times = ts,
                   !.asked = @ \ {"employees"}, !.todo = todo, !.phase = ph]
<1>1. pull' = [pull EXCEPT ![p].rows = rows, ![p].times.employees = now,
                           ![p].asked = @ \ {"employees"}, ![p].todo = todo,
                           ![p].phase = ph]
  BY DEF ListEmployees, RowsOf, From
<1>2. pull[p].phase = "listing" /\ "employees" \in pull[p].asked
  BY DEF ListEmployees
<1>3. pull[p] \in Pull /\ pull \in [Pulls -> Pull]
  BY DEF TypeOK
<1>4. ts.employees = now /\ ts.resigns = pull[p].times.resigns
  BY <1>3 DEF Pull, Cursor
<1> HIDE DEF rows, todo, ph
<1>5. pull' = [pull EXCEPT ![p] = q]
  BY <1>1
<1>6. /\ q.rows = rows /\ q.resigns = pull[p].resigns /\ q.times = ts
      /\ q.asked = pull[p].asked \ {"employees"} /\ q.todo = todo /\ q.phase = ph
      /\ q.full = pull[p].full /\ q.since = pull[p].since
      /\ q.owned = pull[p].owned /\ q.touched = pull[p].touched
  <2> HIDE DEF ts
  <2> QED BY <1>3 DEF Pull
<1> HIDE DEF q, ts
<1>7. pull'[p] = q /\ \A r \in Pulls \ {p} : pull'[r] = pull[r]
  BY <1>3, <1>5
<1> QED BY <1>2, <1>4, <1>6, <1>7 DEF rows, todo, ph

\* Listing the resignations gives those BioTime then holds.
LEMMA ListResignsFields ==
    ASSUME TypeOK, NEW p \in Pulls, ListResigns(p)
    PROVE  /\ pull'[p].resigns = ResignsOf(p) /\ pull'[p].rows = pull[p].rows
           /\ pull'[p].times.resigns = now
           /\ pull'[p].times.employees = pull[p].times.employees
           /\ pull'[p].asked = pull[p].asked \ {"resigns"}
           /\ pull'[p].todo = pull[p].todo
           /\ pull[p].phase = "listing" /\ "resigns" \in pull[p].asked
           /\ pull'[p].phase = Listed(p, "resigns")
           /\ pull'[p].full = pull[p].full /\ pull'[p].since = pull[p].since
           /\ pull'[p].owned = pull[p].owned /\ pull'[p].touched = pull[p].touched
           /\ \A q \in Pulls \ {p} : pull'[q] = pull[q]
<1> DEFINE resigns == ResignsOf(p)
           ph == Listed(p, "resigns")
           ts == [pull[p].times EXCEPT !.resigns = now]
           q == [pull[p] EXCEPT !.resigns = resigns, !.times = ts,
                   !.asked = @ \ {"resigns"}, !.phase = ph]
<1>1. pull' = [pull EXCEPT ![p].resigns = resigns, ![p].times.resigns = now,
                           ![p].asked = @ \ {"resigns"}, ![p].phase = ph]
  BY DEF ListResigns, ResignsOf, From
<1>2. pull[p].phase = "listing" /\ "resigns" \in pull[p].asked
  BY DEF ListResigns
<1>3. pull[p] \in Pull /\ pull \in [Pulls -> Pull]
  BY DEF TypeOK
<1>4. ts.resigns = now /\ ts.employees = pull[p].times.employees
  BY <1>3 DEF Pull, Cursor
<1> HIDE DEF resigns, ph
<1>5. pull' = [pull EXCEPT ![p] = q]
  BY <1>1
<1>6. /\ q.resigns = resigns /\ q.rows = pull[p].rows /\ q.times = ts
      /\ q.asked = pull[p].asked \ {"resigns"} /\ q.todo = pull[p].todo /\ q.phase = ph
      /\ q.full = pull[p].full /\ q.since = pull[p].since
      /\ q.owned = pull[p].owned /\ q.touched = pull[p].touched
  <2> HIDE DEF ts
  <2> QED BY <1>3 DEF Pull
<1> HIDE DEF q, ts
<1>7. pull'[p] = q /\ \A r \in Pulls \ {p} : pull'[r] = pull[r]
  BY <1>3, <1>5
<1> QED BY <1>2, <1>4, <1>6, <1>7 DEF resigns, ph

\* A pull begins in charge, with the cursor and both lists to ask for.
LEMMA StartsFields ==
    ASSUME TypeOK, NEW p \in Pulls, NEW full \in BOOLEAN, Starts(p, full)
    PROVE  /\ pull'[p].full = full /\ pull'[p].since = cursor /\ pull'[p].owned
           /\ pull'[p].asked = {"employees", "resigns"} /\ pull'[p].phase = "listing"
           /\ pull'[p].rows = NoPull.rows /\ pull'[p].resigns = NoPull.resigns
           /\ pull'[p].times = NoPull.times
           /\ \A q \in Pulls \ {p} : pull'[q] = pull[q]
<1>1. pull'[p] = [NoPull EXCEPT !.phase = "listing", !.full = full, !.owned = TRUE,
                                !.since = cursor, !.asked = {"employees", "resigns"}]
  BY DEF TypeOK, Starts
<1>2. \A q \in Pulls \ {p} : pull'[q] = pull[q]
  BY DEF TypeOK, Starts
<1>3. NoPull \in Pull
  BY Ranges
<1> QED BY <1>1, <1>2, <1>3 DEF Pull

\* Without a pull nothing is in hand.
LEMMA NoPullFields ==
    /\ NoPull.phase = "idle" /\ ~NoPull.owned /\ NoPull.asked = {} /\ ~NoPull.full
    /\ NoPull.times.employees = Never /\ NoPull.times.resigns = Never
    /\ \A e \in Employees : /\ NoPull.rows[e] = Unlisted /\ NoPull.resigns[e] = Never
                            /\ Unlisted.rev = 0 /\ Unlisted.at = Never
  BY DEF NoPull, Unlisted

\* How a pull that is under way goes on.
Goes(q) ==
    \/ pull'[q].phase = pull[q].phase /\ pull'[q].todo = pull[q].todo
    \/ \E e \in Employees : /\ UpsertEmployee(q, e)
                            /\ pull[q].phase = "employees" /\ pull'[q].phase = "employees"
                            /\ pull'[q].todo = pull[q].todo \ {e}
    \/ /\ pull[q].phase = "employees" /\ pull[q].todo = {}
       /\ pull'[q].phase = "resigns" /\ pull'[q].todo = Resigned(q)
    \/ /\ pull[q].phase = "resigns" /\ pull'[q].phase = "resigns"
       /\ pull'[q].todo \subseteq pull[q].todo
    \/ /\ pull[q].phase \in {"resigns", "reconciling", "reactivating", "counting",
                             "missing", "archiving"}
       /\ pull'[q].phase \in {"reconciling", "reactivating", "counting", "missing",
                              "archiving", "closing"}

\* The pull q stays or goes on with what it has read, begins, ends or is answered.
LEMMA PullSteps ==
    ASSUME TypeOK, [Next]_vars, NEW q \in Pulls
    PROVE  \/ Same(q) /\ Goes(q) /\ (pull'[q].owned => pull[q].owned)
           \/ pull'[q] = NoPull
           \/ \E full \in BOOLEAN : Starts(q, full)
           \/ ListEmployees(q)
           \/ ListResigns(q)
<1> DEFINE On == Same(q) /\ Goes(q) /\ (pull'[q].owned => pull[q].owned)
<1>0. pull \in [Pulls -> Pull] /\ pull[q] \in Pull
  BY DEF TypeOK
<1>1. ASSUME pull'[q] = pull[q] PROVE On
  BY <1>1 DEF Same, Goes
<1>2. ASSUME NEW W, Stays(q, W), pull'[q].owned = pull[q].owned PROVE On
  BY <1>2 DEF Stays, Goes
<1>3. ASSUME NEW p \in Pulls,
             \/ EmployeesDone(p) \/ ResignsDone(p) \/ ReconcileReads(p) \/ MissingReads(p)
      PROVE  On
  <2>1. PICK to, todo :
           /\ Step(p, to, todo)
           /\ \/ pull[p].phase = "employees" /\ pull[p].todo = {} /\ to = "resigns"
                                             /\ todo = Resigned(p)
              \/ /\ pull[p].phase \in {"resigns", "reconciling", "missing"}
                 /\ to \in {"reconciling", "closing", "reactivating", "archiving"}
    BY <1>3 DEF EmployeesDone, ResignsDone, ReconcileReads, MissingReads
  <2>2. CASE q = p
    BY <2>1, <2>2, StepFields DEF Moves, Goes
  <2>3. CASE q # p
    BY <1>2, <2>1, <2>3, StepFields
  <2> QED BY <2>2, <2>3
<1>4. ASSUME NEW p \in Pulls, NEW e \in Employees, UpsertEmployee(p, e)
      PROVE  On
  <2>1. /\ Touching(p, {e}, "employees", pull[p].todo \ {e}) /\ pull[p].phase = "employees"
        /\ {e} \in SUBSET Employees
    BY <1>4 DEF UpsertEmployee
  <2>2. CASE q = p
    <3>1. Moves(p, pull[p].phase, "employees", pull[p].todo \ {e})
      BY <2>1, WriteFields
    <3> QED BY <1>4, <2>1, <2>2, <3>1 DEF Moves, Goes
  <2>3. CASE q # p
    BY <1>2, <2>1, <2>3, WriteFields
  <2> QED BY <2>2, <2>3
<1>5. ASSUME NEW p \in Pulls, NEW e \in Employees, UpsertResign(p, e)
      PROVE  On
  <2>1. /\ Touching(p, {e}, "resigns", pull[p].todo \ {e}) /\ pull[p].phase = "resigns"
        /\ {e} \in SUBSET Employees
    BY <1>5 DEF UpsertResign
  <2>2. CASE q = p
    BY <2>1, <2>2, WriteFields DEF Moves, Goes
  <2>3. CASE q # p
    BY <1>2, <2>1, <2>3, WriteFields
  <2> QED BY <2>2, <2>3
<1>6. ASSUME NEW p \in Pulls, ReconcileWrites(p) \/ Archives(p)
      PROVE  On
  <2>1. pull[p].todo \in SUBSET Employees
    BY DEF TypeOK, Pull
  <2>2. /\ \/ Touching(p, pull[p].todo, "counting", {})
           \/ Touching(p, pull[p].todo, "closing", {})
        /\ pull[p].phase \in {"reactivating", "archiving"}
    BY <1>6 DEF ReconcileWrites, Archives
  <2>3. CASE q = p
    <3>1. \/ Moves(p, pull[p].phase, "counting", {})
          \/ Moves(p, pull[p].phase, "closing", {})
      BY <2>1, <2>2, WriteFields
    <3> QED BY <2>2, <2>3, <3>1 DEF Moves, Goes
  <2>4. CASE q # p
    BY <1>2, <2>1, <2>2, <2>4, WriteFields
  <2> QED BY <2>3, <2>4
<1>7. ASSUME NEW p \in Pulls, CountsActive(p) \/ GivesUp(p) PROVE On
  <2>1. CASE q # p
    BY <1>0, <1>1, <1>7, <2>1 DEF CountsActive, GivesUp
  <2>2. CASE q = p /\ GivesUp(p)
    <3>1. pull'[q] = [pull[q] EXCEPT !.owned = FALSE]
      BY <1>0, <2>2 DEF GivesUp
    <3> QED BY <1>0, <3>1 DEF Pull, Same, Goes
  <2>3. CASE q = p /\ CountsActive(p)
    <3> DEFINE b == TooSmall(p)
    <3> HIDE DEF b
    <3>1. pull'[q] = [pull[q] EXCEPT !.kept = b, !.phase = IF b THEN "closing" ELSE "missing"]
      BY <1>0, <2>3 DEF CountsActive, b
    <3>2. pull[q].phase = "counting"
      BY <2>3 DEF CountsActive
    <3>3. /\ Same(q) /\ pull'[q].owned = pull[q].owned
          /\ pull'[q].phase \in {"closing", "missing"}
      BY <1>0, <3>1 DEF Pull, Same
    <3> QED BY <3>2, <3>3 DEF Goes
  <2> QED BY <1>7, <2>1, <2>2, <2>3
<1>8. ASSUME NEW e \in Employees, EditLands(e) \/ ResignLands(e) \/ ReinstateLands(e)
      PROVE  On
  <2>1. Stays(q, {e}) /\ pull'[q].owned = pull[q].owned
    BY <1>8, LandFields DEF EditLands, ResignLands, ReinstateLands
  <2> QED BY <1>2, <2>1
<1>9. ASSUME NEW p \in Pulls, Closes(p) \/ Fails(p)
      PROVE  On \/ pull'[q] = NoPull
  BY <1>0, <1>1, <1>9 DEF Closes, Fails
<1>10. ASSUME NEW p \in Pulls, NEW full \in BOOLEAN, Starts(p, full), p # q
       PROVE  On
  BY <1>1, <1>10, StartsFields
<1>11. ASSUME NEW p \in Pulls, ListEmployees(p) \/ ListResigns(p), p # q
       PROVE  On
  BY <1>1, <1>11, ListEmployeesFields, ListResignsFields
<1>12. ASSUME NEW e \in Employees,
              \/ HireOrEdit(e) \/ Resign(e) \/ Reinstate(e) \/ Delete(e)
              \/ EditInBioTime(e) \/ ResignInBioTime(e) \/ ReinstateInBioTime(e)
       PROVE  On
  BY <1>1, <1>12 DEF HireOrEdit, Resign, Reinstate, Delete, EditInBioTime,
                     ResignInBioTime, ReinstateInBioTime
<1>13. CASE Tick \/ BackfillSucceeds \/ StaffFails \/ UNCHANGED vars
  BY <1>1, <1>13 DEF Tick, BackfillSucceeds, StaffFails, vars
<1> HIDE DEF On
<1>14. CASE \E p \in Pulls : \E full \in BOOLEAN : Starts(p, full)
  BY <1>10, <1>14 DEF On
<1>15. CASE \E p \in Pulls : ListEmployees(p) \/ ListResigns(p)
  BY <1>11, <1>15 DEF On
<1>16. CASE \E p \in Pulls : Closes(p) \/ Fails(p)
  BY <1>9, <1>16 DEF On
<1>17. CASE \/ \E p \in Pulls :
                 \/ EmployeesDone(p) \/ ResignsDone(p) \/ ReconcileReads(p)
                 \/ MissingReads(p) \/ ReconcileWrites(p) \/ Archives(p)
                 \/ CountsActive(p) \/ GivesUp(p)
            \/ \E p \in Pulls, e \in Employees : UpsertEmployee(p, e) \/ UpsertResign(p, e)
  BY <1>3, <1>4, <1>5, <1>6, <1>7, <1>17 DEF On
<1>18. CASE \E e \in Employees :
              \/ EditLands(e) \/ ResignLands(e) \/ ReinstateLands(e)
              \/ HireOrEdit(e) \/ Resign(e) \/ Reinstate(e) \/ Delete(e)
              \/ EditInBioTime(e) \/ ResignInBioTime(e) \/ ReinstateInBioTime(e)
  BY <1>8, <1>12, <1>18 DEF On
<1>19. CASE Tick \/ BackfillSucceeds \/ StaffFails \/ UNCHANGED vars
  BY <1>13, <1>19 DEF On
<1> QED BY <1>14, <1>15, <1>16, <1>17, <1>18, <1>19 DEF Next

\* Whoever writes the row of e writes what he has read, and what is known of him
\* stays known.
LEMMA LocalSteps ==
    ASSUME TypeOK, [Next]_vars, NEW e \in Employees
    PROVE  /\ \/ local'[e].rev = local[e].rev
              \/ \E p \in Pulls : UpsertEmployee(p, e) /\ local'[e].rev = pull[p].rows[e].rev
              \/ EditLands(e) /\ local'[e].rev = staff.rev
           /\ \/ local'[e].stamp = local[e].stamp
              \/ \E p \in Pulls : local'[e].stamp = pull[p].rows[e].at
              \/ local'[e].stamp \in {now, staff.at}
           /\ local[e].status # "none" => local'[e].status # "none"
           /\ \/ record'[e] = record[e] \/ record'[e] = now
              \/ \E p \in Pulls : record'[e] = pull[p].resigns[e]
<1>0. local \in [Employees -> Local] /\ record \in [Employees -> Stamps]
  BY DEF TypeOK
<1>1. CASE UNCHANGED <<local, record>>
  BY <1>1
<1>2. ASSUME NEW p \in Pulls, NEW f \in Employees, UpsertEmployee(p, f)
      PROVE  \/ UNCHANGED <<local[e], record[e]>>
             \/ /\ f = e /\ record'[e] = record[e]
                /\ local'[e].rev = pull[p].rows[e].rev
                /\ local'[e].stamp = pull[p].rows[e].at
                /\ local'[e].status # "none"
  BY <1>0, <1>2 DEF UpsertEmployee
<1>3. ASSUME NEW p \in Pulls, NEW f \in Employees, UpsertResign(p, f)
      PROVE  /\ local'[e].rev = local[e].rev /\ local'[e].stamp = local[e].stamp
             /\ local[e].status # "none" => local'[e].status # "none"
             /\ record'[e] = record[e] \/ record'[e] = pull[p].resigns[e]
  BY <1>0, <1>3 DEF UpsertResign, Local
<1>4. ASSUME NEW p \in Pulls, ReconcileWrites(p) \/ Archives(p)
      PROVE  /\ local'[e].rev = local[e].rev /\ local'[e].stamp \in {local[e].stamp, now}
             /\ local[e].status # "none" => local'[e].status # "none"
             /\ record'[e] = record[e]
  <2>1. local[e] \in Local
    BY <1>0
  <2>2. CASE ReconcileWrites(p)
    <3>1. local'[e] = IF e \in pull[p].todo THEN [local[e] EXCEPT !.status = "ACTIVE"]
                      ELSE local[e]
      BY <2>2 DEF ReconcileWrites
    <3>2. record' = record
      BY <2>2 DEF ReconcileWrites
    <3> QED BY <2>1, <3>1, <3>2 DEF Local
  <2>3. CASE Archives(p)
    <3>1. local'[e] = IF e \in pull[p].todo
                      THEN [local[e] EXCEPT !.status = "RESIGNED", !.stamp = now]
                      ELSE local[e]
      BY <2>3 DEF Archives
    <3>2. record' = record
      BY <2>3 DEF Archives
    <3> QED BY <2>1, <3>1, <3>2 DEF Local
  <2> QED BY <1>4, <2>2, <2>3
<1>5. ASSUME NEW f \in Employees, EditLands(f)
      PROVE  \/ UNCHANGED <<local[e], record[e]>>
             \/ /\ f = e /\ record'[e] = record[e]
                /\ local'[e].rev = staff.rev
                /\ local'[e].stamp \in {local[e].stamp, now, staff.at}
                /\ local'[e].status # "none"
  BY <1>0, <1>5 DEF EditLands
<1>6. ASSUME NEW f \in Employees, ResignLands(f) \/ ReinstateLands(f)
      PROVE  /\ local'[e].rev = local[e].rev /\ local'[e].stamp = local[e].stamp
             /\ local[e].status # "none" => local'[e].status # "none"
             /\ record'[e] = record[e] \/ record'[e] = now
  <2>1. PICK s \in {"none", "ACTIVE", "RESIGNED"} :
             /\ local' = [local EXCEPT ![f].status = s]
             /\ local[f].status # "none" => s # "none"
    BY <1>6 DEF ResignLands, ReinstateLands
  <2>2. record'[e] = record[e] \/ record'[e] = now
    BY <1>0, <1>6 DEF ResignLands, ReinstateLands
  <2> QED BY <1>0, <2>1, <2>2 DEF Local
<1>7. ASSUME NEW p \in Pulls,
             \/ ListEmployees(p) \/ ListResigns(p) \/ EmployeesDone(p) \/ ResignsDone(p)
             \/ ReconcileReads(p) \/ CountsActive(p) \/ MissingReads(p)
             \/ Closes(p) \/ Fails(p) \/ GivesUp(p) \/ \E full \in BOOLEAN : Starts(p, full)
      PROVE  UNCHANGED <<local, record>>
  BY <1>7 DEF ListEmployees, ListResigns, EmployeesDone, ResignsDone, ReconcileReads,
              CountsActive, MissingReads, Closes, Fails, GivesUp, Starts, tables
<1>8. ASSUME NEW f \in Employees,
              \/ HireOrEdit(f) \/ Resign(f) \/ Reinstate(f) \/ Delete(f)
              \/ EditInBioTime(f) \/ ResignInBioTime(f) \/ ReinstateInBioTime(f)
      PROVE  UNCHANGED <<local, record>>
  BY <1>8 DEF HireOrEdit, Resign, Reinstate, Delete, EditInBioTime,
              ResignInBioTime, ReinstateInBioTime, tables
<1>9. CASE Tick \/ BackfillSucceeds \/ StaffFails \/ UNCHANGED vars
  BY <1>9, <1>1 DEF Tick, BackfillSucceeds, StaffFails, vars, tables
<1>10. CASE Next
  <2>1. CASE \E p \in Pulls, f \in Employees : UpsertEmployee(p, f)
    BY <1>2, <2>1
  <2>2. CASE \E p \in Pulls, f \in Employees : UpsertResign(p, f)
    BY <1>3, <2>2
  <2>3. CASE \E p \in Pulls : ReconcileWrites(p) \/ Archives(p)
    BY <1>4, <2>3
  <2>4. CASE \E f \in Employees : EditLands(f)
    BY <1>5, <2>4
  <2>5. CASE \E f \in Employees : ResignLands(f) \/ ReinstateLands(f)
    BY <1>6, <2>5
  <2> QED BY <1>1, <1>7, <1>8, <1>9, <1>10, <2>1, <2>2, <2>3, <2>4, <2>5 DEF Next
<1> QED BY <1>9, <1>10

\* The clock goes on.
LEMMA ClockSteps == [Next]_vars => now' = now \/ now' = now + 1
BY DEF Next, vars, Tick, HireOrEdit, Resign, Reinstate, Delete, Starts, ListEmployees,
       ListResigns, UpsertEmployee, EmployeesDone, UpsertResign, ResignsDone,
       ReconcileReads, ReconcileWrites, CountsActive, MissingReads, Archives, Closes,
       Fails, GivesUp, BackfillSucceeds, EditInBioTime, EditLands, ResignInBioTime,
       ResignLands, ReinstateInBioTime, ReinstateLands, StaffFails

\* BioTime dates what changes and keeps its contents in order.
LEMMA SourceSteps ==
    ASSUME TypeOK, [Next]_vars, NEW e \in Employees
    PROVE  /\ changes' \in {changes, changes + 1}
           /\ \/ source'[e] = source[e]
              \/ /\ source'[e] = [state |-> "present", rev |-> changes', at |-> now]
                 /\ source[e].state # "deleted" /\ changes' = changes + 1
                 /\ now' = now
              \/ /\ source'[e].state = "deleted"
                 /\ source'[e].rev = source[e].rev /\ source'[e].at = source[e].at
           /\ resign'[e] \in {resign[e], Never, now}
<1>0. /\ source \in [Employees -> Source] /\ resign \in [Employees -> Stamps]
      /\ source[e] \in Source
  BY DEF TypeOK
<1>1. ASSUME NEW f \in Employees, HireOrEdit(f) \/ EditInBioTime(f)
      PROVE  /\ now' = now /\ changes' = changes + 1 /\ UNCHANGED resign
             /\ \/ source'[e] = source[e]
                \/ /\ source'[e] = [state |-> "present", rev |-> changes', at |-> now]
                   /\ source[e].state # "deleted"
  <2>1. source[f].state # "deleted"
    BY <1>1 DEF HireOrEdit, EditInBioTime, Present
  <2>2. source' = [source EXCEPT ![f] = [state |-> "present", rev |-> changes', at |-> now]]
    BY <1>1 DEF HireOrEdit, EditInBioTime, Save
  <2> QED BY <1>0, <1>1, <2>1, <2>2 DEF HireOrEdit, EditInBioTime, Save, Change
<1>2. ASSUME NEW f \in Employees, Resign(f) \/ Reinstate(f) \/ ResignInBioTime(f)
                                  \/ ReinstateInBioTime(f)
      PROVE  /\ now' = now /\ changes' = changes + 1 /\ UNCHANGED source
             /\ resign'[e] \in {resign[e], Never, now}
  BY <1>0, <1>2 DEF Resign, Reinstate, ResignInBioTime, ReinstateInBioTime, Change
<1>3. ASSUME NEW f \in Employees, Delete(f)
      PROVE  /\ now' = now /\ changes' = changes + 1
             /\ resign'[e] \in {resign[e], Never}
             /\ \/ source'[e] = source[e]
                \/ /\ source'[e].state = "deleted"
                   /\ source'[e].rev = source[e].rev /\ source'[e].at = source[e].at
  BY <1>0, <1>3 DEF Delete, Change, Source
<1>4. CASE Tick
  BY <1>4 DEF Tick, biotime
<1>5. ASSUME NEW p \in Pulls,
             \/ ListEmployees(p) \/ ListResigns(p) \/ EmployeesDone(p) \/ ResignsDone(p)
             \/ ReconcileReads(p) \/ ReconcileWrites(p) \/ CountsActive(p)
             \/ MissingReads(p) \/ Archives(p) \/ Closes(p) \/ Fails(p) \/ GivesUp(p)
             \/ \E full \in BOOLEAN : Starts(p, full)
             \/ \E f \in Employees : UpsertEmployee(p, f) \/ UpsertResign(p, f)
      PROVE  UNCHANGED <<now, changes, source, resign>>
  BY <1>5 DEF ListEmployees, ListResigns, EmployeesDone, ResignsDone, ReconcileReads,
              ReconcileWrites, CountsActive, MissingReads, Archives, Closes, Fails,
              GivesUp, Starts, UpsertEmployee, UpsertResign, biotime
<1>6. ASSUME NEW f \in Employees, EditLands(f) \/ ResignLands(f) \/ ReinstateLands(f)
      PROVE  UNCHANGED <<now, changes, source, resign>>
  BY <1>6 DEF EditLands, ResignLands, ReinstateLands, biotime
<1>7. CASE BackfillSucceeds \/ StaffFails \/ UNCHANGED vars
  BY <1>7 DEF BackfillSucceeds, StaffFails, vars, biotime
<1>8. CASE UNCHANGED <<now, changes, source, resign>>
  BY <1>8
<1>9. CASE \E f \in Employees : HireOrEdit(f) \/ EditInBioTime(f)
  BY <1>1, <1>9
<1>10. CASE \E f \in Employees : Resign(f) \/ Reinstate(f) \/ ResignInBioTime(f)
                                  \/ ReinstateInBioTime(f)
  BY <1>2, <1>10
<1>11. CASE \E f \in Employees : Delete(f)
  BY <1>3, <1>11
<1> QED BY <1>4, <1>5, <1>6, <1>7, <1>8, <1>9, <1>10, <1>11 DEF Next

\* The cursor is the one of a run still in charge, or is lost to an import; what
\* the staff write was in BioTime when they asked.
LEMMA CursorSteps ==
    ASSUME TypeOK, [Next]_vars
    PROVE  /\ \/ cursor' = cursor
              \/ /\ BackfillSucceeds
                 /\ cursor' = [employees |-> Never, resigns |-> Never]
              \/ \E p \in Pulls : Closes(p) /\ pull[p].owned /\ cursor' = NextCursor
           /\ \/ staff' = staff
              \/ staff'.does = "nothing" /\ staff'.at = Never
              \/ staff'.does # "edit" /\ staff'.at = now
              \/ \E e \in Employees :
                    /\ EditInBioTime(e)
                    /\ staff' = [does |-> "edit", who |-> {e}, rev |-> changes', at |-> now]
<1>1. ASSUME NEW p \in Pulls,
             \/ ListEmployees(p) \/ ListResigns(p) \/ EmployeesDone(p) \/ ResignsDone(p)
             \/ ReconcileReads(p) \/ ReconcileWrites(p) \/ CountsActive(p)
             \/ MissingReads(p) \/ Archives(p) \/ Fails(p) \/ GivesUp(p)
             \/ \E full \in BOOLEAN : Starts(p, full)
             \/ \E f \in Employees : UpsertEmployee(p, f) \/ UpsertResign(p, f)
      PROVE  UNCHANGED <<cursor, staff>>
  BY <1>1 DEF ListEmployees, ListResigns, EmployeesDone, ResignsDone, ReconcileReads,
              ReconcileWrites, CountsActive, MissingReads, Archives, Fails,
              GivesUp, Starts, UpsertEmployee, UpsertResign
<1>2. ASSUME NEW f \in Employees, HireOrEdit(f) \/ Resign(f) \/ Reinstate(f) \/ Delete(f)
      PROVE  UNCHANGED <<cursor, staff>>
  BY <1>2 DEF HireOrEdit, Resign, Reinstate, Delete
<1>3. ASSUME NEW f \in Employees, EditLands(f) \/ ResignLands(f) \/ ReinstateLands(f)
      PROVE  cursor' = cursor /\ staff'.does = "nothing" /\ staff'.at = Never
  BY <1>3 DEF EditLands, ResignLands, ReinstateLands, Lands, Idle
<1>4. ASSUME NEW f \in Employees, ResignInBioTime(f) \/ ReinstateInBioTime(f)
      PROVE  cursor' = cursor /\ staff'.does # "edit" /\ staff'.at = now
  BY <1>4 DEF ResignInBioTime, ReinstateInBioTime, Asks
<1>5. ASSUME NEW f \in Employees, EditInBioTime(f)
      PROVE  /\ cursor' = cursor
             /\ staff' = [does |-> "edit", who |-> {f}, rev |-> changes', at |-> now]
  BY <1>5 DEF EditInBioTime, Asks
<1>6. CASE StaffFails
  BY <1>6 DEF StaffFails, Idle
<1>7. CASE Tick \/ UNCHANGED vars
  BY <1>7 DEF Tick, vars
<1>8. CASE BackfillSucceeds
  BY <1>8 DEF BackfillSucceeds
<1>9. ASSUME NEW p \in Pulls, Closes(p)
      PROVE  staff' = staff /\ (cursor' = cursor \/ (pull[p].owned /\ cursor' = NextCursor))
  <2>1. pull[p].owned => cursor' = NextCursor
    BY <1>9 DEF Closes
  <2>2. ~pull[p].owned => cursor' = cursor
    BY <1>9 DEF Closes
  <2>3. staff' = staff
    BY <1>9 DEF Closes
  <2> QED BY <2>1, <2>2, <2>3
<1> QED BY <1>1, <1>2, <1>3, <1>4, <1>5, <1>6, <1>7, <1>8, <1>9 DEF Next

\* What a pull has in hand is what it had, nothing, or what BioTime says.
LEMMA ReadSteps ==
    ASSUME TypeOK, [Next]_vars, NEW p \in Pulls
    PROVE  /\ \/ /\ pull'[p].times.employees = pull[p].times.employees
                 /\ pull'[p].rows = pull[p].rows
              \/ /\ pull'[p].times.employees = Never
                 /\ \A e \in Employees : pull'[p].rows[e] = Unlisted
              \/ ListEmployees(p) /\ pull'[p].times.employees = now /\ pull'[p].rows = RowsOf(p)
           /\ \/ /\ pull'[p].times.resigns = pull[p].times.resigns
                 /\ pull'[p].resigns = pull[p].resigns
              \/ /\ pull'[p].times.resigns = Never
                 /\ \A e \in Employees : pull'[p].resigns[e] = Never
              \/ ListResigns(p) /\ pull'[p].times.resigns = now /\ pull'[p].resigns = ResignsOf(p)
BY PullSteps, StartsFields, NoPullFields, ListEmployeesFields, ListResignsFields DEF Same

\* No step dates anything later than now.
LEMMA TimeStep == TypeOK /\ TimeInv /\ [Next]_vars => TimeInv'
<1> SUFFICES ASSUME TypeOK, TimeInv, [Next]_vars PROVE TimeInv'
  OBVIOUS
<1>0. /\ now \in Nat /\ 1 <= now /\ Never = 0 /\ now' \in {now, now + 1} /\ now <= now'
      /\ \A e \in Employees : /\ source[e].at \in Nat /\ resign[e] \in Nat
                              /\ local[e].stamp \in Nat /\ record[e] \in Nat
      /\ cursor.employees \in Nat /\ cursor.resigns \in Nat /\ staff.at \in Nat
      /\ \A p \in Pulls :
            /\ pull[p].times.employees \in Nat /\ pull[p].times.resigns \in Nat
            /\ \A e \in Employees : pull[p].rows[e].at \in Nat /\ pull[p].resigns[e] \in Nat
  <2>1. now \in Nat /\ 1 <= now /\ Never = 0
    BY DEF TypeOK, Times, Never
  <2>2. now' \in {now, now + 1} /\ now <= now'
    BY <2>1, ClockSteps
  <2>3. ASSUME NEW e \in Employees
        PROVE  /\ source[e].at \in Nat /\ resign[e] \in Nat
               /\ local[e].stamp \in Nat /\ record[e] \in Nat
    BY Ranges DEF TypeOK, Source, Local
  <2>4. cursor.employees \in Nat /\ cursor.resigns \in Nat /\ staff.at \in Nat
    BY Ranges DEF TypeOK, Cursor, Request
  <2>5. ASSUME NEW p \in Pulls
        PROVE  /\ pull[p].times.employees \in Nat /\ pull[p].times.resigns \in Nat
               /\ \A e \in Employees : pull[p].rows[e].at \in Nat /\ pull[p].resigns[e] \in Nat
    <3>1. pull[p] \in Pull
      BY DEF TypeOK
    <3> QED BY <3>1, Ranges DEF Cursor, Pull, Listing
  <2> QED BY <2>1, <2>2, <2>3, <2>4, <2>5
<1>1. ASSUME NEW e \in Employees
      PROVE  /\ source'[e].at <= now' /\ resign'[e] <= now'
             /\ source'[e].state = "present" => source'[e].at # Never
  BY <1>0, SourceSteps DEF TimeInv
<1>2. ASSUME NEW e \in Employees
      PROVE  local'[e].stamp <= now' /\ record'[e] <= now'
  BY <1>0, LocalSteps DEF TimeInv
<1>3. cursor'.employees <= now' /\ cursor'.resigns <= now' /\ staff'.at <= now'
  BY <1>0, CursorSteps, Cursors DEF TimeInv
<1>4. ASSUME NEW p \in Pulls
      PROVE  /\ pull'[p].times.employees <= now' /\ pull'[p].times.resigns <= now'
             /\ \A e \in Employees : pull'[p].rows[e].at <= now' /\ pull'[p].resigns[e] <= now'
  <2>1. \A e \in Employees : /\ RowsOf(p)[e].at \in {source[e].at, Never}
                             /\ ResignsOf(p)[e] \in {resign[e], Never}
    BY DEF RowsOf, ResignsOf, Unlisted
  <2> QED BY <1>0, <2>1, ReadSteps, NoPullFields DEF TimeInv
<1> QED BY <1>1, <1>2, <1>3, <1>4 DEF TimeInv

\* No step reads what BioTime does not say yet.
LEMMA RevStep == TypeOK /\ RevInv /\ [Next]_vars => RevInv'
<1> SUFFICES ASSUME TypeOK, RevInv, [Next]_vars PROVE RevInv'
  OBVIOUS
<1>0. /\ changes \in Nat
      /\ \A e \in Employees : source[e].rev \in Nat /\ local[e].rev \in Nat
      /\ staff.rev \in Nat
      /\ \A p \in Pulls, e \in Employees : pull[p].rows[e].rev \in Nat
  <2>1. ASSUME NEW e \in Employees PROVE source[e].rev \in Nat /\ local[e].rev \in Nat
    BY Ranges DEF TypeOK, Source, Local
  <2>2. changes \in Nat /\ staff.rev \in Nat
    <3>1. changes \in 0 .. MaxChanges /\ staff.rev \in Contents
      BY DEF TypeOK, Request
    <3>2. changes \in Nat
      BY <3>1, BoundsAssumption
    <3> QED BY <3>1, <3>2, Ranges
  <2>3. ASSUME NEW p \in Pulls, NEW e \in Employees PROVE pull[p].rows[e].rev \in Nat
    <3>1. pull[p] \in Pull
      BY DEF TypeOK
    <3> QED BY <3>1, Ranges DEF Pull, Listing
  <2> QED BY <2>1, <2>2, <2>3
<1>1. ASSUME NEW e \in Employees
      PROVE  /\ source[e].rev <= source'[e].rev /\ source'[e].rev <= changes'
             /\ source'[e].rev \in Nat
  BY <1>0, SourceSteps DEF RevInv
<1>2. ASSUME NEW e \in Employees
      PROVE  local'[e].rev <= source'[e].rev
  <2>1. EditLands(e) => staff.does = "edit" /\ e \in staff.who
    BY DEF EditLands, Lands
  <2> QED BY <1>0, <1>1, <2>1, LocalSteps DEF RevInv
<1>3. ASSUME NEW p \in Pulls, NEW e \in Employees
      PROVE  pull'[p].rows[e].rev <= source'[e].rev
  <2>1. RowsOf(p)[e].rev \in {source[e].rev, 0} /\ Unlisted.rev = 0
    BY DEF RowsOf, Unlisted
  <2> QED BY <1>0, <1>1, <2>1, ReadSteps DEF RevInv
<1>4. staff'.does = "edit" => \A e \in staff'.who : staff'.rev <= source'[e].rev
  <2>1. staff.who \in SUBSET Employees
    BY DEF TypeOK, Request
  <2>2. ASSUME NEW e \in Employees, EditInBioTime(e)
        PROVE  source'[e].rev = changes'
    BY <2>2 DEF TypeOK, EditInBioTime, Save
  <2>3. ASSUME NEW e \in Employees PROVE changes' \in Nat
    BY <1>0, SourceSteps
  <2> QED BY <1>0, <1>1, <2>1, <2>2, <2>3, CursorSteps DEF RevInv
<1> QED BY <1>1, <1>2, <1>3, <1>4 DEF RevInv

\* No step puts a second run in charge, or moves the cursor of the one that is.
LEMMA OwnedStep == TypeOK /\ OwnedInv /\ [Next]_vars => OwnedInv'
<1> SUFFICES ASSUME TypeOK, OwnedInv, [Next]_vars PROVE OwnedInv'
  OBVIOUS
<1>1. ASSUME NEW p \in Pulls, pull'[p].owned,
             ~ \E full \in BOOLEAN : Starts(p, full)
      PROVE  /\ pull[p].owned /\ pull[p].phase # "idle" /\ pull'[p].phase # "idle"
             /\ pull'[p].since = pull[p].since /\ pull[p].since = cursor
  <2>1. CASE Same(p) /\ Goes(p) /\ pull[p].owned
    BY <2>1 DEF Same, Goes, OwnedInv
  <2>2. CASE ListEmployees(p) \/ ListResigns(p)
    BY <1>1, <2>2, ListEmployeesFields, ListResignsFields DEF OwnedInv, Listed
  <2> QED BY <1>1, <2>1, <2>2, PullSteps, NoPullFields
<1>2. ASSUME NEW p \in Pulls, NEW full \in BOOLEAN, Starts(p, full)
      PROVE  /\ pull'[p].phase = "listing" /\ pull'[p].since = cursor /\ cursor' = cursor
             /\ \A q \in Pulls : ~pull[q].owned
             /\ \A q \in Pulls \ {p} : pull'[q] = pull[q]
  BY <1>2, StartsFields DEF Starts
<1>3. ASSUME NEW p \in Pulls, pull'[p].owned PROVE pull'[p].since = cursor'
  <2>1. CASE \E full \in BOOLEAN : Starts(p, full)
    BY <1>2, <2>1
  <2>2. CASE ~ \E full \in BOOLEAN : Starts(p, full)
    <3>1. pull[p].owned /\ pull'[p].since = cursor
      BY <1>1, <1>3, <2>2
    <3>2. ~BackfillSucceeds
      BY <3>1 DEF BackfillSucceeds
    <3>3. ASSUME NEW q \in Pulls, Closes(q), pull[q].owned PROVE FALSE
      <4>1. p = q
        BY <3>1, <3>3 DEF OwnedInv
      <4>2. pull'[p] = NoPull
        BY <3>3, <4>1 DEF Closes, TypeOK
      <4> QED BY <1>3, <4>2, NoPullFields
    <3> QED BY <3>1, <3>2, <3>3, CursorSteps
  <2> QED BY <2>1, <2>2
<1>4. ASSUME NEW p \in Pulls, NEW q \in Pulls, pull'[p].owned, pull'[q].owned
      PROVE  p = q
  BY <1>1, <1>2, <1>4 DEF OwnedInv
<1>5. ASSUME NEW p \in Pulls, pull'[p].owned PROVE pull'[p].phase # "idle"
  BY <1>1, <1>2, <1>5
<1> QED BY <1>3, <1>4, <1>5 DEF OwnedInv

\* What is said of the lists of p lasts as long as they do.
LEMMA ListedLasts ==
    ASSUME TypeOK, TimeInv, [Next]_vars, NEW p \in Pulls,
           pull'[p].full = pull[p].full, pull'[p].since = pull[p].since
    PROVE  /\ /\ RowsListed(p) /\ pull'[p].rows = pull[p].rows
              /\ pull'[p].times.employees = pull[p].times.employees
              => RowsListed(p)'
           /\ /\ ResignsListed(p) /\ pull'[p].resigns = pull[p].resigns
              /\ pull'[p].times.resigns = pull[p].times.resigns
              => ResignsListed(p)'
<1>1. From(p)' = From(p)
  BY DEF From
<1>2. ASSUME NEW e \in Employees
      PROVE  source'[e] = source[e] \/ source'[e].state = "deleted"
             \/ ~(source'[e].at < pull[p].times.employees)
  <2>1. pull[p].times.employees \in Nat /\ now \in Nat /\ pull[p].times.employees <= now
    BY Ranges DEF TypeOK, TimeInv, Pull, Cursor
  <2> QED BY <2>1, SourceSteps
<1>3. ASSUME NEW e \in Employees
      PROVE  resign'[e] = resign[e] \/ resign'[e] = Never
             \/ ~(resign'[e] < pull[p].times.resigns)
  <2>1. pull[p].times.resigns \in Nat /\ now \in Nat /\ pull[p].times.resigns <= now
    BY Ranges DEF TypeOK, TimeInv, Pull, Cursor
  <2> QED BY <2>1, SourceSteps
<1>4. ASSUME RowsListed(p), pull'[p].rows = pull[p].rows,
             pull'[p].times.employees = pull[p].times.employees
      PROVE  RowsListed(p)'
  BY <1>1, <1>2, <1>4 DEF RowsListed, Present
<1>5. ASSUME ResignsListed(p), pull'[p].resigns = pull[p].resigns,
             pull'[p].times.resigns = pull[p].times.resigns
      PROVE  ResignsListed(p)'
  BY <1>1, <1>3, <1>5 DEF ResignsListed, Newer
<1> QED BY <1>4, <1>5

\* No step leaves out of a list what has not changed since it was asked for.
LEMMA ListsStep == TypeOK /\ TimeInv /\ ListsInv /\ [Next]_vars => ListsInv'
<1> SUFFICES ASSUME TypeOK, TimeInv, ListsInv, [Next]_vars PROVE ListsInv'
  OBVIOUS
<1> DEFINE Part(p) ==
        /\ pull[p].phase # "idle" /\ "employees" \notin pull[p].asked => RowsListed(p)
        /\ pull[p].phase # "idle" /\ "resigns" \notin pull[p].asked => ResignsListed(p)
        /\ pull[p].phase # "listing" => pull[p].asked = {}
        /\ pull[p].phase = "listing" /\ "employees" \notin pull[p].asked
              => pull[p].todo = Snapshot(p)
        /\ pull[p].phase = "employees" => pull[p].todo \subseteq Snapshot(p)
        /\ pull[p].phase = "resigns" => pull[p].todo \subseteq Resigned(p)
<1> SUFFICES ASSUME NEW p \in Pulls PROVE Part(p)'
  BY DEF ListsInv
<1>0. Part(p)
  BY DEF ListsInv
<1>1. CASE Same(p) /\ Goes(p)
  <2>1. Snapshot(p)' = Snapshot(p) /\ Resigned(p)' = Resigned(p)
    BY <1>1 DEF Same, Snapshot, Resigned
  <2>2. (RowsListed(p) => RowsListed(p)') /\ (ResignsListed(p) => ResignsListed(p)')
    BY <1>1, ListedLasts DEF Same
  <2>3. /\ pull'[p].asked = pull[p].asked /\ (pull'[p].phase # "idle" => pull[p].phase # "idle")
        /\ pull'[p].phase = "listing" <=> pull[p].phase = "listing"
    BY <1>1 DEF Same, Goes
  <2>4. /\ pull'[p].phase = "listing" => pull'[p].todo = pull[p].todo
        /\ pull'[p].phase = "employees" => /\ pull[p].phase = "employees"
                                           /\ pull'[p].todo \subseteq pull[p].todo
        /\ pull'[p].phase = "resigns" => \/ pull'[p].todo = Resigned(p)
                                         \/ /\ pull[p].phase = "resigns"
                                            /\ pull'[p].todo \subseteq pull[p].todo
    BY <1>1 DEF Goes
  <2> QED BY <1>0, <2>1, <2>2, <2>3, <2>4
<1>2. CASE pull'[p] = NoPull
  BY <1>2, NoPullFields
<1>3. ASSUME NEW full \in BOOLEAN, Starts(p, full) PROVE Part(p)'
  BY <1>3, StartsFields
<1>4. CASE ListEmployees(p)
  <2>1. UNCHANGED <<source, resign>> /\ pull[p].asked \subseteq {"employees", "resigns"}
    BY <1>4 DEF ListEmployees, biotime, TypeOK, Pull
  <2>2. From(p)' = From(p)
    BY <1>4, ListEmployeesFields DEF From
  <2>3. RowsListed(p)'
    BY <1>4, <2>1, <2>2, ListEmployeesFields DEF RowsListed, RowsOf, Present
  <2>4. "resigns" \notin pull[p].asked => ResignsListed(p)'
    BY <1>0, <1>4, ListEmployeesFields, ListedLasts
  <2>5. pull'[p].todo = Snapshot(p)'
    BY <1>4, ListEmployeesFields DEF Snapshot
  <2>6. /\ pull'[p].asked = pull[p].asked \ {"employees"}
        /\ pull'[p].phase = IF pull[p].asked = {"employees"} THEN "employees" ELSE "listing"
    BY <1>4, ListEmployeesFields DEF Listed
  <2> QED BY <2>1, <2>3, <2>4, <2>5, <2>6
<1>5. CASE ListResigns(p)
  <2>1. UNCHANGED <<source, resign>> /\ pull[p].asked \subseteq {"employees", "resigns"}
    BY <1>5 DEF ListResigns, biotime, TypeOK, Pull
  <2>2. From(p)' = From(p)
    BY <1>5, ListResignsFields DEF From
  <2>3. ResignsListed(p)'
    BY <1>5, <2>1, <2>2, ListResignsFields DEF ResignsListed, ResignsOf
  <2>4. "employees" \notin pull[p].asked => RowsListed(p)'
    BY <1>0, <1>5, ListResignsFields, ListedLasts
  <2>5. "employees" \notin pull[p].asked => pull'[p].todo = Snapshot(p)'
    BY <1>0, <1>5, ListResignsFields DEF Snapshot
  <2>6. /\ pull'[p].asked = pull[p].asked \ {"resigns"}
        /\ pull'[p].phase = IF pull[p].asked = {"resigns"} THEN "employees" ELSE "listing"
    BY <1>5, ListResignsFields DEF Listed
  <2> QED BY <2>1, <2>3, <2>4, <2>5, <2>6
<1> HIDE DEF Part
<1> QED BY <1>1, <1>2, <1>3, <1>4, <1>5, PullSteps

\* No step forgets an employee the loop has been over.
LEMMA LoadedStep == TypeOK /\ ListsInv /\ LoadedInv /\ [Next]_vars => LoadedInv'
<1> SUFFICES ASSUME TypeOK, ListsInv, LoadedInv, [Next]_vars,
                    NEW p \in Pulls, NEW e \in Employees, e \in Loaded(p)'
             PROVE  local'[e].status # "none"
  <2>1. \A p \in Pulls : Loaded(p)' \subseteq Employees
    BY DEF Loaded, Snapshot
  <2> QED BY <2>1 DEF LoadedInv
<1>1. e \in Loaded(p) => local'[e].status # "none"
  BY LocalSteps DEF LoadedInv
<1>2. CASE Same(p) /\ Goes(p)
  <2>1. Snapshot(p)' = Snapshot(p)
    BY <1>2 DEF Same, Snapshot
  <2>2. CASE UpsertEmployee(p, e)
    BY <2>2 DEF UpsertEmployee, TypeOK
  <2>3. CASE ~UpsertEmployee(p, e)
    <3>1. e \in Loaded(p)
      BY <1>2, <2>1, <2>3 DEF Goes, Loaded
    <3> QED BY <1>1, <3>1
  <2> QED BY <2>2, <2>3
<1>3. CASE pull'[p] = NoPull \/ \E full \in BOOLEAN : Starts(p, full)
  BY <1>3, NoPullFields, StartsFields DEF Loaded
<1>4. CASE ListEmployees(p)
  <2>1. pull'[p].todo = Snapshot(p)' /\ pull'[p].phase \in {"listing", "employees"}
    BY <1>4, ListEmployeesFields DEF Snapshot, Listed
  <2> QED BY <2>1 DEF Loaded
<1>5. CASE ListResigns(p)
  <2>1. pull[p].asked = {"resigns"} => pull[p].todo = Snapshot(p)
    BY <1>5, ListResignsFields DEF ListsInv
  <2>2. Snapshot(p)' = Snapshot(p) /\ pull'[p].todo = pull[p].todo
    BY <1>5, ListResignsFields DEF Snapshot
  <2>3. pull'[p].phase = IF pull[p].asked = {"resigns"} THEN "employees" ELSE "listing"
    BY <1>5, ListResignsFields DEF Listed
  <2> QED BY <2>1, <2>2, <2>3 DEF Loaded
<1> QED BY <1>2, <1>3, <1>4, <1>5, PullSteps

\* A pull keeps what it has established of those nobody else writes.
LEMMA ProgressLasts ==
    ASSUME TypeOK, FullInv, NEW q \in Pulls, NEW W \in SUBSET Employees, Stays(q, W),
           \A e \in Employees \ W : local'[e] = local[e]
    PROVE  pull'[q].full => \A e \in Employees \ pull'[q].touched : Progress(q, e)'
<1> SUFFICES ASSUME pull'[q].full, NEW e \in Employees \ pull'[q].touched
             PROVE  Progress(q, e)'
  OBVIOUS
<1>1. pull[q].full /\ e \notin pull[q].touched /\ e \notin W
  BY DEF Stays, Same
<1>2. Progress(q, e) /\ local'[e] = local[e]
  BY <1>1 DEF FullInv
<1>3. Snapshot(q)' = Snapshot(q) /\ Resigned(q)' = Resigned(q)
  BY DEF Stays, Same, Snapshot, Resigned
<1>4. /\ pull'[q].phase = pull[q].phase /\ pull'[q].todo = pull[q].todo
      /\ pull'[q].kept = pull[q].kept /\ pull'[q].rows = pull[q].rows
  BY DEF Stays, Same
<1> QED BY <1>2, <1>3, <1>4 DEF Progress, Applied, Agrees

\* No step of anybody undoes what a full pull has established.
LEMMA FullStep == TypeOK /\ ListsInv /\ FullInv /\ [Next]_vars => FullInv'
<1> SUFFICES ASSUME TypeOK, ListsInv, FullInv, [Next]_vars, NEW q \in Pulls
             PROVE  pull'[q].full => \A e \in Employees \ pull'[q].touched : Progress(q, e)'
  BY DEF FullInv
<1> DEFINE Holds == pull'[q].full => \A e \in Employees \ pull'[q].touched : Progress(q, e)'
<1>0. /\ pull \in [Pulls -> Pull] /\ pull[q] \in Pull /\ local \in [Employees -> Local]
      /\ pull[q].todo \in SUBSET Employees
  BY DEF TypeOK, Pull
<1>1. ASSUME pull'[q] = pull[q], local' = local PROVE Holds
  <2>1. {} \in SUBSET Employees /\ Stays(q, {})
    BY <1>1 DEF Stays, Same
  <2> QED BY <1>1, <2>1, ProgressLasts
<1>2. ASSUME NEW from, NEW to, NEW todo, Moves(q, from, to, todo),
             NEW e \in Employees \ pull'[q].touched, pull'[q].full
      PROVE  /\ Progress(q, e) /\ pull[q].phase = from /\ e \in Employees
             /\ Snapshot(q)' = Snapshot(q) /\ Resigned(q)' = Resigned(q)
             /\ pull'[q].rows = pull[q].rows
             /\ pull'[q].phase = to /\ pull'[q].todo = todo
  BY <1>2 DEF Moves, Same, FullInv, Snapshot, Resigned
<1>3. ASSUME NEW p \in Pulls, NEW to, NEW todo, Step(p, to, todo), p # q, local' = local
      PROVE  Holds
  <2>1. {} \in SUBSET Employees /\ Stays(q, {})
    BY <1>3, StepFields
  <2> QED BY <1>3, <2>1, ProgressLasts
<1>4. ASSUME NEW p \in Pulls, NEW W \in SUBSET Employees, NEW to, NEW todo,
              Touching(p, W, to, todo), p # q,
              \A e \in Employees \ W : local'[e] = local[e]
       PROVE  Holds
  <2>1. Stays(q, W)
    BY <1>4, WriteFields
  <2> QED BY <1>4, <2>1, ProgressLasts
<1>5. ASSUME NEW p \in Pulls, NEW e \in Employees, UpsertEmployee(p, e) PROVE Holds
  <2>1. /\ Touching(p, {e}, "employees", pull[p].todo \ {e}) /\ pull[p].phase = "employees"
        /\ {e} \in SUBSET Employees
        /\ \A f \in Employees \ {e} : local'[f] = local[f]
    BY <1>0, <1>5 DEF UpsertEmployee
  <2>2. CASE p # q
    BY <1>4, <2>1, <2>2
  <2>3. CASE p = q
    <3>1. Moves(q, "employees", "employees", pull[q].todo \ {e})
      BY <2>1, <2>3, WriteFields
    <3>2. pull[q].full => local'[e].status = "ACTIVE" /\ local'[e].rev = pull[q].rows[e].rev
      BY <1>0, <1>5, <2>3 DEF UpsertEmployee
    <3>3. pull'[q].full = pull[q].full
      BY <3>1 DEF Moves, Same
    <3> SUFFICES ASSUME NEW f \in Employees \ pull'[q].touched, pull'[q].full
                 PROVE  Progress(q, f)'
      OBVIOUS
    <3>4. /\ Progress(q, f) /\ Snapshot(q)' = Snapshot(q)
          /\ pull[q].phase = "employees" /\ pull'[q].phase = "employees"
          /\ pull'[q].rows = pull[q].rows /\ pull'[q].todo = pull[q].todo \ {e}
      BY <1>2, <3>1
    <3> QED BY <2>1, <3>2, <3>3, <3>4 DEF Progress
  <2> QED BY <2>2, <2>3
<1>6. ASSUME NEW p \in Pulls, EmployeesDone(p) PROVE Holds
  <2>1. /\ Step(p, "resigns", Resigned(p)) /\ local' = local
        /\ pull[p].phase = "employees" /\ pull[p].todo = {}
    BY <1>6 DEF EmployeesDone, tables
  <2>2. CASE p # q
    BY <1>3, <2>1, <2>2
  <2>3. CASE p = q
    <3>1. Moves(q, "employees", "resigns", Resigned(q))
      BY <2>1, <2>3, StepFields
    <3> SUFFICES ASSUME NEW f \in Employees \ pull'[q].touched, pull'[q].full
                 PROVE  Progress(q, f)'
      OBVIOUS
    <3>2. /\ Progress(q, f) /\ Snapshot(q)' = Snapshot(q) /\ Resigned(q)' = Resigned(q)
          /\ pull[q].phase = "employees" /\ pull'[q].phase = "resigns"
          /\ pull'[q].rows = pull[q].rows /\ pull'[q].todo = Resigned(q)
      BY <1>2, <3>1
    <3> QED BY <2>1, <2>3, <3>2 DEF Progress
  <2> QED BY <2>2, <2>3
<1>7. ASSUME NEW p \in Pulls, NEW e \in Employees, UpsertResign(p, e) PROVE Holds
  <2>1. /\ Touching(p, {e}, "resigns", pull[p].todo \ {e}) /\ pull[p].phase = "resigns"
        /\ {e} \in SUBSET Employees /\ e \in pull[p].todo
        /\ \A f \in Employees \ {e} : local'[f] = local[f]
    BY <1>0, <1>7 DEF UpsertResign
  <2>2. CASE p # q
    BY <1>4, <2>1, <2>2
  <2>3. CASE p = q
    <3>1. Moves(q, "resigns", "resigns", pull[q].todo \ {e})
      BY <2>1, <2>3, WriteFields
    <3>2. local'[e].status # "ACTIVE" /\ local'[e].rev = local[e].rev
      BY <1>0, <1>7 DEF UpsertResign, Local
    <3>3. e \in Resigned(q)
      BY <2>1, <2>3 DEF ListsInv
    <3> SUFFICES ASSUME NEW f \in Employees \ pull'[q].touched, pull'[q].full
                 PROVE  Progress(q, f)'
      OBVIOUS
    <3>4. /\ Progress(q, f) /\ Snapshot(q)' = Snapshot(q) /\ Resigned(q)' = Resigned(q)
          /\ pull[q].phase = "resigns" /\ pull'[q].phase = "resigns"
          /\ pull'[q].rows = pull[q].rows /\ pull'[q].todo = pull[q].todo \ {e}
      BY <1>2, <3>1
    <3> QED BY <2>1, <3>2, <3>3, <3>4 DEF Progress
  <2> QED BY <2>2, <2>3
<1>8. ASSUME NEW p \in Pulls, ResignsDone(p) PROVE Holds
  <2>1. /\ Step(p, IF pull[p].full THEN "reconciling" ELSE "closing", {}) /\ local' = local
        /\ pull[p].phase = "resigns" /\ pull[p].todo = {}
    BY <1>8 DEF ResignsDone, tables
  <2>2. CASE p # q
    BY <1>3, <2>1, <2>2
  <2>3. CASE p = q
    <3>1. Moves(q, "resigns", IF pull[q].full THEN "reconciling" ELSE "closing", {})
      BY <2>1, <2>3, StepFields
    <3> SUFFICES ASSUME NEW f \in Employees \ pull'[q].touched, pull'[q].full
                 PROVE  Progress(q, f)'
      OBVIOUS
    <3>2. pull[q].full
      BY <3>1 DEF Moves, Same
    <3>3. /\ Progress(q, f) /\ Snapshot(q)' = Snapshot(q) /\ Resigned(q)' = Resigned(q)
          /\ pull[q].phase = "resigns" /\ pull'[q].phase = "reconciling"
          /\ pull'[q].rows = pull[q].rows
      BY <1>2, <3>1, <3>2
    <3> QED BY <2>1, <2>3, <3>3 DEF Progress, Applied
  <2> QED BY <2>2, <2>3
<1>9. ASSUME NEW p \in Pulls, ReconcileReads(p) PROVE Holds
  <2> DEFINE read == {e \in Employees : local[e].status = "RESIGNED"} \ Resigned(p)
  <2>1. /\ Step(p, "reactivating", read) /\ local' = local
        /\ pull[p].phase = "reconciling"
    BY <1>9 DEF ReconcileReads, tables
  <2>2. CASE p # q
    BY <1>3, <2>1, <2>2
  <2>3. CASE p = q
    <3>1. Moves(q, "reconciling", "reactivating", read)
      BY <2>1, <2>3, StepFields
    <3> SUFFICES ASSUME NEW f \in Employees \ pull'[q].touched, pull'[q].full
                 PROVE  Progress(q, f)'
      OBVIOUS
    <3>2. /\ Progress(q, f) /\ Snapshot(q)' = Snapshot(q) /\ Resigned(q)' = Resigned(q)
          /\ pull[q].phase = "reconciling" /\ pull'[q].phase = "reactivating"
          /\ pull'[q].rows = pull[q].rows /\ pull'[q].todo = read
      BY <1>2, <3>1
    <3> QED BY <2>1, <2>3, <3>2 DEF Progress, Applied
  <2> QED BY <2>2, <2>3
<1>10. ASSUME NEW p \in Pulls, ReconcileWrites(p) PROVE Holds
  <2>1. /\ Touching(p, pull[p].todo, "counting", {}) /\ pull[p].phase = "reactivating"
        /\ pull[p].todo \in SUBSET Employees
        /\ \A f \in Employees : local'[f] = IF f \in pull[p].todo
                                            THEN [local[f] EXCEPT !.status = "ACTIVE"]
                                            ELSE local[f]
    BY <1>0, <1>10 DEF ReconcileWrites, Pull
  <2>2. CASE p # q
    BY <1>4, <2>1, <2>2
  <2>3. CASE p = q
    <3>1. Moves(q, "reactivating", "counting", {})
      BY <2>1, <2>3, WriteFields
    <3> SUFFICES ASSUME NEW f \in Employees \ pull'[q].touched, pull'[q].full
                 PROVE  Progress(q, f)'
      OBVIOUS
    <3>2. /\ Progress(q, f) /\ Snapshot(q)' = Snapshot(q) /\ Resigned(q)' = Resigned(q)
          /\ pull[q].phase = "reactivating" /\ pull'[q].phase = "counting"
          /\ pull'[q].rows = pull[q].rows
      BY <1>2, <3>1
    <3>3. /\ local'[f].rev = local[f].rev
          /\ local'[f].status = IF f \in pull[q].todo THEN "ACTIVE" ELSE local[f].status
      BY <1>0, <2>1, <2>3 DEF Local
    <3> QED BY <3>2, <3>3 DEF Progress, Applied
  <2> QED BY <2>2, <2>3
<1>11. ASSUME NEW p \in Pulls, CountsActive(p) PROVE Holds
  <2>1. CASE p # q
    BY <1>0, <1>1, <1>11, <2>1 DEF CountsActive, tables
  <2>2. CASE p = q
    <3> DEFINE b == TooSmall(p)
    <3>1. b \in BOOLEAN
      BY DEF TooSmall
    <3> HIDE DEF b
    <3>2. /\ pull'[q] = [pull[q] EXCEPT !.kept = b, !.phase = IF b THEN "closing" ELSE "missing"]
          /\ pull[q].phase = "counting" /\ local' = local
      BY <1>0, <1>11, <2>2 DEF CountsActive, b, tables
    <3>3. /\ Same(q) /\ pull'[q].touched = pull[q].touched /\ pull'[q].kept = b
          /\ pull'[q].phase = IF b THEN "closing" ELSE "missing"
      BY <1>0, <3>1, <3>2 DEF Pull, Same
    <3> SUFFICES ASSUME NEW f \in Employees \ pull'[q].touched, pull'[q].full
                 PROVE  Progress(q, f)'
      OBVIOUS
    <3>4. /\ Progress(q, f) /\ Snapshot(q)' = Snapshot(q) /\ Resigned(q)' = Resigned(q)
          /\ pull'[q].rows = pull[q].rows
      BY <3>3 DEF FullInv, Same, Snapshot, Resigned
    <3> QED BY <3>1, <3>2, <3>3, <3>4 DEF Progress, Applied, Agrees
  <2> QED BY <2>1, <2>2
<1>12. ASSUME NEW p \in Pulls, MissingReads(p) PROVE Holds
  <2> DEFINE read == Active \ (Snapshot(p) \cup Resigned(p))
  <2>1. /\ Step(p, "archiving", read) /\ local' = local
        /\ pull[p].phase = "missing"
    BY <1>12 DEF MissingReads, tables
  <2>2. CASE p # q
    BY <1>3, <2>1, <2>2
  <2>3. CASE p = q
    <3>1. Moves(q, "missing", "archiving", read)
      BY <2>1, <2>3, StepFields
    <3> SUFFICES ASSUME NEW f \in Employees \ pull'[q].touched, pull'[q].full
                 PROVE  Progress(q, f)'
      OBVIOUS
    <3>2. /\ Progress(q, f) /\ Snapshot(q)' = Snapshot(q) /\ Resigned(q)' = Resigned(q)
          /\ pull[q].phase = "missing" /\ pull'[q].phase = "archiving"
          /\ pull'[q].rows = pull[q].rows /\ pull'[q].todo = read
      BY <1>2, <3>1
    <3> QED BY <2>1, <2>3, <3>2 DEF Progress, Applied, Active
  <2> QED BY <2>2, <2>3
<1>13. ASSUME NEW p \in Pulls, Archives(p) PROVE Holds
  <2>1. /\ Touching(p, pull[p].todo, "closing", {}) /\ pull[p].phase = "archiving"
        /\ pull[p].todo \in SUBSET Employees
        /\ \A f \in Employees : local'[f] = IF f \in pull[p].todo
                                            THEN [local[f] EXCEPT !.status = "RESIGNED",
                                                                  !.stamp = now]
                                            ELSE local[f]
    BY <1>0, <1>13 DEF Archives, Pull
  <2>2. CASE p # q
    BY <1>4, <2>1, <2>2
  <2>3. CASE p = q
    <3>1. Moves(q, "archiving", "closing", {})
      <4>1. Moves(q, pull[q].phase, "closing", {})
        BY <2>1, <2>3, WriteFields
      <4> QED BY <2>1, <2>3, <4>1
    <3> SUFFICES ASSUME NEW f \in Employees \ pull'[q].touched, pull'[q].full
                 PROVE  Progress(q, f)'
      OBVIOUS
    <3>2. /\ Progress(q, f) /\ Snapshot(q)' = Snapshot(q) /\ Resigned(q)' = Resigned(q)
          /\ pull[q].phase = "archiving" /\ pull'[q].phase = "closing"
          /\ pull'[q].rows = pull[q].rows
      BY <1>2, <3>1
    <3>3. /\ local'[f].rev = local[f].rev
          /\ local'[f].status = IF f \in pull[q].todo THEN "RESIGNED" ELSE local[f].status
      <4>1. local[f] \in Local
        BY <1>0
      <4>2. local'[f] = IF f \in pull[q].todo
                        THEN [local[f] EXCEPT !.status = "RESIGNED", !.stamp = now]
                        ELSE local[f]
        BY <2>1, <2>3
      <4> QED BY ONLY <4>1, <4>2 DEF Local
    <3> QED BY <3>2, <3>3 DEF Progress, Applied, Agrees
  <2> QED BY <2>2, <2>3
<1>14. ASSUME NEW p \in Pulls, Closes(p) \/ Fails(p) PROVE Holds
  BY <1>0, <1>1, <1>14, NoPullFields DEF Closes, Fails, tables
<1>15. ASSUME NEW p \in Pulls, GivesUp(p) PROVE Holds
  <2>1. CASE p # q
    BY <1>0, <1>1, <1>15, <2>1 DEF GivesUp, tables
  <2>2. CASE p = q
    <3>1. pull'[q] = [pull[q] EXCEPT !.owned = FALSE] /\ local' = local
      BY <1>0, <1>15, <2>2 DEF GivesUp, tables
    <3>2. Stays(q, {}) /\ {} \in SUBSET Employees
      BY <1>0, <3>1 DEF Pull, Stays, Same
    <3> QED BY <3>1, <3>2, ProgressLasts
  <2> QED BY <2>1, <2>2
<1>16. ASSUME NEW p \in Pulls, NEW full \in BOOLEAN, Starts(p, full) PROVE Holds
  <2>1. CASE p # q
    BY <1>1, <1>16, <2>1, StartsFields DEF Starts, tables
  <2>2. CASE p = q
    BY <1>16, <2>2, StartsFields DEF Progress
  <2> QED BY <2>1, <2>2
<1>17. ASSUME NEW p \in Pulls, ListEmployees(p) PROVE Holds
  <2>1. CASE p # q
    BY <1>1, <1>17, <2>1, ListEmployeesFields DEF ListEmployees, tables
  <2>2. CASE p = q
    <3>1. pull'[q].todo = Snapshot(q)' /\ pull'[q].phase \in {"listing", "employees"}
      BY <1>17, <2>2, ListEmployeesFields DEF Snapshot, Listed
    <3> QED BY <3>1 DEF Progress
  <2> QED BY <2>1, <2>2
<1>18. ASSUME NEW p \in Pulls, ListResigns(p) PROVE Holds
  <2>1. CASE p # q
    <3>1. pull'[q] = pull[q]
      BY <1>18, <2>1, ListResignsFields
    <3>2. local' = local
      BY <1>18 DEF ListResigns, tables
    <3> QED BY <1>1, <3>1, <3>2
  <2>2. CASE p = q
    <3>1. pull[q].asked = {"resigns"} => pull[q].todo = Snapshot(q)
      BY <1>18, <2>2, ListResignsFields DEF ListsInv
    <3>2. Snapshot(q)' = Snapshot(q) /\ pull'[q].todo = pull[q].todo
      BY <1>18, <2>2, ListResignsFields DEF Snapshot
    <3>3. pull'[q].phase = IF pull[q].asked = {"resigns"} THEN "employees" ELSE "listing"
      BY <1>18, <2>2, ListResignsFields DEF Listed
    <3> QED BY <3>1, <3>2, <3>3 DEF Progress
  <2> QED BY <2>1, <2>2
<1>19. ASSUME NEW e \in Employees, EditLands(e) \/ ResignLands(e) \/ ReinstateLands(e)
       PROVE  Holds
  <2>1. Stays(q, {e}) /\ {e} \in SUBSET Employees
    BY <1>19, LandFields DEF EditLands, ResignLands, ReinstateLands
  <2>2. \A f \in Employees \ {e} : local'[f] = local[f]
    BY <1>0, <1>19 DEF EditLands, ResignLands, ReinstateLands
  <2> QED BY <2>1, <2>2, ProgressLasts
<1>20. ASSUME NEW e \in Employees,
              \/ HireOrEdit(e) \/ Resign(e) \/ Reinstate(e) \/ Delete(e)
              \/ EditInBioTime(e) \/ ResignInBioTime(e) \/ ReinstateInBioTime(e)
       PROVE  Holds
  BY <1>1, <1>20 DEF HireOrEdit, Resign, Reinstate, Delete, EditInBioTime,
                     ResignInBioTime, ReinstateInBioTime, tables
<1>21. CASE Tick \/ BackfillSucceeds \/ StaffFails \/ UNCHANGED vars
  BY <1>1, <1>21 DEF Tick, BackfillSucceeds, StaffFails, vars, tables
<1> HIDE DEF Holds
<1>22. CASE \E p \in Pulls :
              \/ \E full \in BOOLEAN : Starts(p, full)
              \/ ListEmployees(p) \/ ListResigns(p) \/ EmployeesDone(p) \/ ResignsDone(p)
              \/ \E e \in Employees : UpsertEmployee(p, e) \/ UpsertResign(p, e)
  BY <1>5, <1>6, <1>7, <1>8, <1>16, <1>17, <1>18, <1>22 DEF Holds
<1>23. CASE \E p \in Pulls :
              \/ ReconcileReads(p) \/ ReconcileWrites(p) \/ CountsActive(p) \/ MissingReads(p)
              \/ Archives(p) \/ Closes(p) \/ Fails(p) \/ GivesUp(p)
  BY <1>9, <1>10, <1>11, <1>12, <1>13, <1>14, <1>15, <1>23 DEF Holds
<1>24. CASE \E e \in Employees :
              \/ EditLands(e) \/ ResignLands(e) \/ ReinstateLands(e)
              \/ HireOrEdit(e) \/ Resign(e) \/ Reinstate(e) \/ Delete(e)
              \/ EditInBioTime(e) \/ ResignInBioTime(e) \/ ReinstateInBioTime(e)
  BY <1>19, <1>20, <1>24 DEF Holds
<1>25. Holds
  BY <1>21, <1>22, <1>23, <1>24 DEF Next, Holds
<1> QED BY <1>25 DEF Holds

\* The inductive invariant holds in every reachable state.
LEMMA IInvHolds == Spec => []IInv
<1>1. Init => IInv
  <2> SUFFICES ASSUME Init PROVE IInv
    OBVIOUS
  <2>1. /\ \A p \in Pulls : pull[p] = NoPull
        /\ \A e \in Employees : /\ source[e] \in {Unborn, Hired} /\ resign[e] = Never
                                /\ local[e].rev = 0 /\ local[e].stamp = Never
                                /\ record[e] = Never
        /\ now = 1 /\ changes = 0 /\ staff = Idle
        /\ cursor.employees = Never /\ cursor.resigns = Never
    BY DEF Init
  <2>2. TimeInv /\ RevInv
    BY <2>1, NoPullFields DEF TimeInv, RevInv, Never, Unborn, Hired, Idle
  <2>3. OwnedInv /\ ListsInv /\ LoadedInv /\ FullInv
    BY <2>1, NoPullFields DEF OwnedInv, ListsInv, LoadedInv, Loaded, FullInv
  <2> QED BY <2>2, <2>3 DEF IInv
<1>2. TypeOK /\ IInv /\ [Next]_vars => IInv'
  BY TimeStep, RevStep, OwnedStep, ListsStep, LoadedStep, FullStep DEF IInv
<1> QED BY <1>1, <1>2, TypeCorrect, PTL DEF Spec

-----------------------------------------------------------------------------
\* At the end of a full run every employee nobody else wrote since it began is as
\* BioTime listed him, and those missing from it are archived unless the list was
\* too short (pullAll with options.full).
THEOREM FullRunsAgree == Spec => []FullRunAgrees
<1>1. IInv => FullRunAgrees
  BY DEF IInv, FullInv, Progress, FullRunAgrees
<1> QED BY <1>1, IInvHolds, PTL

\* What BioTime says is heard by the incremental runs, of the employees and of their
\* resignations, but for the exceptions the property names (pullAll, computeCursor).
THEOREM SkipsNothing == Spec => NothingIsSkipped
<1>1. ASSUME TypeOK, IInv, IInv', [Next]_vars,
             \A e \in Employees : Covered(e),
             ~Regresses,
             \A p \in Pulls : Closes(p) => ~PastList(p) /\ ~Overwritten(p),
             NEW e \in Employees
      PROVE  Covered(e)'
  <2>0. /\ source[e].at \in Nat /\ source[e].rev \in Nat /\ now \in Nat
        /\ local[e].rev \in Nat /\ cursor.employees \in Nat /\ cursor.employees <= now
        /\ source[e].rev >= local[e].rev /\ Never = 0
    BY <1>1, Ranges DEF TypeOK, Source, Local, Cursor, IInv, TimeInv, RevInv, Never
  <2> SUFFICES ASSUME Present(e)', source'[e].at < cursor'.employees
               PROVE  local'[e].status # "none" /\ local'[e].rev = source'[e].rev
    BY DEF Covered
  <2>1. CASE cursor' = cursor
    <3>1. source'[e] = source[e]
      BY <1>1, <2>0, <2>1, SourceSteps DEF Present
    <3>2. local[e].status # "none" /\ local[e].rev = source[e].rev
      BY <1>1, <2>1, <3>1 DEF Covered, Present
    <3>3. local'[e].status # "none"
      BY <1>1, <3>2, LocalSteps
    <3>4. local'[e].rev <= source'[e].rev /\ ~(local'[e].rev < local[e].rev)
      BY <1>1 DEF IInv, RevInv, Regresses
    <3>5. local'[e].rev \in Nat
      <4>1. \A p \in Pulls : pull[p].rows[e].rev \in Nat
        <5> SUFFICES ASSUME NEW p \in Pulls PROVE pull[p].rows[e].rev \in Nat
          OBVIOUS
        <5>1. pull[p] \in Pull
          BY <1>1 DEF TypeOK
        <5> QED BY <5>1, Ranges DEF Pull, Listing
      <4>2. staff.rev \in Nat
        BY <1>1, Ranges DEF TypeOK, Request
      <4> QED BY <1>1, <2>0, <4>1, <4>2, LocalSteps
    <3> QED BY <2>0, <3>1, <3>2, <3>3, <3>4, <3>5
  <2>2. CASE BackfillSucceeds /\ cursor' = [employees |-> Never, resigns |-> Never]
    BY <2>0, <2>2 DEF BackfillSucceeds, biotime
  <2>3. ASSUME NEW p \in Pulls, Closes(p), pull[p].owned, cursor' = NextCursor
        PROVE  local'[e].status # "none" /\ local'[e].rev = source'[e].rev
    <3>1. /\ source' = source /\ local' = local /\ pull[p].phase = "closing"
      BY <2>3 DEF Closes, biotime, tables
    <3>2. Present(e)
      BY <3>1 DEF Present
    <3>3. source[e].at # Never
      BY <1>1, <3>2 DEF IInv, TimeInv, Present
    <3>4. /\ pull[p].times.employees \in Nat /\ cursor'.employees \in Nat
          /\ pull[p].rows[e].rev \in Nat
      <4>1. pull[p].times.employees \in Stamps /\ pull[p].rows[e].rev \in Contents
        BY <1>1 DEF TypeOK, Pull, Cursor, Listing
      <4>2. cursor'.employees \in Stamps
        BY <1>1, <2>3, Cursors DEF Cursor
      <4> QED BY <4>1, <4>2, Ranges
    <3>5. source[e].at < pull[p].times.employees
      BY <1>1, <2>0, <2>3, <3>1, <3>4 DEF PastList
    <3>6. CASE Newer(source[e].at, From(p).employees)
      <4>1. pull[p].rows[e] = [rev |-> source[e].rev, at |-> source[e].at]
        BY <1>1, <3>1, <3>2, <3>5, <3>6 DEF IInv, ListsInv, RowsListed
      <4>2. e \in Snapshot(p) /\ pull[p].rows[e].rev = source[e].rev
        BY <3>3, <4>1 DEF Snapshot, Unlisted
      <4>3. local[e].status # "none"
        BY <1>1, <3>1, <4>2 DEF IInv, LoadedInv, Loaded
      <4>4. ~(local[e].rev < source[e].rev)
        BY <1>1, <2>3, <4>2 DEF Overwritten
      <4> QED BY <2>0, <3>1, <4>3, <4>4
    <3>7. CASE ~Newer(source[e].at, From(p).employees)
      <4>1. pull[p].since = cursor
        BY <1>1, <2>3 DEF IInv, OwnedInv
      <4>2. source[e].at < cursor.employees
        BY <2>0, <3>3, <3>7, <4>1 DEF Newer, From
      <4> QED BY <1>1, <3>1, <3>2, <4>2 DEF Covered
    <3> QED BY <3>6, <3>7
  <2> QED BY <1>1, <2>1, <2>2, <2>3, CursorSteps
<1>2. ASSUME TypeOK, IInv, [Next]_vars,
             \A e \in Employees : ResignCovered(e),
             ~Reactivates,
             \A p \in Pulls : Closes(p) =>
                 ~(cursor'.resigns > pull[p].times.resigns) /\ ~Unheard(p),
             NEW e \in Employees
      PROVE  ResignCovered(e)'
  <2>0. /\ resign[e] \in Nat /\ now \in Nat /\ cursor.resigns \in Nat
        /\ cursor.resigns <= now /\ Never = 0
    BY <1>2, Ranges DEF TypeOK, Cursor, IInv, TimeInv, Never
  <2> SUFFICES ASSUME resign'[e] # Never, resign'[e] < cursor'.resigns
               PROVE  local'[e].status = "RESIGNED"
    BY DEF ResignCovered
  <2>1. CASE cursor' = cursor
    <3>1. resign'[e] = resign[e]
      BY <1>2, <2>0, <2>1, SourceSteps
    <3>2. local[e].status = "RESIGNED"
      BY <1>2, <2>1, <3>1 DEF ResignCovered
    <3>3. local'[e].status # "none" /\ local'[e].status # "ACTIVE"
      BY <1>2, <3>2, LocalSteps DEF Reactivates
    <3>4. local'[e].status \in {"none", "ACTIVE", "RESIGNED"}
      <4>1. TypeOK'
        BY <1>2, TypeStep
      <4> QED BY <4>1 DEF TypeOK, Local
    <3> QED BY <3>3, <3>4
  <2>2. CASE BackfillSucceeds /\ cursor' = [employees |-> Never, resigns |-> Never]
    BY <2>0, <2>2 DEF BackfillSucceeds, biotime
  <2>3. ASSUME NEW p \in Pulls, Closes(p), pull[p].owned, cursor' = NextCursor
        PROVE  local'[e].status = "RESIGNED"
    <3>1. /\ resign' = resign /\ local' = local /\ pull[p].phase = "closing"
      BY <2>3 DEF Closes, biotime, tables
    <3>2. pull[p].times.resigns \in Nat /\ cursor'.resigns \in Nat
      <4>1. pull[p].times.resigns \in Stamps
        BY <1>2 DEF TypeOK, Pull, Cursor
      <4>2. cursor'.resigns \in Stamps
        BY <1>2, <2>3, Cursors DEF Cursor
      <4> QED BY <4>1, <4>2, Ranges
    <3>3. resign[e] < pull[p].times.resigns
      BY <1>2, <2>0, <2>3, <3>1, <3>2
    <3>4. CASE Newer(resign[e], From(p).resigns)
      <4>1. pull[p].resigns[e] = resign[e]
        BY <1>2, <3>1, <3>3, <3>4 DEF IInv, ListsInv, ResignsListed
      <4>2. e \in Resigned(p)
        BY <3>1, <4>1 DEF Resigned
      <4> QED BY <1>2, <2>3, <3>1, <4>2 DEF Unheard
    <3>5. CASE ~Newer(resign[e], From(p).resigns)
      <4>1. pull[p].since = cursor
        BY <1>2, <2>3 DEF IInv, OwnedInv
      <4>2. resign[e] < cursor.resigns
        BY <2>0, <3>1, <3>5, <4>1 DEF Newer, From
      <4> QED BY <1>2, <3>1, <4>2 DEF ResignCovered
    <3> QED BY <3>4, <3>5
  <2> QED BY <1>2, <2>1, <2>2, <2>3, CursorSteps
<1>3. TypeOK /\ IInv /\ IInv' /\ [Next]_vars =>
        \/ (\A e \in Employees : Covered(e)) =>
              \/ (\A e \in Employees : Covered(e))'
              \/ Regresses
              \/ \E p \in Pulls : Closes(p) /\ (PastList(p) \/ Overwritten(p))
        \/ UNCHANGED vars
  BY <1>1
<1>4. TypeOK /\ IInv /\ [Next]_vars =>
        \/ (\A e \in Employees : ResignCovered(e)) =>
              \/ (\A e \in Employees : ResignCovered(e))'
              \/ Reactivates
              \/ \E p \in Pulls :
                    /\ Closes(p)
                    /\ cursor'.resigns > pull[p].times.resigns \/ Unheard(p)
        \/ UNCHANGED vars
  BY <1>2
<1> QED BY <1>3, <1>4, TypeCorrect, IInvHolds, PTL
           DEF Spec, NothingIsSkipped, CursorSkipsNothing, ResignationIsHeard

-----------------------------------------------------------------------------
(* The punches (PunchPulls)                                                *)

LEMMA PunchConstants ==
    /\ MaxMoves \in Nat /\ MaxTicks \in Nat /\ MaxTicks >= 1
    /\ PunchesEach \in Nat
    /\ Overlap \in Nat /\ Lookback \in Nat /\ Fallback \in Nat /\ Window \in Nat
    /\ Overlap > 0 /\ Lookback > 0 /\ Fallback > 0 /\ Window > 0
    /\ IsFiniteSet(Syncs)
<1>1. \A n \in {PunchesEach, MaxTicks, Overlap, Lookback, Fallback, Window} :
        n \in Nat \ {0}
  BY PunchAssumption
<1>2. \A n \in Nat \ {0} : n \in Nat /\ n > 0
  OBVIOUS
<1> QED BY <1>1, <1>2, PunchAssumption

LEMMA MarksAreTimes ==
    /\ Marks = 0 .. MaxTicks /\ Marks \subseteq Nat
    /\ Nothing \in Marks /\ Ticks \subseteq Marks /\ 1 \in Ticks
BY PunchConstants DEF Marks, Ticks, Nothing

\* The times the code goes back to are times, and not later.
LEMMA BackIsEarlier ==
    ASSUME NEW t \in Marks, NEW span \in Nat, span > 0
    PROVE  Back(t, span) \in Marks /\ Back(t, span) <= t
BY MarksAreTimes, PunchConstants DEF Back, Nothing

LEMMA AskFromIsTime ==
    ASSUME NEW since \in Marks, NEW t \in Marks
    PROVE  AskFrom(since, t) \in Marks
BY BackIsEarlier, PunchConstants, MarksAreTimes DEF AskFrom, Later

\* The cursor is a time, Nothing when the table is empty.
LEMMA NextMarkIsTime ==
    ASSUME PunchTypeOK
    PROVE  NextMark \in Marks
<1> DEFINE S == {Nothing} \cup {sent[k] : k \in held}
<1>1. S \in SUBSET (0 .. MaxTicks)
  BY MarksAreTimes DEF PunchTypeOK
<1>2. S # {}
  OBVIOUS
<1>3. MaxTicks \in Nat
  BY PunchConstants
<1> HIDE DEF S
<1>4. Max(S) \in S
  BY <1>1, <1>2, <1>3, MaxExists
<1>5. NextMark = Max(S)
  BY DEF NextMark, S
<1> QED BY <1>1, <1>4, <1>5, MarksAreTimes

\* A punch is made before it is uploaded, and neither happens later than now.
DatesAgree ==
    \A k \in Punches : sent[k] # Nothing => made[k] <= sent[k] /\ sent[k] <= clock

\* What p has listed is stored, or dropped, or still to write.
Taken(p) == held \cup sync[p].dropped \cup sync[p].rows

\* What a pull went back to is taken, if it was uploaded before it began.
PullIsWhole(p) ==
    /\ sync[p].stage \in {"asking", "falling"} =>
            sync[p].answer = "none" /\ sync[p].refill = MaxTicks + 1
    /\ sync[p].stage \in {"asking", "falling", "filling", "sweeping", "closing"} =>
            sync[p].rows = {}
    /\ sync[p].stage = "filling" => sync[p].began <= sync[p].high
    /\ sync[p].began <= clock
    /\ \A k \in Punches :
        sent[k] # Nothing /\ sent[k] < sync[p].began /\ WentBackTo(p, k)
            => k \in Taken(p)

PunchInv == PunchTypeOK /\ DatesAgree /\ \A p \in Syncs : PullIsWhole(p)

\* A pull that begins, or is over, has listed nothing.
LEMMA NothingListed ==
    ASSUME NEW p \in Syncs, PunchTypeOK', sync[p]'.began <= clock',
           sync[p]'.answer = "none", sync[p]'.refill = MaxTicks + 1,
           sync[p]'.rows = {}, sync[p]'.stage = "filling" => sync[p]'.began <= sync[p]'.high
    PROVE  PullIsWhole(p)'
<1>1. \A k \in Punches : made'[k] <= MaxTicks
  BY MarksAreTimes DEF PunchTypeOK
<1>2. \A k \in Punches : ~WentBackTo(p, k)'
  <2>1. \A k \in Punches : ~(made'[k] >= MaxTicks + 1)
    BY <1>1, MarksAreTimes, PunchConstants DEF PunchTypeOK
  <2> QED BY <2>1 DEF WentBackTo
<1> QED BY <1>2 DEF PullIsWhole

\* A step that leaves the pull alone, and stores more, or uploads.
LEMMA OthersWhole ==
    ASSUME NEW p \in Syncs, PunchInv, PunchTypeOK', sync'[p] = sync[p],
           held \subseteq held', clock <= clock',
           \A k \in Punches : \/ sent'[k] = sent[k] /\ made'[k] = made[k]
                              \/ sent'[k] = clock
    PROVE  PullIsWhole(p)'
<1>1. sync[p]' = sync[p]
  OBVIOUS
<1>2. sync[p].began \in Nat /\ clock \in Nat /\ clock' \in Nat
  BY MarksAreTimes DEF PunchInv, PunchTypeOK, Sync
<1>3. sync[p].began <= clock'
  BY <1>2 DEF PunchInv, PullIsWhole
<1>4. ASSUME NEW k \in Punches, sent'[k] # Nothing, sent'[k] < sync[p].began,
             WentBackTo(p, k)'
      PROVE  k \in Taken(p)'
  <2>1. sent'[k] = sent[k] /\ made'[k] = made[k]
    BY <1>2, <1>4 DEF PunchInv, PullIsWhole
  <2>2. WentBackTo(p, k)
    BY <1>1, <1>4, <2>1 DEF WentBackTo
  <2>3. k \in Taken(p)
    BY <1>4, <2>1, <2>2 DEF PunchInv, PullIsWhole
  <2> QED BY <1>1, <2>3 DEF Taken
<1> QED BY <1>1, <1>3, <1>4 DEF PunchInv, PullIsWhole

LEMMA PunchTypesInit == PunchInit => PunchInv
<1> SUFFICES ASSUME PunchInit PROVE PunchInv
  OBVIOUS
<1>1. Unbegun \in Sync
  BY MarksAreTimes DEF Unbegun, Sync, Stages, RunsOf
<1>2. PunchTypeOK
  BY <1>1, MarksAreTimes, PunchConstants DEF PunchInit, PunchTypeOK
<1>3. DatesAgree
  BY DEF PunchInit, DatesAgree
<1>4. ASSUME NEW p \in Syncs PROVE PullIsWhole(p)
  <2>1. sync[p] = Unbegun
    BY DEF PunchInit
  <2>2. \A k \in Punches : sent[k] = Nothing
    BY DEF PunchInit
  <2>3. sync[p].began <= clock /\ sync[p].stage = "idle"
    BY <2>1 DEF PunchInit, Unbegun, Nothing
  <2> QED BY <2>2, <2>3 DEF PullIsWhole
<1> QED BY <1>2, <1>3, <1>4 DEF PunchInv

LEMMA FinishedIsSync == Finished \in Sync /\ Unbegun \in Sync
BY MarksAreTimes DEF Finished, Unbegun, Sync, Stages, RunsOf

LEMMA RecordedTypes ==
    ASSUME PunchTypeOK, NEW k \in Punches
    PROVE  Recorded(k) \in SUBSET Punches
BY DEF Recorded, PunchTypeOK

LEMMA MadeInTypes ==
    ASSUME NEW low, NEW high PROVE MadeIn(low, high) \in SUBSET Punches
BY DEF MadeIn

\* The step of a pull that writes a local state of the right kind.
LEMMA SetTypes ==
    ASSUME PunchTypeOK, NEW p \in Syncs, NEW s \in Sync, Set(p, s)
    PROVE  /\ sync' \in [Syncs -> Sync] /\ sync'[p] = s
           /\ \A q \in Syncs : q # p => sync'[q] = sync[q]
BY DEF PunchTypeOK, Set

LEMMA TowardTypes ==
    ASSUME PunchTypeOK, NEW p \in Syncs
    PROVE  /\ Toward(p, "filling") \in Sync
           /\ Toward(p, "sweeping") \in Sync
           /\ Ends(p) \in Sync
           /\ \A s \in ThenSweeps(p) : s = Toward(p, "sweeping") \/ s = Ends(p)
           /\ \A s \in ThenSweeps(p) : s \in Sync
<1>1. Back(clock, Window) \in Marks /\ clock \in Marks
  BY BackIsEarlier, MarksAreTimes, PunchConstants DEF PunchTypeOK
<1>2. sync[p] \in Sync
  BY DEF PunchTypeOK
<1>3. Toward(p, "filling") \in Sync
  BY <1>1, <1>2 DEF Toward, Sync, Stages
<1>4. Toward(p, "sweeping") \in Sync
  BY <1>1, <1>2 DEF Toward, Sync, Stages
<1>5. Ends(p) \in Sync
  BY <1>2 DEF Ends, Sync, Stages
<1>6. \A s \in ThenSweeps(p) : s = Toward(p, "sweeping") \/ s = Ends(p)
  BY DEF ThenSweeps
<1> QED BY <1>3, <1>4, <1>5, <1>6

LEMMA BeginsTypes ==
    ASSUME PunchTypeOK, NEW p \in Syncs, NEW does \in RunsOf \cup Imports,
           NEW stage \in {"asking", "filling", "sweeping"}, Begins(p, does, stage)
    PROVE  /\ PunchTypeOK'
           /\ \A q \in Syncs : q # p => sync'[q] = sync[q]
           /\ sync'[p].stage = stage /\ sync'[p].began = clock
           /\ sync'[p].answer = "none" /\ sync'[p].refill = MaxTicks + 1
           /\ sync'[p].rows = {} /\ (does \in Imports => sync'[p].high = clock)
<1> DEFINE n == Cardinality({q \in Syncs : sync[q].stage # "idle"}) + 1
           S(low) == [Unbegun EXCEPT
                !.stage = stage, !.does = does, !.owned = TRUE, !.rank = n,
                !.began = clock,
                !.from = IF does \in RunsOf THEN AskFrom(mark.since, clock) ELSE @,
                !.low = low, !.high = IF does \in RunsOf THEN @ ELSE clock]
<1>1. PICK low \in Marks : Set(p, S(low))
  BY DEF Begins
<1>2. n \in Nat
  <2>1. IsFiniteSet({q \in Syncs : sync[q].stage # "idle"})
    BY PunchConstants, FS_Subset
  <2> QED BY <2>1, FS_CardinalityType
<1>3. clock \in Marks /\ mark.since \in Marks
  BY MarksAreTimes DEF PunchTypeOK
<1>4. AskFrom(mark.since, clock) \in Marks
  BY <1>3, AskFromIsTime
<1>5. S(low) \in Sync
  BY <1>2, <1>3, <1>4, MarksAreTimes DEF Unbegun, Sync, Stages
<1>6. /\ S(low).stage = stage /\ S(low).began = clock
      /\ S(low).answer = "none" /\ S(low).refill = MaxTicks + 1
      /\ S(low).rows = {} /\ (does \in Imports => S(low).high = clock)
  BY DEF Unbegun, Imports, RunsOf
<1> HIDE DEF S
<1>7. /\ sync' \in [Syncs -> Sync] /\ sync'[p] = S(low)
      /\ \A q \in Syncs : q # p => sync'[q] = sync[q]
  BY <1>1, <1>5, SetTypes
<1>8. PunchTypeOK'
  BY <1>7 DEF PunchTypeOK, Begins
<1> QED BY <1>6, <1>7, <1>8

\* A step of the pull p keeps the invariant when it keeps it of p.
LEMMA PullStep ==
    ASSUME PunchInv, NEW p \in Syncs, PunchTypeOK', held \subseteq held',
           UNCHANGED <<clock, made, sent>>,
           \A q \in Syncs : q # p => sync'[q] = sync[q], PullIsWhole(p)'
    PROVE  PunchInv'
<1>1. clock <= clock'
  BY MarksAreTimes DEF PunchInv, PunchTypeOK
<1>2. \A q \in Syncs : q # p => PullIsWhole(q)'
  BY <1>1, OthersWhole
<1>3. DatesAgree'
  BY DEF PunchInv, DatesAgree
<1> QED BY <1>2, <1>3 DEF PunchInv

\* What p went back to is taken still, whatever it listed since.
LEMMA StillWhole ==
    ASSUME PunchInv, NEW p \in Syncs, UNCHANGED <<clock, made, sent>>,
           sync'[p].began = sync[p].began, Taken(p) \subseteq Taken(p)',
           sync'[p].stage \notin {"asking", "falling"},
           sync'[p].stage \in {"filling", "sweeping", "closing"} => sync'[p].rows = {},
           sync'[p].stage = "filling" => sync'[p].began <= sync'[p].high,
           \A k \in Punches :
                sent[k] # Nothing /\ sent[k] < sync[p].began /\ WentBackTo(p, k)'
                    => WentBackTo(p, k) \/ k \in Taken(p)'
    PROVE  PullIsWhole(p)'
<1>1. sync[p].began <= clock
  BY DEF PunchInv, PullIsWhole
<1>2. ASSUME NEW k \in Punches, sent[k] # Nothing, sent[k] < sync[p].began,
             WentBackTo(p, k)'
      PROVE  k \in Taken(p)'
  BY <1>2 DEF PunchInv, PullIsWhole
<1> QED BY <1>1, <1>2 DEF PullIsWhole

LEMMA BeginsWhole ==
    ASSUME PunchInv, NEW p \in Syncs, NEW does \in RunsOf \cup Imports,
           NEW stage \in {"asking", "filling", "sweeping"}, Begins(p, does, stage),
           stage = "filling" => does \in Imports
    PROVE  PunchInv'
<1>1. /\ PunchTypeOK'
      /\ \A q \in Syncs : q # p => sync'[q] = sync[q]
      /\ sync'[p].stage = stage /\ sync'[p].began = clock
      /\ sync'[p].answer = "none" /\ sync'[p].refill = MaxTicks + 1
      /\ sync'[p].rows = {} /\ (does \in Imports => sync'[p].high = clock)
  BY BeginsTypes DEF PunchInv
<1>2. UNCHANGED <<clock, made, sent, held>>
  BY DEF Begins
<1>3. clock \in Nat
  BY MarksAreTimes DEF PunchInv, PunchTypeOK
<1>4. PullIsWhole(p)'
  BY <1>1, <1>2, <1>3, NothingListed
<1> QED BY <1>1, <1>2, <1>4, PullStep

LEMMA ListsUploadedWhole ==
    ASSUME PunchInv, NEW p \in Syncs, ListsUploaded(p)
    PROVE  PunchInv'
<1> DEFINE R == {k \in Punches :
                    sent[k] # Nothing /\ sent[k] \in sync[p].from .. sync[p].began}
           s == [sync[p] EXCEPT !.stage = "storing", !.answer = "upload", !.rows = R]
<1>1. sync[p] \in Sync /\ PunchTypeOK
  BY DEF PunchInv, PunchTypeOK
<1>2. s \in Sync
  BY <1>1 DEF Sync, Stages
<1>3. Set(p, s) /\ sync[p].stage = "asking" /\ UNCHANGED <<clock, made, sent, held, person, moves, mark>>
  BY DEF ListsUploaded
<1>4. /\ s.stage = "storing" /\ s.answer = "upload" /\ s.rows = R
      /\ s.began = sync[p].began /\ s.from = sync[p].from
      /\ s.refill = sync[p].refill /\ s.dropped = sync[p].dropped
  BY <1>1 DEF Sync
<1> HIDE DEF s
<1>5. /\ sync' \in [Syncs -> Sync] /\ sync'[p] = s
      /\ \A q \in Syncs : q # p => sync'[q] = sync[q]
  BY <1>1, <1>2, <1>3, SetTypes
<1>6. PunchTypeOK'
  BY <1>1, <1>3, <1>5 DEF PunchTypeOK
<1>7. sync[p].rows = {} /\ sync[p].refill = MaxTicks + 1
  BY <1>3 DEF PunchInv, PullIsWhole
<1>8. Taken(p) \subseteq Taken(p)'
  BY <1>3, <1>4, <1>5, <1>7 DEF Taken
<1>9. ASSUME NEW k \in Punches, sent[k] # Nothing, sent[k] < sync[p].began,
             WentBackTo(p, k)'
      PROVE  k \in Taken(p)'
  <2>1. made[k] \in 0 .. MaxTicks /\ sent[k] \in Nat
    BY <1>1, MarksAreTimes DEF PunchTypeOK
  <2>2. ~(made[k] >= MaxTicks + 1)
    BY <2>1, PunchConstants
  <2>3. sent[k] >= sync[p].from
    BY <1>3, <1>4, <1>5, <1>7, <1>9, <2>2 DEF WentBackTo
  <2>4. sync[p].from \in Nat /\ sync[p].began \in Nat
    BY <1>1, MarksAreTimes DEF Sync
  <2>5. k \in R
    BY <1>9, <2>1, <2>3, <2>4
  <2> QED BY <1>4, <1>5, <2>5 DEF Taken
<1>10. PullIsWhole(p)'
  BY <1>3, <1>4, <1>5, <1>8, <1>9, StillWhole
<1> QED BY <1>3, <1>5, <1>6, <1>10, PullStep

LEMMA UploadedFailsWhole ==
    ASSUME PunchInv, NEW p \in Syncs, UploadedFails(p)
    PROVE  PunchInv'
<1> DEFINE s == [sync[p] EXCEPT !.stage = "falling", !.from = Back(clock, Fallback)]
<1>1. sync[p] \in Sync /\ PunchTypeOK /\ clock \in Marks
  BY MarksAreTimes DEF PunchInv, PunchTypeOK
<1>2. Back(clock, Fallback) \in Marks
  BY <1>1, BackIsEarlier, PunchConstants
<1>3. s \in Sync
  BY <1>1, <1>2 DEF Sync, Stages
<1>4. Set(p, s) /\ sync[p].stage = "asking" /\ UNCHANGED <<clock, made, sent, held, person, moves, mark>>
  BY DEF UploadedFails
<1>5. /\ s.stage = "falling" /\ s.answer = sync[p].answer /\ s.rows = sync[p].rows
      /\ s.began = sync[p].began /\ s.refill = sync[p].refill
  BY <1>1 DEF Sync
<1> HIDE DEF s
<1>6. /\ sync' \in [Syncs -> Sync] /\ sync'[p] = s
      /\ \A q \in Syncs : q # p => sync'[q] = sync[q]
  BY <1>1, <1>3, <1>4, SetTypes
<1>7. PunchTypeOK'
  BY <1>1, <1>4, <1>6 DEF PunchTypeOK
<1>8. /\ sync[p].rows = {} /\ sync[p].answer = "none"
      /\ sync[p].refill = MaxTicks + 1 /\ sync[p].began <= clock
  BY <1>4 DEF PunchInv, PullIsWhole
<1>9. PullIsWhole(p)'
  BY <1>4, <1>5, <1>6, <1>7, <1>8, NothingListed
<1> QED BY <1>4, <1>6, <1>7, <1>9, PullStep

LEMMA FallbackWhole ==
    ASSUME PunchInv, NEW p \in Syncs, FallsBack(p) \/ FallbackFails(p)
    PROVE  PunchInv'
<1> DEFINE R == MadeIn(sync[p].from, sync[p].began)
           s == [sync[p] EXCEPT !.stage = "storing", !.answer = "fallback", !.rows = R]
           t == [sync[p] EXCEPT !.stage = "storing"]
<1>1. sync[p] \in Sync /\ PunchTypeOK
  BY DEF PunchInv, PunchTypeOK
<1>2. s \in Sync /\ t \in Sync
  BY <1>1, MadeInTypes DEF Sync, Stages
<1>3. sync[p].stage = "falling" /\ UNCHANGED <<clock, made, sent, held, person, moves, mark>>
  BY DEF FallsBack, FallbackFails
<1>4. Set(p, s) \/ Set(p, t)
  BY DEF FallsBack, FallbackFails
<1>5. /\ s.stage = "storing" /\ s.answer = "fallback" /\ s.rows = R
      /\ s.began = sync[p].began /\ s.from = sync[p].from
      /\ s.refill = sync[p].refill /\ s.dropped = sync[p].dropped
      /\ t.stage = "storing" /\ t.answer = sync[p].answer /\ t.rows = sync[p].rows
      /\ t.began = sync[p].began /\ t.refill = sync[p].refill
      /\ t.dropped = sync[p].dropped
  BY <1>1 DEF Sync
<1>6. /\ sync[p].rows = {} /\ sync[p].answer = "none"
      /\ sync[p].refill = MaxTicks + 1
  BY <1>3 DEF PunchInv, PullIsWhole
<1> HIDE DEF s, t
<1>7. ASSUME NEW r \in Sync, Set(p, r)
      PROVE  /\ sync' \in [Syncs -> Sync] /\ sync'[p] = r
             /\ \A q \in Syncs : q # p => sync'[q] = sync[q]
  BY <1>1, <1>7, SetTypes
<1>8. PunchTypeOK' /\ \A q \in Syncs : q # p => sync'[q] = sync[q]
  BY <1>1, <1>2, <1>3, <1>4, <1>7 DEF PunchTypeOK
<1>9. sync'[p] = s \/ sync'[p] = t
  BY <1>2, <1>4, <1>7
<1>10. \A k \in Punches : ~(made[k] >= MaxTicks + 1)
  BY <1>1, MarksAreTimes, PunchConstants DEF PunchTypeOK
<1>11. ASSUME NEW k \in Punches, sent[k] # Nothing, sent[k] < sync[p].began,
              WentBackTo(p, k)'
       PROVE  k \in Taken(p)'
  <2>1. sync'[p] = s /\ made[k] >= sync[p].from
    BY <1>3, <1>5, <1>6, <1>9, <1>10, <1>11 DEF WentBackTo
  <2>2. made[k] <= sent[k] /\ made[k] \in Nat /\ sent[k] \in Nat
    BY <1>1, <1>11, MarksAreTimes DEF PunchInv, DatesAgree, PunchTypeOK
  <2>3. sync[p].from \in Nat /\ sync[p].began \in Nat
    BY <1>1, MarksAreTimes DEF Sync
  <2>4. k \in R
    BY <1>11, <2>1, <2>2, <2>3 DEF MadeIn
  <2> QED BY <1>5, <2>1, <2>4 DEF Taken
<1>12. Taken(p) \subseteq Taken(p)'
  BY <1>3, <1>5, <1>6, <1>9 DEF Taken
<1>13. PullIsWhole(p)'
  BY <1>3, <1>5, <1>9, <1>11, <1>12, StillWhole
<1> QED BY <1>3, <1>8, <1>13, PullStep

LEMMA StoresWhole ==
    ASSUME PunchInv, NEW p \in Syncs, NEW k \in Punches, Stores(p, k)
    PROVE  PunchInv'
<1> DEFINE known == person[Owner(k)] # "unknown"
           s == [sync[p] EXCEPT
                !.rows = @ \ {k}, !.dropped = IF known THEN @ ELSE @ \cup {k}]
<1>1. sync[p] \in Sync /\ PunchTypeOK
  BY DEF PunchInv, PunchTypeOK
<1>2. s \in Sync
  BY <1>1 DEF Sync
<1>3. /\ Set(p, s) /\ sync[p].stage \in {"storing", "filled", "swept"}
      /\ UNCHANGED <<clock, made, sent, person, moves, mark>>
      /\ held' = IF known THEN held \cup {k} ELSE held
  BY DEF Stores, Writing, Recorded
<1>4. /\ s.stage = sync[p].stage /\ s.answer = sync[p].answer
      /\ s.began = sync[p].began /\ s.from = sync[p].from
      /\ s.refill = sync[p].refill /\ s.rows = sync[p].rows \ {k}
      /\ s.dropped = IF known THEN sync[p].dropped ELSE sync[p].dropped \cup {k}
  BY <1>1 DEF Sync
<1> HIDE DEF s, known
<1>5. /\ sync' \in [Syncs -> Sync] /\ sync'[p] = s
      /\ \A q \in Syncs : q # p => sync'[q] = sync[q]
  BY <1>1, <1>2, <1>3, SetTypes
<1>6. held' \in SUBSET Punches /\ held \subseteq held'
  BY <1>1, <1>3 DEF PunchTypeOK
<1>7. PunchTypeOK'
  BY <1>1, <1>3, <1>5, <1>6 DEF PunchTypeOK
<1>8. Taken(p) \subseteq Taken(p)'
  BY <1>3, <1>4, <1>5 DEF Taken
<1>9. \A j \in Punches : WentBackTo(p, j)' => WentBackTo(p, j)
  BY <1>3, <1>4, <1>5 DEF WentBackTo
<1>10. PullIsWhole(p)'
  BY <1>3, <1>4, <1>5, <1>8, <1>9, StillWhole
<1> QED BY <1>3, <1>5, <1>6, <1>7, <1>10, PullStep

\* A pull that goes to its next listing, or to its end, with nothing to write.
LEMMA MovesOnWhole ==
    ASSUME PunchInv, NEW p \in Syncs, sync[p].rows = {}, sync[p].stage \notin {"asking", "falling"},
           NEW s \in {Toward(p, "filling"), Toward(p, "sweeping"), Ends(p)}, Set(p, s),
           UNCHANGED <<clock, made, sent, held, person, moves, mark>>
    PROVE  PunchInv'
<1>1. sync[p] \in Sync /\ PunchTypeOK
  BY DEF PunchInv, PunchTypeOK
<1>2. s \in Sync
  BY <1>1, TowardTypes
<1>3. /\ s.stage \in {"filling", "sweeping", "closing"} /\ s.answer = sync[p].answer
      /\ s.began = sync[p].began /\ s.from = sync[p].from
      /\ s.refill = sync[p].refill /\ s.rows = sync[p].rows
      /\ s.dropped = sync[p].dropped /\ (s.stage = "filling" => s.high = clock)
  BY <1>1 DEF Sync, Toward, Ends
<1>4. /\ sync' \in [Syncs -> Sync] /\ sync'[p] = s
      /\ \A q \in Syncs : q # p => sync'[q] = sync[q]
  BY <1>1, <1>2, SetTypes
<1>5. PunchTypeOK'
  BY <1>1, <1>4 DEF PunchTypeOK
<1>6. Taken(p) \subseteq Taken(p)'
  BY <1>3, <1>4 DEF Taken
<1>7. \A j \in Punches : WentBackTo(p, j)' => WentBackTo(p, j)
  BY <1>3, <1>4 DEF WentBackTo
<1>8. sync[p].began <= clock
  BY DEF PunchInv, PullIsWhole
<1>9. PullIsWhole(p)'
  BY <1>3, <1>4, <1>6, <1>7, <1>8, StillWhole
<1> QED BY <1>4, <1>5, <1>9, PullStep

LEMMA StoredWhole ==
    ASSUME PunchInv, NEW p \in Syncs, RowsStored(p) \/ FillStored(p) \/ SweepStored(p)
    PROVE  PunchInv'
<1>1. /\ sync[p].rows = {} /\ sync[p].stage \notin {"asking", "falling"}
      /\ UNCHANGED <<clock, made, sent, held, person, moves, mark>>
  BY DEF RowsStored, FillStored, SweepStored
<1>2. \A s \in ThenSweeps(p) : s = Toward(p, "sweeping") \/ s = Ends(p)
  BY DEF ThenSweeps
<1>3. \E s \in {Toward(p, "filling"), Toward(p, "sweeping"), Ends(p)} : Set(p, s)
  BY <1>2 DEF RowsStored, FillStored, SweepStored
<1> QED BY <1>1, <1>3, MovesOnWhole

LEMMA FillsWhole ==
    ASSUME PunchInv, NEW p \in Syncs, Fills(p)
    PROVE  PunchInv'
<1> DEFINE R == MadeIn(sync[p].low, sync[p].high)
           s == [sync[p] EXCEPT !.stage = "filled", !.refill = sync[p].low, !.rows = R]
<1>1. sync[p] \in Sync /\ PunchTypeOK
  BY DEF PunchInv, PunchTypeOK
<1>2. s \in Sync
  BY <1>1, MadeInTypes DEF Sync, Stages
<1>3. Set(p, s) /\ sync[p].stage = "filling" /\ UNCHANGED <<clock, made, sent, held, person, moves, mark>>
  BY DEF Fills
<1>4. /\ s.stage = "filled" /\ s.answer = sync[p].answer /\ s.rows = R
      /\ s.began = sync[p].began /\ s.from = sync[p].from
      /\ s.refill = sync[p].low /\ s.dropped = sync[p].dropped
  BY <1>1 DEF Sync
<1> HIDE DEF s
<1>5. /\ sync' \in [Syncs -> Sync] /\ sync'[p] = s
      /\ \A q \in Syncs : q # p => sync'[q] = sync[q]
  BY <1>1, <1>2, <1>3, SetTypes
<1>6. PunchTypeOK'
  BY <1>1, <1>3, <1>5 DEF PunchTypeOK
<1>7. sync[p].rows = {} /\ sync[p].began <= sync[p].high
  BY <1>3 DEF PunchInv, PullIsWhole
<1>8. Taken(p) \subseteq Taken(p)'
  BY <1>3, <1>4, <1>5, <1>7 DEF Taken
<1>9. ASSUME NEW k \in Punches, sent[k] # Nothing, sent[k] < sync[p].began,
             WentBackTo(p, k)'
      PROVE  WentBackTo(p, k) \/ k \in Taken(p)'
  <2>1. CASE made[k] >= sync[p].low
    <3>1. made[k] <= sent[k] /\ made[k] \in Nat /\ sent[k] \in Nat
      BY <1>1, <1>9, MarksAreTimes DEF PunchInv, DatesAgree, PunchTypeOK
    <3>2. sync[p].low \in Nat /\ sync[p].high \in Nat /\ sync[p].began \in Nat
      BY <1>1, MarksAreTimes DEF Sync
    <3>3. made[k] \in sync[p].low .. sync[p].high
      BY <1>7, <1>9, <2>1, <3>1, <3>2
    <3>4. k \in R
      BY <1>9, <3>3 DEF MadeIn
    <3> QED BY <1>4, <1>5, <3>4 DEF Taken
  <2>2. CASE ~(made[k] >= sync[p].low)
    BY <1>3, <1>4, <1>5, <1>9, <2>2 DEF WentBackTo
  <2> QED BY <2>1, <2>2
<1>10. PullIsWhole(p)'
  BY <1>3, <1>4, <1>5, <1>8, <1>9, StillWhole
<1> QED BY <1>3, <1>5, <1>6, <1>10, PullStep

LEMMA SweepWhole ==
    ASSUME PunchInv, NEW p \in Syncs,
           SweepReads(p) \/ \E e \in Persons : Sweeps(p, e)
    PROVE  PunchInv'
<1>1. sync[p] \in Sync /\ PunchTypeOK
  BY DEF PunchInv, PunchTypeOK
<1>2. \E Q \in SUBSET Persons, R \in SUBSET Punches :
        Set(p, [sync[p] EXCEPT !.stage = "swept", !.queue = Q, !.rows = R])
  <2>1. CASE SweepReads(p)
    <3> DEFINE Q == {e \in Persons : person[e] = "ACTIVE"}
    <3>1. sync[p].rows = {}
      BY <2>1 DEF PunchInv, PullIsWhole, SweepReads
    <3>2. [sync[p] EXCEPT !.stage = "swept", !.queue = Q]
          = [sync[p] EXCEPT !.stage = "swept", !.queue = Q, !.rows = {}]
      BY <1>1, <3>1 DEF Sync
    <3>3. Set(p, [sync[p] EXCEPT !.stage = "swept", !.queue = Q])
      BY <2>1 DEF SweepReads
    <3>4. Set(p, [sync[p] EXCEPT !.stage = "swept", !.queue = Q, !.rows = {}])
      BY <3>2, <3>3
    <3> HIDE DEF Q
    <3>5. Q \in SUBSET Persons
      BY DEF Q
    <3> QED BY <3>4, <3>5
  <2>2. ASSUME NEW e \in Persons, Sweeps(p, e) 
      PROVE  \E Q \in SUBSET Persons, R \in SUBSET Punches :
                Set(p, [sync[p] EXCEPT !.stage = "swept", !.queue = Q, !.rows = R])
    <3> DEFINE Q == sync[p].queue \ {e}
               R == {k \in MadeIn(sync[p].low, sync[p].high) : Owner(k) = e}
    <3>1. Q \in SUBSET Persons /\ R \in SUBSET Punches
      BY <1>1, MadeInTypes DEF Sync
    <3>2. [sync[p] EXCEPT !.queue = Q, !.rows = R]
          = [sync[p] EXCEPT !.stage = "swept", !.queue = Q, !.rows = R]
      BY <1>1, <2>2 DEF Sync, Sweeps
    <3>3. Set(p, [sync[p] EXCEPT !.queue = Q, !.rows = R])
      BY <2>2 DEF Sweeps
    <3>4. Set(p, [sync[p] EXCEPT !.stage = "swept", !.queue = Q, !.rows = R])
      BY <3>2, <3>3
    <3> HIDE DEF Q, R
    <3> QED BY <3>1, <3>4
  <2> QED BY <2>1, <2>2
<1>3. PICK Q \in SUBSET Persons, R \in SUBSET Punches :
        Set(p, [sync[p] EXCEPT !.stage = "swept", !.queue = Q, !.rows = R])
  BY <1>2
<1>4. /\ sync[p].rows = {} /\ sync[p].stage \in {"sweeping", "swept"}
      /\ UNCHANGED <<clock, made, sent, held, person, moves, mark>>
  BY DEF PunchInv, PullIsWhole, SweepReads, Sweeps
<1> DEFINE s == [sync[p] EXCEPT !.stage = "swept", !.queue = Q, !.rows = R]
<1>5. s \in Sync
  BY <1>1 DEF Sync, Stages
<1>6. /\ s.stage = "swept" /\ s.answer = sync[p].answer /\ s.rows = R
      /\ s.began = sync[p].began /\ s.from = sync[p].from
      /\ s.refill = sync[p].refill /\ s.dropped = sync[p].dropped
  BY <1>1 DEF Sync
<1>7. /\ sync' \in [Syncs -> Sync] /\ sync'[p] = s
      /\ \A q \in Syncs : q # p => sync'[q] = sync[q]
  BY <1>1, <1>3, <1>5, SetTypes
<1> HIDE DEF s
<1>8. PunchTypeOK'
  BY <1>1, <1>4, <1>7 DEF PunchTypeOK
<1>9. Taken(p) \subseteq Taken(p)'
  BY <1>4, <1>6, <1>7 DEF Taken
<1>10. \A k \in Punches : WentBackTo(p, k)' => WentBackTo(p, k)
  BY <1>4, <1>6, <1>7 DEF WentBackTo
<1>11. PullIsWhole(p)'
  BY <1>4, <1>6, <1>7, <1>9, <1>10, StillWhole
<1> QED BY <1>4, <1>7, <1>8, <1>11, PullStep

\* A pull ends, or is given up: it is answerable for nothing.
LEMMA EndsWhole ==
    ASSUME PunchInv, NEW p \in Syncs,
           Closing(p) \/ Breaks(p) \/ IsGivenUp(p) \/ ClosesAstray(p)
    PROVE  PunchInv'
<1> DEFINE a == [Unbegun EXCEPT !.stage = "astray", !.does = sync[p].does,
                                !.rank = sync[p].rank]
<1>1. sync[p] \in Sync /\ PunchTypeOK
  BY DEF PunchInv, PunchTypeOK
<1>2. a \in Sync /\ Finished \in Sync
  BY <1>1, FinishedIsSync DEF Sync, Stages, Unbegun
<1>3. Set(p, Finished) \/ Set(p, a)
  BY DEF Closing, Succeeds, Breaks, IsGivenUp, ClosesAstray
<1>4. UNCHANGED <<clock, made, sent, held, person, moves>>
  BY DEF Closing, Succeeds, Breaks, IsGivenUp, ClosesAstray
<1>5. mark' \in [rank : Nat, since : Marks]
  <2>1. CASE Closing(p) \/ ClosesAstray(p)
    <3>1. \/ mark' = mark
          \/ mark' = [rank |-> sync[p].rank, since |-> NextMark]
          \/ mark' = [rank |-> sync[p].rank, since |-> Nothing]
      BY <2>1 DEF Closing, ClosesAstray, Succeeds
    <3>2. NextMark \in Marks /\ Nothing \in Marks /\ sync[p].rank \in Nat
      BY <1>1, NextMarkIsTime, MarksAreTimes DEF Sync
    <3> QED BY <1>1, <3>1, <3>2 DEF PunchTypeOK
  <2>2. CASE Breaks(p) \/ IsGivenUp(p)
    BY <1>1, <2>2 DEF Breaks, IsGivenUp, PunchTypeOK
  <2> QED BY <2>1, <2>2
<1>6. \A s \in {a, Finished} :
        /\ s.stage \in {"astray", "done"} /\ s.began = Nothing
        /\ s.answer = "none" /\ s.refill = MaxTicks + 1 /\ s.rows = {}
  BY DEF Finished, Unbegun
<1> HIDE DEF a
<1>7. ASSUME NEW r \in Sync, Set(p, r)
      PROVE  /\ sync' \in [Syncs -> Sync] /\ sync'[p] = r
             /\ \A q \in Syncs : q # p => sync'[q] = sync[q]
  BY <1>1, <1>7, SetTypes
<1>8. /\ sync' \in [Syncs -> Sync] /\ sync'[p] \in {a, Finished}
      /\ \A q \in Syncs : q # p => sync'[q] = sync[q]
  BY <1>2, <1>3, <1>7
<1>9. PunchTypeOK'
  BY <1>1, <1>4, <1>5, <1>8 DEF PunchTypeOK
<1>10. Nothing <= clock'
  BY <1>9, MarksAreTimes DEF PunchTypeOK, Nothing
<1>11. PullIsWhole(p)'
  BY <1>6, <1>8, <1>9, <1>10, NothingListed
<1> QED BY <1>4, <1>8, <1>9, <1>11, PullStep

LEMMA DiesWhole ==
    ASSUME PunchInv, Dies
    PROVE  PunchInv'
<1>1. PunchTypeOK /\ UNCHANGED <<clock, made, sent, held, person, moves, mark>>
  BY DEF PunchInv, Dies
<1>2. /\ sync' \in [Syncs -> Sync]
      /\ \A p \in Syncs : sync'[p] \in {Unbegun, Finished}
  BY FinishedIsSync DEF Dies
<1>3. PunchTypeOK'
  BY <1>1, <1>2 DEF PunchTypeOK
<1>4. \A s \in {Unbegun, Finished} :
        /\ s.stage \in {"idle", "done"} /\ s.began = Nothing
        /\ s.answer = "none" /\ s.refill = MaxTicks + 1 /\ s.rows = {}
  BY DEF Finished, Unbegun
<1>5. Nothing <= clock'
  BY <1>3, MarksAreTimes DEF PunchTypeOK, Nothing
<1>6. ASSUME NEW p \in Syncs PROVE PullIsWhole(p)'
  BY <1>2, <1>3, <1>4, <1>5, NothingListed
<1>7. DatesAgree'
  BY <1>1 DEF PunchInv, DatesAgree
<1> QED BY <1>3, <1>6, <1>7 DEF PunchInv

\* What the pulls do not do.
LEMMA WorldWhole ==
    ASSUME PunchInv,
           \/ TimePasses
           \/ \E k \in Punches : Upload(k)
           \/ \E e \in Persons : PersonChanges(e)
           \/ \E p \in Syncs, k \in Punches : StoresAstray(p, k)
    PROVE  PunchInv'
<1>1. PunchTypeOK /\ clock \in Ticks /\ clock \in Nat
  BY MarksAreTimes DEF PunchInv, PunchTypeOK
<1>2. sync' = sync /\ held \subseteq held'
  BY DEF TimePasses, Upload, PersonChanges, StoresAstray, Recorded
<1>3. CASE TimePasses
  <2>1. clock' \in Ticks /\ clock <= clock'
    BY <1>1, <1>3, MarksAreTimes, PunchConstants DEF TimePasses, Ticks
  <2>2. PunchTypeOK'
    BY <1>1, <1>3, <2>1 DEF TimePasses, PunchTypeOK
  <2>3. \A p \in Syncs : PullIsWhole(p)'
    BY <1>2, <1>3, <2>1, <2>2, OthersWhole DEF TimePasses
  <2>4. DatesAgree'
    <3> SUFFICES ASSUME NEW k \in Punches, sent[k] # Nothing
                 PROVE  made[k] <= sent[k] /\ sent[k] <= clock'
      BY <1>3 DEF TimePasses, DatesAgree
    <3>1. sent[k] \in Nat /\ clock' \in Nat
      BY <1>1, <2>2, MarksAreTimes DEF PunchTypeOK
    <3> QED BY <1>1, <2>1, <3>1 DEF PunchInv, DatesAgree
  <2> QED BY <2>2, <2>3, <2>4 DEF PunchInv
<1>4. ASSUME NEW k \in Punches, Upload(k) PROVE PunchInv'
  <2>1. PICK t \in 1 .. clock : made' = [made EXCEPT ![k] = t]
    BY <1>4 DEF Upload
  <2>2. t \in Marks /\ t \in Nat /\ t <= clock /\ clock \in Marks
    BY <1>1, <2>1, MarksAreTimes, PunchConstants DEF Ticks
  <2>3. PunchTypeOK'
    BY <1>1, <1>4, <2>1, <2>2 DEF Upload, PunchTypeOK
  <2>4. \A j \in Punches : \/ sent'[j] = sent[j] /\ made'[j] = made[j]
                           \/ j = k /\ sent'[j] = clock /\ made'[j] = t
    BY <1>1, <1>4, <2>1 DEF Upload, PunchTypeOK
  <2>5. clock <= clock' /\ clock' = clock
    BY <1>1, <1>4 DEF Upload
  <2>6. \A p \in Syncs : PullIsWhole(p)'
    BY <1>2, <2>3, <2>4, <2>5, OthersWhole
  <2>7. DatesAgree'
    BY <1>1, <2>2, <2>4, <2>5 DEF PunchInv, DatesAgree
  <2> QED BY <2>3, <2>6, <2>7 DEF PunchInv
<1>5. CASE (\E e \in Persons : PersonChanges(e))
           \/ \E p \in Syncs, k \in Punches : StoresAstray(p, k)
  <2>1. /\ UNCHANGED <<clock, made, sent, mark>>
        /\ person' \in [Persons -> {"unknown", "ACTIVE", "RESIGNED"}]
        /\ moves' \in 0 .. MaxMoves /\ held' \in SUBSET Punches
    <3>1. ASSUME NEW e \in Persons, PersonChanges(e)
          PROVE  /\ person' \in [Persons -> {"unknown", "ACTIVE", "RESIGNED"}]
                 /\ moves' \in 0 .. MaxMoves
      BY <1>1, <3>1, PunchConstants DEF PersonChanges, PunchTypeOK
    <3>2. CASE \E e \in Persons : PersonChanges(e)
      BY <1>1, <3>1, <3>2 DEF PersonChanges, PunchTypeOK
    <3>3. CASE \E p \in Syncs, k \in Punches : StoresAstray(p, k)
      BY <1>1, <3>3 DEF StoresAstray, Recorded, PunchTypeOK
    <3> QED BY <1>5, <3>2, <3>3
  <2>2. PunchTypeOK'
    BY <1>1, <1>2, <2>1 DEF PunchTypeOK
  <2>3. clock <= clock'
    BY <1>1, <2>1
  <2>4. \A p \in Syncs : PullIsWhole(p)'
    BY <1>2, <2>1, <2>2, <2>3, OthersWhole
  <2>5. DatesAgree'
    BY <2>1 DEF PunchInv, DatesAgree
  <2> QED BY <2>2, <2>4, <2>5 DEF PunchInv
<1> QED BY <1>3, <1>4, <1>5

LEMMA PunchStep == PunchInv /\ [PunchNext]_punchVars => PunchInv'
<1> SUFFICES ASSUME PunchInv, [PunchNext]_punchVars PROVE PunchInv'
  OBVIOUS
<1>1. ASSUME NEW p \in Syncs, NEW full \in BOOLEAN, BeginsRun(p, full) PROVE PunchInv'
  BY <1>1, BeginsWhole DEF BeginsRun, RunsOf, Imports
<1>2. ASSUME NEW p \in Syncs, BeginsImport(p) PROVE PunchInv'
  BY <1>2, BeginsWhole DEF BeginsImport, RunsOf, Imports
<1>3. ASSUME NEW p \in Syncs,
             \/ ListsUploaded(p) \/ UploadedFails(p) \/ FallsBack(p) \/ FallbackFails(p)
             \/ \E k \in Punches : Stores(p, k)
      PROVE  PunchInv'
  BY <1>3, ListsUploadedWhole, UploadedFailsWhole, FallbackWhole, StoresWhole
<1>4. ASSUME NEW p \in Syncs,
             \/ RowsStored(p) \/ Fills(p) \/ FillStored(p)
             \/ SweepReads(p) \/ SweepStored(p) \/ \E e \in Persons : Sweeps(p, e)
      PROVE  PunchInv'
  BY <1>4, StoredWhole, FillsWhole, SweepWhole
<1>5. ASSUME NEW p \in Syncs, Closing(p) \/ Breaks(p) \/ IsGivenUp(p) \/ ClosesAstray(p)
      PROVE  PunchInv'
  BY <1>5, EndsWhole
<1>6. CASE UNCHANGED punchVars
  BY <1>6 DEF punchVars, PunchInv, PunchTypeOK, DatesAgree, PullIsWhole, WentBackTo, Taken
<1> QED BY <1>1, <1>2, <1>3, <1>4, <1>5, <1>6, DiesWhole, WorldWhole DEF PunchNext

\* A step that leaves the cursor alone, or takes it away, leaves in reach what
\* was, until the lookback passes.
LEMMA ReachKept ==
    ASSUME PunchInv, PunchTypeOK', NEW k \in Punches, Reached(k),
           sent'[k] = sent[k], mark'.since \in {mark.since, Nothing},
           sent[k] >= Back(clock', Lookback)
    PROVE  Reached(k)'
<1>1. /\ mark.since \in Marks /\ mark'.since \in Marks /\ sent[k] \in Marks
      /\ clock \in Marks /\ clock' \in Marks
  BY MarksAreTimes DEF PunchInv, PunchTypeOK
<1>2. /\ Back(mark.since, Overlap) \in Nat /\ Back(clock, Lookback) \in Nat
      /\ Back(mark'.since, Overlap) \in Nat /\ Back(clock', Lookback) \in Nat
      /\ sent[k] \in Nat
  BY <1>1, BackIsEarlier, MarksAreTimes, PunchConstants
<1>3. sent[k] >= Back(mark.since, Overlap)
  BY <1>2 DEF Reached, AskFrom, Later
<1>4. Back(Nothing, Overlap) = Nothing
  BY PunchConstants DEF Back, Nothing
<1>5. sent[k] >= Back(mark'.since, Overlap)
  BY <1>2, <1>3, <1>4 DEF Nothing
<1> QED BY <1>2, <1>5 DEF Reached, AskFrom, Later

\* What the run that closes has neither stored nor dropped, and went back to,
\* was uploaded after it began, and the next one goes back further.
LEMMA ClosingReaches ==
    ASSUME PunchInv, PunchTypeOK', NEW p \in Syncs, Closing(p), NEW k \in Punches,
           Reached(k), k \notin held, sent[k] >= Back(clock', Lookback),
           WentBackTo(p, k), k \notin sync[p].dropped, ~IsSlow(p)
    PROVE  Reached(k)'
<1>1. /\ sync[p].stage = "closing" /\ UNCHANGED <<clock, made, sent, held>>
      /\ \/ mark' = mark
         \/ mark' = [rank |-> sync[p].rank, since |-> NextMark]
         \/ mark' = [rank |-> sync[p].rank, since |-> Nothing]
  BY DEF Closing, Succeeds
<1>2. CASE mark'.since \in {mark.since, Nothing}
  BY <1>1, <1>2, ReachKept
<1>3. CASE mark'.since = NextMark
  <2>1. sync[p].rows = {}
    BY <1>1 DEF PunchInv, PullIsWhole
  <2>2. k \notin Taken(p)
    BY <2>1 DEF Taken
  <2>3. sent[k] # Nothing
    BY DEF Reached
  <2>4. ~(sent[k] < sync[p].began)
    BY <2>2, <2>3 DEF PunchInv, PullIsWhole
  <2>5. NextMark \in Marks /\ sync[p].began \in Marks /\ clock \in Marks /\ sent[k] \in Marks
    BY NextMarkIsTime, MarksAreTimes DEF PunchInv, PunchTypeOK, Sync
  <2>6. /\ Back(NextMark, Overlap) \in Nat /\ Back(clock, Lookback) \in Nat
        /\ NextMark \in Nat /\ sync[p].began \in Nat /\ sent[k] \in Nat
    BY <2>5, BackIsEarlier, MarksAreTimes, PunchConstants
  <2>7. NextMark <= sync[p].began + Overlap
    BY <2>6, PunchConstants DEF IsSlow
  <2>8. Back(NextMark, Overlap) <= sync[p].began
    BY <2>6, <2>7, PunchConstants DEF Back, Nothing
  <2>9. sent[k] >= AskFrom(NextMark, clock)
    BY <1>1, <2>4, <2>6, <2>8 DEF AskFrom, Later
  <2> QED BY <1>1, <1>3, <2>3, <2>9 DEF Reached
<1> QED BY <1>1, <1>2, <1>3

\* An uploaded punch stays within the reach of the runs until one stores it,
\* drops it, or closes without having gone back to it (transactionSyncFrom,
\* pullAll, computeCursor).
THEOREM PunchesStayInReach == PunchSpec => UploadsAreReached
<1> DEFINE A == \A k \in Punches :
                  Reached(k) =>
                    \/ (Reached(k) \/ k \in held)'
                    \/ sent[k] < Back(clock', Lookback)
                    \/ \E p \in Syncs :
                          /\ Closing(p)
                          /\ ~WentBackTo(p, k) \/ k \in sync[p].dropped \/ IsSlow(p)
<1>1. PunchInv /\ [PunchNext]_punchVars => [A]_punchVars
  <2> SUFFICES ASSUME PunchInv, PunchNext, NEW k \in Punches, Reached(k),
                      ~(Reached(k) \/ k \in held)', ~(sent[k] < Back(clock', Lookback))
               PROVE  \E p \in Syncs :
                          /\ Closing(p)
                          /\ ~WentBackTo(p, k) \/ k \in sync[p].dropped \/ IsSlow(p)
    OBVIOUS
  <2>1. PunchInv' /\ PunchTypeOK'
    BY PunchStep DEF PunchInv
  <2>2. sent[k] >= Back(clock', Lookback)
    <3>1. sent[k] \in Nat /\ Back(clock', Lookback) \in Nat
      BY <2>1, BackIsEarlier, MarksAreTimes, PunchConstants DEF PunchInv, PunchTypeOK
    <3> QED BY <3>1
  <2>3. sent'[k] = sent[k]
    <3>1. ASSUME NEW j \in Punches, Upload(j) PROVE sent'[k] = sent[k]
      BY <3>1 DEF Upload, Reached, PunchInv, PunchTypeOK
    <3> QED BY <3>1 DEF PunchNext, TimePasses, PersonChanges, BeginsRun, BeginsImport,
                Begins, ListsUploaded, UploadedFails, FallsBack, FallbackFails, Stores,
                RowsStored, Fills, FillStored, Sweeps, SweepReads, SweepStored, Closing,
                Breaks, IsGivenUp, ClosesAstray, Succeeds, StoresAstray, Dies
  <2>4. ~(mark'.since \in {mark.since, Nothing})
    BY <2>1, <2>2, <2>3, ReachKept
  <2>5. PICK p \in Syncs : Closing(p)
    <3>1. ASSUME NEW p \in Syncs, ClosesAstray(p) PROVE FALSE
      <4>1. mark' = mark \/ mark' = [rank |-> sync[p].rank, since |-> Nothing]
        BY <3>1 DEF ClosesAstray, Succeeds, Imports, RunsOf
      <4> QED BY <2>4, <4>1
    <3>2. mark' # mark
      BY <2>4
    <3> QED BY <3>1, <3>2 DEF PunchNext, TimePasses, Upload, PersonChanges, BeginsRun,
                BeginsImport, Begins, ListsUploaded, UploadedFails, FallsBack,
                FallbackFails, Stores, RowsStored, Fills, FillStored, Sweeps, SweepReads,
                SweepStored, Breaks, IsGivenUp, StoresAstray, Dies
  <2>6. k \notin held
    <3>1. held' = held
      BY <2>5 DEF Closing, Succeeds
    <3> QED BY <3>1
  <2>7. ~WentBackTo(p, k) \/ k \in sync[p].dropped \/ IsSlow(p)
    BY <2>1, <2>2, <2>5, <2>6, ClosingReaches
  <2> QED BY <2>5, <2>7
<1> QED BY <1>1, PunchTypesInit, PunchStep, PTL DEF PunchSpec, UploadsAreReached
=============================================================================
