---------------------- MODULE LeaveDeclarations_proofs ----------------------
(***************************************************************************)
(* Proofs about LeaveDeclarations, for any calendar, leaves and requests,  *)
(* and about the pages of the client, WebPages, for any choices, loads and *)
(* acts.                                                                   *)
(***************************************************************************)
EXTENDS LeaveDeclarations, WebPages, FiniteSetTheorems, TLAPS

\* The row of an approved annual leave over p.
Counted(p) == [period |-> p, kind |-> "ANNUEL", status |-> "APPROVED"]

\* What a request in each phase knows.
Informed(r) ==
    /\ phase[r] \in {"duplicate", "rules", "write"}
         => form[r] \in Form /\ (target[r] # Unused => before[r] \in Row)
    /\ phase[r] = "delete" => target[r] \in Leaves /\ before[r] \in Row
    /\ phase[r] \in {"idle", "recalc", "save"} => target[r] = Unused

IInv == TypeOK /\ \A r \in Requests : Informed(r)

-----------------------------------------------------------------------------
(* The calendar                                                            *)

\* The years of a period are years of the calendar.
LEMMA YearsOfPeriod == ASSUME NEW p \in Periods PROVE YearsOf(p) \subseteq Years
<1>1. p.start \in Days /\ p.end \in Days
    BY CalendarAssumption
<1> QED
    BY <1>1, CalendarAssumption DEF YearsOf

\* The hull of two periods touches every year either touches, and only years
\* of the calendar.
LEMMA YearsOfHull ==
    ASSUME NEW p \in Periods, NEW q \in Periods
    PROVE  /\ YearsOf(Hull(p, q)) \subseteq Years
           /\ YearsOf(p) \subseteq YearsOf(Hull(p, q))
           /\ YearsOf(q) \subseteq YearsOf(Hull(p, q))
<1>1. /\ p.start \in Days /\ p.end \in Days /\ q.start \in Days /\ q.end \in Days
      /\ p.start \in Int /\ p.end \in Int /\ q.start \in Int /\ q.end \in Int
    BY CalendarAssumption
<1> DEFINE s == Hull(p, q).start
           e == Hull(p, q).end
<1>2. /\ s \in Days /\ e \in Days
      /\ s <= p.start /\ s <= q.start
      /\ p.end <= e /\ q.end <= e
    BY <1>1 DEF Hull
<1>3. /\ YearOf[s] <= YearOf[p.start] /\ YearOf[s] <= YearOf[q.start]
      /\ YearOf[p.end] <= YearOf[e] /\ YearOf[q.end] <= YearOf[e]
    BY <1>1, <1>2, CalendarAssumption
<1>4. /\ YearOf[s] \in Int /\ YearOf[e] \in Int
      /\ YearOf[p.start] \in Int /\ YearOf[p.end] \in Int
      /\ YearOf[q.start] \in Int /\ YearOf[q.end] \in Int
    BY <1>1, <1>2, CalendarAssumption
<1>5. YearsOf(Hull(p, q)) = YearOf[s]..YearOf[e]
    BY DEF YearsOf
<1>6. YearOf[s]..YearOf[e] \subseteq Years
    BY <1>2, CalendarAssumption
<1>7. YearsOf(p) = YearOf[p.start]..YearOf[p.end] /\ YearsOf(q) = YearOf[q.start]..YearOf[q.end]
    BY DEF YearsOf
<1> HIDE DEF s, e
<1>8. /\ YearOf[p.start]..YearOf[p.end] \subseteq YearOf[s]..YearOf[e]
      /\ YearOf[q.start]..YearOf[q.end] \subseteq YearOf[s]..YearOf[e]
    BY <1>3, <1>4
<1> QED
    BY <1>5, <1>6, <1>7, <1>8

\* Writing one row changes the leaves that count in y only if the row counted
\* in y or counts in it now.
LEMMA RowChange ==
    ASSUME TypeOK, NEW l \in Leaves, NEW v,
           row' = [row EXCEPT ![l] = v],
           NEW y \in Years, Taken(y)' # Taken(y)
    PROVE  \E p \in Periods : y \in YearsOf(p) /\ (row[l] = Counted(p) \/ v = Counted(p))
<1>1. PICK t \in Leaves \X Periods : ~(t \in Taken(y) <=> t \in Taken(y)')
    <2>1. Taken(y) \subseteq Leaves \X Periods /\ Taken(y)' \subseteq Leaves \X Periods
        BY DEF Taken
    <2> QED
        BY <2>1
<1>2. t[1] \in Leaves /\ t[2] \in Periods
    BY <1>1
<1>3. t \in Taken(y) <=> row[t[1]] = Counted(t[2]) /\ y \in YearsOf(t[2])
    BY DEF Taken, Counted
<1>4. t \in Taken(y)' <=> row'[t[1]] = Counted(t[2]) /\ y \in YearsOf(t[2])
    BY DEF Taken, Counted, YearsOf
<1>5. t[1] = l
    BY <1>1, <1>2, <1>3, <1>4 DEF TypeOK
<1>6. row'[l] = v
    BY DEF TypeOK
<1> QED
    BY <1>1, <1>2, <1>3, <1>4, <1>5, <1>6

\* The same table counts the same leaves.
LEMMA SameRows == ASSUME UNCHANGED row, NEW y PROVE Taken(y)' = Taken(y)
    BY DEF Taken, YearsOf

-----------------------------------------------------------------------------
(* Types                                                                   *)

\* The initial state is well typed.
LEMMA IInvInit == Init => IInv
    BY DEF Init, IInv, TypeOK, Informed

\* The row a form is written as.
LEMMA FormRowType ==
    ASSUME NEW r \in Requests, form[r] \in Form
    PROVE  FormRow(r) \in Row
    BY NamesAssumption DEF FormRow, Form, Row, StatusOf

\* Every step keeps the types and what requests know.
LEMMA IInvStep == IInv /\ [Next]_vars => IInv'
<1> SUFFICES ASSUME IInv, [Next]_vars PROVE IInv'
    OBVIOUS
<1> USE NamesAssumption DEF IInv, TypeOK, Informed
<1>1. CASE \E r \in Requests, f \in Form : StartCreate(r, f)
    BY <1>1 DEF StartCreate, Goto
<1>2. CASE \E r \in Requests, l \in Leaves, f \in Form : StartUpdate(r, l, f)
    BY <1>2 DEF StartUpdate, Goto, Live
<1>3. CASE \E r \in Requests : CheckDuplicate(r)
    <2>1. PICK r \in Requests : CheckDuplicate(r)
        BY <1>3
    <2>2. YearsOf(form[r].period) \subseteq Years
        BY <2>1, YearsOfPeriod DEF CheckDuplicate, Form
    <2> QED
        BY <2>1, <2>2 DEF CheckDuplicate, Goto
<1>4. CASE \E r \in Requests : CheckHajj(r)
    BY <1>4 DEF CheckHajj, Goto
<1>5. CASE \E r \in Requests, y \in Years : CheckUnpaid(r, y)
    BY <1>5 DEF CheckUnpaid, Goto
<1>6. CASE \E r \in Requests : Refuse(r)
    BY <1>6 DEF Refuse, Fail, Goto, Forget
<1>7. CASE \E r \in Requests, l \in Leaves : InsertRow(r, l)
    <2>1. PICK r \in Requests, l \in Leaves : InsertRow(r, l)
        BY <1>7
    <2>2. FormRow(r) \in Row /\ YearsOf(form[r].period) \subseteq Years
        BY <2>1, YearsOfPeriod, FormRowType DEF InsertRow, Form
    <2> QED
        BY <2>1, <2>2 DEF InsertRow, Recalculate, Goto, Forget
<1>8. CASE \E r \in Requests : UpdateRow(r)
    <2>1. PICK r \in Requests : UpdateRow(r)
        BY <1>8
    <2>2. before[r].period \in Periods /\ form[r].period \in Periods
        BY <2>1 DEF UpdateRow, Row, Form
    <2>3. FormRow(r) \in Row /\ YearsOf(Hull(before[r].period, form[r].period)) \subseteq Years
        BY <2>1, <2>2, YearsOfHull, FormRowType DEF UpdateRow
    <2> QED
        BY <2>1, <2>3 DEF UpdateRow, Recalculate, Goto, Forget
<1>9. CASE \E r \in Requests, l \in Leaves : StartDelete(r, l)
    BY <1>9 DEF StartDelete, Goto, Live
<1>10. CASE \E r \in Requests : DeleteRow(r)
    <2>1. PICK r \in Requests : DeleteRow(r)
        BY <1>10
    <2>2. before[r].period \in Periods
        BY <2>1 DEF DeleteRow, Row
    <2>3. YearsOf(before[r].period) \subseteq Years
        BY <2>2, YearsOfPeriod
    <2> QED
        BY <2>1, <2>3 DEF DeleteRow, Recalculate, Goto, Forget
<1>11. CASE \E r \in Requests : RowIsGone(r)
    BY <1>11 DEF RowIsGone, Fail, Goto, Forget
<1>12. CASE \E r \in Requests, l \in Leaves, v \in {"APPROVED", "REJECTED"} : Review(r, l, v)
    <2>1. PICK r \in Requests, l \in Leaves, v \in {"APPROVED", "REJECTED"} : Review(r, l, v)
        BY <1>12
    <2>2. row[l].period \in Periods /\ Reviewed(l, v) \in Row
        BY <2>1 DEF Review, Reviewed, Live, Row
    <2>3. YearsOf(row[l].period) \subseteq Years
        BY <2>2, YearsOfPeriod
    <2> QED
        BY <2>1, <2>2, <2>3 DEF Review, Recalculate, Goto, Forget
<1>13. CASE \E r \in Requests, y \in Years : Consult(r, y)
    BY <1>13 DEF Consult, Recalculate, Goto, Forget
<1>14. CASE \E r \in Requests, y \in Years : RecalcReads(r, y)
    BY <1>14 DEF RecalcReads, Taken
<1>15. CASE \E r \in Requests, y \in Years : RecalcSaves(r, y)
    BY <1>15 DEF RecalcSaves, Goto
<1>16. CASE \E r \in Requests : Breaks(r)
    BY <1>16 DEF Breaks, Goto, Forget
<1>17. CASE UNCHANGED vars
    BY <1>17 DEF vars, request
<1> QED
    BY <1>1, <1>2, <1>3, <1>4, <1>5, <1>6, <1>7, <1>8, <1>9, <1>10,
       <1>11, <1>12, <1>13, <1>14, <1>15, <1>16, <1>17 DEF Next

\* Types and what requests know hold in every reachable state.
LEMMA IInvAlways == Spec => []IInv
    BY IInvInit, IInvStep, PTL DEF Spec

\* The rows, balances and requests always have their types; in particular a
\* recalculation only visits years of the calendar.
THEOREM TypeCorrect == Spec => []TypeOK
<1>1. IInv => TypeOK
    BY DEF IInv
<1> QED
    BY <1>1, IInvAlways, PTL
-----------------------------------------------------------------------------
(* Balances                                                                *)

\* Request r is going to recalculate year y, or did not know the row it wrote.
Answers(r, y) ==
    /\ phase'[r] # phase[r]
    /\ \/ StaleReading(r)
       \/ phase'[r] = "recalc" /\ y \in todo'[r]

\* A step that changes the leaves of a year is answered by its request.
LEMMA ChangeStep ==
    ASSUME IInv, [Next]_vars, NEW y \in Years, Taken(y)' # Taken(y)
    PROVE  \E r \in Requests : Answers(r, y)
<1>t. TypeOK
    BY DEF IInv
<1>r. \A p \in Periods : Counted(p) \in Row
    BY DEF Counted, Row, LeaveTypes
<1>c. \A p \in Periods : Counted(p) # Unused /\ Counted(p) # Deleted
    BY <1>r, NamesAssumption
<1> SUFFICES ASSUME row' # row PROVE \E r \in Requests : Answers(r, y)
    BY SameRows
<1>1. CASE \E r \in Requests, l \in Leaves : InsertRow(r, l)
    <2>1. PICK r \in Requests, l \in Leaves : InsertRow(r, l)
        BY <1>1
    <2>2. PICK p \in Periods :
            y \in YearsOf(p) /\ (row[l] = Counted(p) \/ FormRow(r) = Counted(p))
        <3>1. row' = [row EXCEPT ![l] = FormRow(r)]
            BY <2>1 DEF InsertRow
        <3> QED
            BY <1>t, <3>1, RowChange
    <2>3. row[l] = Unused
        BY <2>1 DEF InsertRow
    <2>4. FormRow(r) = Counted(p)
        BY <1>c, <2>2, <2>3
    <2>5. form[r].kind = "ANNUEL" /\ form[r].mode # "pending" /\ form[r].period = p
        BY <2>4 DEF FormRow, Counted, StatusOf
    <2>6. phase'[r] = "recalc" /\ todo'[r] = YearsOf(p)
        BY <1>t, <2>1, <2>2, <2>5 DEF InsertRow, Recalculate, Goto, TypeOK
    <2> QED
        BY <2>1, <2>2, <2>6 DEF InsertRow, Answers
<1>2. CASE \E r \in Requests : UpdateRow(r)
    <2>1. PICK r \in Requests : UpdateRow(r)
        BY <1>2
    <2> DEFINE l == target[r]
    <2>2. PICK p \in Periods :
            y \in YearsOf(p) /\ (row[l] = Counted(p) \/ FormRow(r) = Counted(p))
        <3>1. l \in Leaves /\ row' = [row EXCEPT ![l] = FormRow(r)]
            BY <1>t, <2>1 DEF UpdateRow, TypeOK
        <3> QED
            BY <1>t, <3>1, RowChange
    <2>3. CASE StaleReading(r)
        BY <1>t, <2>1, <2>2, <2>3 DEF UpdateRow, Recalculate, Goto, Answers, TypeOK
    <2>4. CASE ~StaleReading(r)
        <3>1. row[l] = before[r] /\ before[r] \in Row /\ form[r] \in Form
            BY <2>1, <2>4 DEF UpdateRow, StaleReading, IInv, Informed
        <3>2. before[r].period \in Periods /\ form[r].period \in Periods
            BY <3>1 DEF Row, Form
        <3>3. p = before[r].period \/ p = form[r].period
            BY <2>2, <3>1 DEF Counted, FormRow
        <3>4. y \in YearsOf(Hull(before[r].period, form[r].period))
            BY <2>2, <3>2, <3>3, YearsOfHull
        <3>5. phase'[r] = "recalc"
              /\ todo'[r] = YearsOf(Hull(before[r].period, form[r].period))
            BY <1>t, <2>1, <3>4 DEF UpdateRow, Recalculate, Goto, TypeOK
        <3> QED
            BY <2>1, <3>4, <3>5 DEF UpdateRow, Answers
    <2> QED
        BY <2>3, <2>4
<1>3. CASE \E r \in Requests : DeleteRow(r)
    <2>1. PICK r \in Requests : DeleteRow(r)
        BY <1>3
    <2> DEFINE l == target[r]
    <2>2. PICK p \in Periods :
            y \in YearsOf(p) /\ (row[l] = Counted(p) \/ Deleted = Counted(p))
        <3>1. l \in Leaves /\ row' = [row EXCEPT ![l] = Deleted]
            BY <2>1 DEF DeleteRow, IInv, Informed
        <3> QED
            BY <1>t, <3>1, RowChange
    <2>3. row[l] = Counted(p)
        BY <1>c, <2>2
    <2>4. CASE StaleReading(r)
        BY <1>t, <2>1, <2>2, <2>4 DEF DeleteRow, Recalculate, Goto, Answers, TypeOK
    <2>5. CASE ~StaleReading(r)
        <3>1. l # Unused
            BY <2>1, NamesAssumption DEF DeleteRow, IInv, Informed
        <3>2. row[l] = before[r]
            BY <2>5, <3>1 DEF StaleReading
        <3>3. before[r].kind = "ANNUEL" /\ before[r].period = p
            BY <2>3, <3>2 DEF Counted
        <3>4. phase'[r] = "recalc" /\ todo'[r] = YearsOf(p)
            BY <1>t, <2>1, <2>2, <3>3 DEF DeleteRow, Recalculate, Goto, TypeOK
        <3> QED
            BY <2>1, <2>2, <3>4 DEF DeleteRow, Answers
    <2> QED
        BY <2>4, <2>5
<1>4. CASE \E r \in Requests, l \in Leaves, v \in {"APPROVED", "REJECTED"} : Review(r, l, v)
    <2>1. PICK r \in Requests, l \in Leaves, v \in {"APPROVED", "REJECTED"} : Review(r, l, v)
        BY <1>4
    <2>2. PICK p \in Periods :
            y \in YearsOf(p) /\ (row[l] = Counted(p) \/ Reviewed(l, v) = Counted(p))
        <3>1. row' = [row EXCEPT ![l] = Reviewed(l, v)]
            BY <2>1 DEF Review
        <3> QED
            BY <1>t, <3>1, RowChange
    <2>3. row[l].kind = "ANNUEL" /\ row[l].period = p
        BY <2>2 DEF Reviewed, Counted
    <2>4. phase'[r] = "recalc" /\ todo'[r] = YearsOf(p)
        BY <1>t, <2>1, <2>2, <2>3 DEF Review, Recalculate, Goto, TypeOK
    <2> QED
        BY <2>1, <2>2, <2>4 DEF Review, Answers
<1>5. CASE \/ \E r \in Requests, f \in Form : StartCreate(r, f)
           \/ \E r \in Requests, l \in Leaves, f \in Form : StartUpdate(r, l, f)
           \/ \E r \in Requests : \/ CheckDuplicate(r) \/ CheckHajj(r) \/ Refuse(r)
                                  \/ RowIsGone(r) \/ Breaks(r)
           \/ \E r \in Requests, d \in Years : CheckUnpaid(r, d) \/ Consult(r, d)
           \/ \E r \in Requests, l \in Leaves : StartDelete(r, l)
           \/ \E r \in Requests, d \in Years : RecalcReads(r, d) \/ RecalcSaves(r, d)
           \/ UNCHANGED vars
    BY <1>5 DEF StartCreate, StartUpdate, CheckDuplicate, CheckHajj, Refuse, Fail, RowIsGone,
                CheckUnpaid, Consult, StartDelete, RecalcReads, RecalcSaves, Breaks, vars
<1> QED
    BY <1>1, <1>2, <1>3, <1>4, <1>5 DEF Next

\* Every change of the leaves that count in a year is followed by the
\* recalculation of that year, stale updates and deletions excepted.
THEOREM ChangesRecalculated == Spec => ChangeIsRecalculated
<1>1. IInv /\ [Next]_vars
        => [\A y \in Years :
             Taken(y)' # Taken(y)
               => \E r \in Requests :
                    /\ phase'[r] # phase[r]
                    /\ \/ StaleReading(r)
                       \/ phase'[r] = "recalc" /\ y \in todo'[r]]_vars
    BY ChangeStep DEF Answers
<1> QED
    BY <1>1, IInvAlways, PTL DEF Spec, ChangeIsRecalculated
-----------------------------------------------------------------------------
(* One request at a time                                                   *)

\* As long as no two requests overlapped, one at most is in flight.
Single ==
    \A q, r \in Requests : phase[q] # "idle" /\ phase[r] # "idle" => q = r

\* What request r has read is what the table holds.
Fresh(r) ==
    /\ target[r] # Unused => row[target[r]] = before[r]
    /\ phase[r] = "save" => \A y \in Years : First(todo[r], y) => snapshot[r] = Taken(y)

\* Year y is on the list of a recalculation.
Awaited(y) == \E r \in Requests : phase[r] \in {"recalc", "save"} /\ y \in todo[r]

\* A balance is right, or is about to be recalculated, or has been left.
Balanced ==
    /\ \A r \in Requests : Fresh(r)
    /\ \A y \in Years : balance[y] = Taken(y) \/ Awaited(y) \/ y \in owing

BInv == ~overlapped => Single /\ Balanced

\* Request r rests before and after the step, and remembers nothing.
Rests(r) == phase[r] = "idle" /\ phase'[r] = "idle" /\ target'[r] = Unused

\* The others rest while r takes a step, up to the first overlap.
OnlyActs(r) == \A q \in Requests : q = r \/ Rests(q)

\* r writes the table.
Writes(r) ==
    \/ \E l \in Leaves : InsertRow(r, l) \/ \E v \in {"APPROVED", "REJECTED"} : Review(r, l, v)
    \/ UpdateRow(r) \/ DeleteRow(r)

\* r has its rules validated, or begins.
Checks(r) ==
    \/ \E f \in Form : StartCreate(r, f) \/ \E l \in Leaves : StartUpdate(r, l, f)
    \/ CheckDuplicate(r) \/ CheckHajj(r) \/ Refuse(r) \/ RowIsGone(r)
    \/ \E y \in Years : CheckUnpaid(r, y) \/ Consult(r, y)
    \/ \E l \in Leaves : StartDelete(r, l)

\* r recalculates a balance.
Recalculates(r) == \E y \in Years : RecalcReads(r, y) \/ RecalcSaves(r, y)

\* Taken at the initial state is empty.
LEMMA BInvInit == Init => BInv
<1> SUFFICES ASSUME Init PROVE BInv
    OBVIOUS
<1> USE DEF Init
<1>1. \A p \in Periods : Counted(p) # Unused
    BY NamesAssumption DEF Counted, Row, LeaveTypes
<1>2. \A y \in Years : Taken(y) = {}
    BY <1>1 DEF Taken, Counted
<1> QED
    BY <1>2 DEF BInv, Single, Balanced, Fresh

\* Until requests overlap, the step of one is taken while the others rest.
LEMMA OneActs ==
    ASSUME IInv, BInv, Next, ~overlapped'
    PROVE  ~overlapped /\ \E r \in Requests :
             OnlyActs(r) /\ (Writes(r) \/ Checks(r) \/ Recalculates(r) \/ Breaks(r))
<1> USE DEF IInv, TypeOK, OnlyActs, Rests
<1>i. \A q \in Requests : phase[q] = "idle" => target[q] = Unused
    BY DEF Informed
<1>1. ASSUME NEW r \in Requests, NEW p, NEW t, Goto(r, p, t),
             \A q \in Requests \ {r} : target'[q] = target[q]
      PROVE  ~overlapped /\ OnlyActs(r)
    BY <1>i, <1>1 DEF Goto
<1>2. ASSUME NEW r \in Requests, NEW f \in Form, StartCreate(r, f)
      PROVE  ~overlapped /\ OnlyActs(r)
    BY <1>1, <1>2 DEF StartCreate
<1>3. ASSUME NEW r \in Requests, NEW l \in Leaves, NEW f \in Form, StartUpdate(r, l, f)
      PROVE  ~overlapped /\ OnlyActs(r)
    BY <1>1, <1>3 DEF StartUpdate
<1>4. ASSUME NEW r \in Requests, CheckDuplicate(r)
      PROVE  ~overlapped /\ OnlyActs(r)
    BY <1>1, <1>4 DEF CheckDuplicate
<1>5. ASSUME NEW r \in Requests, CheckHajj(r)
      PROVE  ~overlapped /\ OnlyActs(r)
    BY <1>1, <1>5 DEF CheckHajj
<1>6. ASSUME NEW r \in Requests, NEW y \in Years, CheckUnpaid(r, y)
      PROVE  ~overlapped /\ OnlyActs(r)
    BY <1>1, <1>6 DEF CheckUnpaid
<1>7. ASSUME NEW r \in Requests, Refuse(r) \/ RowIsGone(r)
      PROVE  ~overlapped /\ OnlyActs(r)
    BY <1>1, <1>7 DEF Refuse, RowIsGone, Fail, Forget
<1>8. ASSUME NEW r \in Requests, NEW years, Recalculate(r, years)
      PROVE  ~overlapped /\ OnlyActs(r)
    BY <1>1, <1>8 DEF Recalculate, Forget
<1>9. ASSUME NEW r \in Requests, NEW l \in Leaves, InsertRow(r, l)
      PROVE  ~overlapped /\ OnlyActs(r)
    BY <1>8, <1>9 DEF InsertRow
<1>10. ASSUME NEW r \in Requests, UpdateRow(r) \/ DeleteRow(r)
      PROVE  ~overlapped /\ OnlyActs(r)
    BY <1>8, <1>10 DEF UpdateRow, DeleteRow
<1>11. ASSUME NEW r \in Requests, NEW l \in Leaves, StartDelete(r, l)
      PROVE  ~overlapped /\ OnlyActs(r)
    BY <1>1, <1>11 DEF StartDelete
<1>12. ASSUME NEW r \in Requests, NEW l \in Leaves, NEW v, Review(r, l, v)
      PROVE  ~overlapped /\ OnlyActs(r)
    BY <1>8, <1>12 DEF Review
<1>13. ASSUME NEW r \in Requests, NEW y \in Years, Consult(r, y)
      PROVE  ~overlapped /\ OnlyActs(r)
    BY <1>8, <1>13 DEF Consult
<1>14. ASSUME NEW r \in Requests, NEW y \in Years, RecalcReads(r, y)
      PROVE  ~overlapped /\ OnlyActs(r)
    BY <1>i, <1>14 DEF RecalcReads, BInv, Single
<1>15. ASSUME NEW r \in Requests, NEW y \in Years, RecalcSaves(r, y)
      PROVE  ~overlapped /\ OnlyActs(r)
    BY <1>1, <1>15 DEF RecalcSaves
<1>16. ASSUME NEW r \in Requests, Breaks(r)
      PROVE  ~overlapped /\ OnlyActs(r)
    BY <1>1, <1>16 DEF Breaks, Forget
<1> HIDE DEF OnlyActs
<1> QED
    BY <1>2, <1>3, <1>4, <1>5, <1>6, <1>7, <1>9, <1>10, <1>11, <1>12, <1>13, <1>14,
       <1>15, <1>16 DEF Next, Writes, Checks, Recalculates

\* Until requests overlap, every step keeps what its request has read fresh,
\* and every balance right or awaited.
LEMMA BInvStep ==
    ASSUME IInv, BInv, [Next]_vars PROVE BInv'
<1>t. TypeOK
    BY DEF IInv
<1>0. CASE UNCHANGED vars
    BY <1>0 DEF vars, request, BInv, Single, Balanced, Fresh, Awaited, Taken, YearsOf, First
<1> SUFFICES ASSUME Next, ~overlapped' PROVE Single' /\ Balanced'
    BY <1>0 DEF BInv
<1>a. ~overlapped /\ \E r \in Requests :
        OnlyActs(r) /\ (Writes(r) \/ Checks(r) \/ Recalculates(r) \/ Breaks(r))
    BY OneActs
<1> PICK r \in Requests : OnlyActs(r) /\ (Writes(r) \/ Checks(r) \/ Recalculates(r) \/ Breaks(r))
    BY <1>a
<1>b. Balanced
    BY <1>a DEF BInv
<1>o. \A q \in Requests : q # r => Rests(q)
    BY DEF OnlyActs
<1>s. Single'
    BY <1>o DEF Single, Rests
<1>f. ASSUME NEW q \in Requests, q # r PROVE Fresh(q)'
    BY <1>o, <1>f DEF Fresh, Rests
<1>1. CASE Writes(r)
    <2>1. UNCHANGED <<balance, owing>>
        BY <1>1 DEF Writes, InsertRow, UpdateRow, DeleteRow, Review, Recalculate
    <2>2. /\ phase[r] \in {"write", "delete", "idle"}
          /\ target'[r] = Unused
          /\ phase'[r] \in {"idle", "recalc"}
        BY <1>t, <1>1
        DEF Writes, InsertRow, UpdateRow, DeleteRow, Review, Recalculate, Goto, Forget, TypeOK
    <2>3. \A q \in Requests : Fresh(q)'
        BY <1>f, <2>2 DEF Fresh
    <2>4. ASSUME NEW y \in Years PROVE balance'[y] = Taken(y)' \/ Awaited(y)' \/ y \in owing'
        <3>1. CASE Taken(y)' = Taken(y)
            BY <1>b, <1>o, <2>1, <2>2, <3>1 DEF Balanced, Awaited, Rests
        <3>2. CASE Taken(y)' # Taken(y)
            <4>1. PICK q \in Requests : Answers(q, y)
                BY <3>2, ChangeStep
            <4>2. ~StaleReading(q)
                BY <1>b DEF Balanced, Fresh, StaleReading
            <4> QED
                BY <4>1, <4>2 DEF Answers, Awaited
        <3> QED
            BY <3>1, <3>2
    <2> QED
        BY <1>s, <2>3, <2>4 DEF Balanced
<1>2. CASE \E y \in Years : RecalcSaves(r, y)
    <2>1. PICK y \in Years : RecalcSaves(r, y)
        BY <1>2
    <2>2. \A z \in Years : Taken(z)' = Taken(z)
        BY <2>1, SameRows DEF RecalcSaves
    <2>3. balance' = [balance EXCEPT ![y] = Taken(y)]
        BY <1>b, <2>1 DEF RecalcSaves, Balanced, Fresh
    <2>4. /\ todo'[r] = todo[r] \ {y}
          /\ phase'[r] = IF todo[r] = {y} THEN "idle" ELSE "recalc"
          /\ target'[r] = target[r]
          /\ owing' = owing \ {y}
          /\ UNCHANGED <<row, before>>
        BY <1>t, <2>1 DEF RecalcSaves, Goto, TypeOK
    <2>5. \A q \in Requests : Fresh(q)'
        BY <1>b, <1>f, <2>4 DEF Fresh, Balanced
    <2>6. ASSUME NEW z \in Years PROVE balance'[z] = Taken(z)' \/ Awaited(z)' \/ z \in owing'
        <3>1. CASE z = y
            BY <1>t, <2>2, <2>3, <3>1 DEF TypeOK
        <3>2. CASE z # y
            BY <1>b, <1>o, <1>t, <2>2, <2>3, <2>4, <3>2 DEF Balanced, Awaited, TypeOK, Rests
        <3> QED
            BY <3>1, <3>2
    <2> QED
        BY <1>s, <2>5, <2>6 DEF Balanced
<1>3. CASE \E y \in Years : RecalcReads(r, y)
    <2>1. PICK y \in Years : RecalcReads(r, y)
        BY <1>3
    <2>2. \A z \in Years : Taken(z)' = Taken(z)
        BY <2>1, SameRows DEF RecalcReads
    <2>3. /\ phase'[r] = "save"
          /\ snapshot'[r] = Taken(y)
          /\ UNCHANGED <<todo, target, before, row, balance, owing>>
        BY <1>t, <2>1 DEF RecalcReads, TypeOK
    <2>4. \A z \in Years : First(todo[r], z) => z = y
        <3>1. Years \subseteq Int
            BY CalendarAssumption DEF Years
        <3> QED
            BY <2>1, <3>1 DEF RecalcReads, First
    <2>5. \A q \in Requests : Fresh(q)'
        BY <1>b, <1>f, <2>2, <2>3, <2>4 DEF Fresh, Balanced, First
    <2>6. \A z \in Years : balance'[z] = Taken(z)' \/ Awaited(z)' \/ z \in owing'
        BY <1>b, <1>o, <2>2, <2>3 DEF Balanced, Awaited, Rests
    <2> QED
        BY <1>s, <2>5, <2>6 DEF Balanced
<1>4. CASE Checks(r)
    <2>1. UNCHANGED <<row, balance, owing>>
        BY <1>4 DEF Checks, StartCreate, StartUpdate, CheckDuplicate, CheckHajj, Refuse, Fail,
                    RowIsGone, CheckUnpaid, Consult, StartDelete, Recalculate
    <2>2. \A z \in Years : Taken(z)' = Taken(z)
        BY <2>1, SameRows
    <2>3. /\ phase[r] \notin {"recalc", "save"}
          /\ phase'[r] # "save"
          /\ \/ target'[r] = target[r] /\ before'[r] = before[r]
             \/ target'[r] = Unused
             \/ before'[r] = row[target'[r]]
        BY <1>t, <1>4
        DEF Checks, StartCreate, StartUpdate, CheckDuplicate, CheckHajj, Refuse, RowIsGone,
            Fail, Forget, CheckUnpaid, Consult, Recalculate, StartDelete, Goto, TypeOK
    <2>4. \A q \in Requests : Fresh(q)'
        BY <1>b, <1>f, <2>1, <2>3 DEF Fresh, Balanced
    <2>5. \A z \in Years : balance'[z] = Taken(z)' \/ Awaited(z)' \/ z \in owing'
        BY <1>b, <1>o, <2>1, <2>2, <2>3 DEF Balanced, Awaited, Rests
    <2> QED
        BY <1>s, <2>4, <2>5 DEF Balanced
<1>5. CASE Breaks(r)
    <2>1. /\ UNCHANGED <<row, balance>>
          /\ phase'[r] = "idle" /\ target'[r] = Unused
          /\ owing' = owing \cup IF phase[r] \in {"recalc", "save"} THEN todo[r] ELSE {}
        BY <1>t, <1>5 DEF Breaks, Goto, Forget, TypeOK
    <2>2. \A z \in Years : Taken(z)' = Taken(z)
        BY <2>1, SameRows
    <2>3. \A q \in Requests : Fresh(q)'
        BY <1>f, <2>1 DEF Fresh
    <2>4. \A z \in Years : balance'[z] = Taken(z)' \/ Awaited(z)' \/ z \in owing'
        BY <1>b, <1>o, <2>1, <2>2 DEF Balanced, Awaited, Rests
    <2> QED
        BY <1>s, <2>3, <2>4 DEF Balanced
<1> QED
    BY <1>1, <1>2, <1>3, <1>4, <1>5 DEF Recalculates

LEMMA BInvAlways == Spec => []BInv
<1>1. IInv /\ BInv /\ [Next]_vars => BInv'
    BY BInvStep
<1> QED
    BY <1>1, IInvAlways, BInvInit, PTL DEF Spec

\* As long as no two requests have overlapped, the balances are right whenever
\* no request is in flight, those of the years a failed request left excepted.
THEOREM BalancesRight == Spec => []BalanceIsRight
<1>1. BInv => BalanceIsRight
    BY DEF BInv, Balanced, Awaited, BalanceIsRight
<1> QED
    BY <1>1, BInvAlways, PTL
-----------------------------------------------------------------------------
(* Rules                                                                   *)

\* The years of its form a request has not checked yet.
Unchecked(r) == IF phase[r] = "rules" THEN todo[r] ELSE {}

\* What validateLeaveRules has found still holds when the row is written.
Validated(r) ==
    /\ phase[r] = "rules" => form[r].kind = "SANS_SOLDE" \/ todo[r] = {}
    /\ phase[r] \in {"rules", "write"} /\ form[r] # Unused =>
         /\ ~IsDuplicate(r)
         /\ \A y \in YearsOf(form[r].period) \ Unchecked(r) : ~OverQuota(r, y)
    /\ phase[r] = "write" /\ form[r] # Unused => ~HajjTaken(r)

RInv == ~overlapped => \A r \in Requests : Validated(r)

\* A form that is too long is refused before any other rule is checked.
ShortForms == \A r \in Requests : phase[r] \in {"rules", "write"} => ~TooLong(r)

LEMMA RInvStep ==
    ASSUME IInv, BInv, RInv, [Next]_vars PROVE RInv'
<1>t. TypeOK
    BY DEF IInv
<1>r. ASSUME NEW q \in Requests, UNCHANGED row, target'[q] = target[q], form'[q] = form[q]
      PROVE  /\ IsDuplicate(q)' = IsDuplicate(q) /\ HajjTaken(q)' = HajjTaken(q)
             /\ \A y \in Years : OverQuota(q, y)' = OverQuota(q, y)
             /\ YearsOf(form[q].period)' = YearsOf(form[q].period)
    BY <1>r DEF IsDuplicate, HajjTaken, OverQuota, DaysOf, DaysIn, Granted, Others, Live, YearsOf
<1>y. ASSUME NEW q \in Requests, phase[q] \in {"rules", "write"}
      PROVE  YearsOf(form[q].period) \subseteq Years
    BY <1>y, YearsOfPeriod DEF IInv, Informed, Form
<1>0. CASE UNCHANGED vars
    <2>1. ASSUME NEW q \in Requests, Validated(q) PROVE Validated(q)'
        <3>1. UNCHANGED <<row, phase, target, form, todo>>
            BY <1>0 DEF vars, request
        <3>2. /\ IsDuplicate(q)' = IsDuplicate(q) /\ HajjTaken(q)' = HajjTaken(q)
              /\ \A y \in Years : OverQuota(q, y)' = OverQuota(q, y)
              /\ YearsOf(form[q].period)' = YearsOf(form[q].period)
            BY <1>r, <3>1
        <3> QED
            BY <1>y, <2>1, <3>1, <3>2 DEF Validated, Unchecked
    <2> QED
        BY <1>0, <2>1 DEF RInv, vars
<1> SUFFICES ASSUME Next, ~overlapped' PROVE \A q \in Requests : Validated(q)'
    BY <1>0 DEF RInv
<1>a. ~overlapped /\ \E r \in Requests :
        OnlyActs(r) /\ (Writes(r) \/ Checks(r) \/ Recalculates(r) \/ Breaks(r))
    BY OneActs
<1> PICK r \in Requests :
        OnlyActs(r) /\ (Writes(r) \/ Checks(r) \/ Recalculates(r) \/ Breaks(r))
    BY <1>a
<1>b. Validated(r)
    BY <1>a DEF RInv
<1>f. ASSUME NEW q \in Requests, q # r PROVE Validated(q)'
    BY <1>f DEF OnlyActs, Rests, Validated
<1> SUFFICES Validated(r)'
    BY <1>f
<1>1. CASE Writes(r) \/ Breaks(r)
    <2>1. phase'[r] \in {"idle", "recalc"}
        BY <1>t, <1>1
        DEF Writes, InsertRow, UpdateRow, DeleteRow, Review, Breaks, Recalculate, Goto, TypeOK
    <2> QED
        BY <2>1 DEF Validated
<1>2. CASE Recalculates(r)
    <2>1. phase'[r] \in {"idle", "recalc", "save"}
        BY <1>t, <1>2 DEF Recalculates, RecalcReads, RecalcSaves, Goto, TypeOK
    <2> QED
        BY <2>1 DEF Validated
<1>3. CASE CheckDuplicate(r)
    <2>1. /\ UNCHANGED <<row, target, form>>
          /\ ~IsDuplicate(r)
          /\ phase[r] = "duplicate"
          /\ phase'[r] = IF form[r].kind \in {"HAJJ", "SANS_SOLDE"} THEN "rules" ELSE "write"
          /\ todo'[r] = IF form[r].kind = "SANS_SOLDE" THEN YearsOf(form[r].period) ELSE {}
        BY <1>t, <1>3 DEF CheckDuplicate, Goto, TypeOK
    <2>2. ~IsDuplicate(r)' /\ HajjTaken(r)' = HajjTaken(r)
          /\ (\A y \in Years : OverQuota(r, y)' = OverQuota(r, y))
          /\ YearsOf(form[r].period)' = YearsOf(form[r].period)
        BY <1>r, <2>1
    <2>3. YearsOf(form[r].period) \subseteq Years
        BY <2>1, YearsOfPeriod DEF IInv, Informed, Form
    <2>4. CASE form[r].kind = "SANS_SOLDE"
        BY <2>1, <2>2, <2>4 DEF Validated, Unchecked
    <2>5. CASE form[r].kind # "SANS_SOLDE"
        <3>1. \A y \in Years : ~OverQuota(r, y)
            BY <2>5 DEF OverQuota
        <3>2. phase'[r] = "write" => ~HajjTaken(r)
            BY <2>1, <2>5 DEF HajjTaken
        <3> QED
            BY <2>1, <2>2, <2>3, <2>5, <3>1, <3>2 DEF Validated
    <2> QED
        BY <2>4, <2>5
<1>4. CASE CheckHajj(r) \/ \E y \in Years : CheckUnpaid(r, y)
    <2>1. /\ UNCHANGED <<row, target, form>>
          /\ phase[r] = "rules"
          /\ form[r].kind = "HAJJ" => ~HajjTaken(r)
          /\ phase'[r] \in {"rules", "write"}
          /\ phase'[r] = "rules" => form[r].kind = "SANS_SOLDE"
        BY <1>b, <1>t, <1>4 DEF CheckHajj, CheckUnpaid, Goto, TypeOK, Validated, First
    <2>2. /\ IsDuplicate(r)' = IsDuplicate(r) /\ HajjTaken(r)' = HajjTaken(r)
          /\ \A y \in Years : OverQuota(r, y)' = OverQuota(r, y)
          /\ YearsOf(form[r].period)' = YearsOf(form[r].period)
        BY <1>r, <2>1
    <2>3. form[r] # Unused /\ YearsOf(form[r].period) \subseteq Years
        BY <1>y, <2>1, NamesAssumption DEF IInv, Informed
    <2>4. \A y \in YearsOf(form[r].period) \ Unchecked(r)' : ~OverQuota(r, y)
        <3>1. CASE CheckHajj(r)
            BY <3>1 DEF CheckHajj, OverQuota
        <3>2. ASSUME NEW y \in Years, CheckUnpaid(r, y)
              PROVE  \A z \in YearsOf(form[r].period) \ Unchecked(r)' : ~OverQuota(r, z)
            <4>1. Unchecked(r)' = todo[r] \ {y} /\ ~OverQuota(r, y)
                BY <1>t, <3>2 DEF CheckUnpaid, Goto, TypeOK, Unchecked
            <4>2. \A z \in YearsOf(form[r].period) \ todo[r] : ~OverQuota(r, z)
                BY <1>b, <2>1, <2>3 DEF Validated, Unchecked
            <4> QED
                BY <4>1, <4>2
        <3> QED
            BY <1>4, <3>1, <3>2
    <2>5. HajjTaken(r) => phase'[r] # "write" \/ form[r].kind = "HAJJ"
        BY DEF HajjTaken
    <2> QED
        BY <1>b, <2>1, <2>2, <2>3, <2>4, <2>5 DEF Validated
<1>5. CASE Checks(r) /\ phase'[r] \notin {"rules", "write"}
    BY <1>5 DEF Validated
<1> QED
    <2>1. ASSUME Checks(r), ~CheckDuplicate(r), ~CheckHajj(r), ~\E y \in Years : CheckUnpaid(r, y)
          PROVE  phase'[r] \notin {"rules", "write"}
        BY <1>t, <2>1
        DEF Checks, StartCreate, StartUpdate, Refuse, RowIsGone, Fail, Consult, Recalculate,
            StartDelete, Goto, TypeOK
    <2> QED
        BY <1>1, <1>2, <1>3, <1>4, <1>5, <2>1

\* The check of the length stands, whatever the other requests do.
LEMMA ShortFormsStep ==
    ASSUME IInv, ShortForms, [Next]_vars PROVE ShortForms'
<1> SUFFICES ASSUME NEW r \in Requests, phase'[r] \in {"rules", "write"} PROVE ~TooLong(r)'
    BY DEF ShortForms
<1>1. CASE phase[r] \in {"rules", "write"} /\ form'[r] = form[r]
    BY <1>1 DEF ShortForms, TooLong, Length
<1>2. CASE CheckDuplicate(r)
    BY <1>2 DEF CheckDuplicate, TooLong, Length
<1>3. CASE ~CheckDuplicate(r)
    <2> USE <1>3 DEF IInv, TypeOK
    <2>1. CASE UNCHANGED vars
        BY <1>1, <2>1 DEF vars, request
    <2>2. ASSUME NEW q \in Requests, NEW f \in Form,
                 StartCreate(q, f) \/ \E l \in Leaves : StartUpdate(q, l, f)
          PROVE  phase[r] = phase'[r] /\ form'[r] = form[r]
        BY <2>2 DEF StartCreate, StartUpdate, Goto
    <2>3. ASSUME NEW q \in Requests, CheckDuplicate(q) \/ CheckHajj(q)
          PROVE  phase[r] \in {"rules", "write"} /\ form'[r] = form[r]
        BY <2>3 DEF CheckDuplicate, CheckHajj, Goto
    <2>4. ASSUME NEW q \in Requests, NEW y \in Years,
                 CheckUnpaid(q, y) \/ RecalcReads(q, y) \/ RecalcSaves(q, y)
          PROVE  phase[r] \in {"rules", "write"} /\ form'[r] = form[r]
        BY <2>4 DEF CheckUnpaid, RecalcReads, RecalcSaves, Goto
    <2>5. ASSUME NEW q \in Requests, Refuse(q) \/ RowIsGone(q) \/ Breaks(q)
          PROVE  phase[r] = phase'[r] /\ form'[r] = form[r]
        BY <2>5 DEF Refuse, RowIsGone, Breaks, Fail, Forget, Goto
    <2>6. ASSUME NEW q \in Requests, NEW years, Recalculate(q, years)
          PROVE  phase[r] = phase'[r] /\ form'[r] = form[r]
        BY <2>6 DEF Recalculate, Forget, Goto
    <2>7. ASSUME NEW q \in Requests, NEW l \in Leaves,
                 \/ InsertRow(q, l)
                 \/ \E v \in {"APPROVED", "REJECTED"} : Review(q, l, v)
          PROVE  phase[r] = phase'[r] /\ form'[r] = form[r]
        BY <2>6, <2>7 DEF InsertRow, Review
    <2>8. ASSUME NEW q \in Requests,
                 UpdateRow(q) \/ DeleteRow(q) \/ \E y \in Years : Consult(q, y)
          PROVE  phase[r] = phase'[r] /\ form'[r] = form[r]
        BY <2>6, <2>8 DEF UpdateRow, DeleteRow, Consult
    <2>9. ASSUME NEW q \in Requests, NEW l \in Leaves, StartDelete(q, l)
          PROVE  phase[r] = phase'[r] /\ form'[r] = form[r]
        BY <2>9 DEF StartDelete, Goto
    <2> QED
        BY <1>1, <2>1, <2>2, <2>3, <2>4, <2>5, <2>7, <2>8, <2>9 DEF Next
<1> QED
    BY <1>2, <1>3

-----------------------------------------------------------------------------
(* Days                                                                    *)

\* The unpaid leaves that are granted.
Unpaid ==
    {l \in Leaves : Live(l) /\ row[l].kind = "SANS_SOLDE" /\ row[l].status = "APPROVED"}

\* A leave has finitely many days in a year, and none out of its years.
LEMMA DaysInYear ==
    ASSUME NEW p \in Periods, NEW y \in Years
    PROVE  /\ DaysIn(p, y) \subseteq {d \in Days : YearOf[d] = y}
           /\ IsFiniteSet(DaysIn(p, y))
           /\ y \notin YearsOf(p) => DaysIn(p, y) = {}
<1>1. p.start \in Days /\ p.end \in Days /\ p.start..p.end \subseteq Days
    BY CalendarAssumption
<1>2. DaysIn(p, y) \subseteq {d \in Days : YearOf[d] = y}
    BY <1>1 DEF DaysIn
<1>3. IsFiniteSet({d \in Days : YearOf[d] = y})
    BY CalendarAssumption
<1>4. ASSUME NEW d \in DaysIn(p, y) PROVE y \in YearsOf(p)
    <2>1. d \in Days /\ p.start <= d /\ d <= p.end /\ YearOf[d] = y
        BY <1>1, <1>4, CalendarAssumption DEF DaysIn
    <2>2. YearOf[p.start] <= YearOf[d] /\ YearOf[d] <= YearOf[p.end]
        BY <1>1, <2>1, CalendarAssumption
    <2>3. YearOf[p.start] \in Int /\ YearOf[p.end] \in Int /\ YearOf[d] \in Int
        BY <1>1, <2>1, CalendarAssumption
    <2> QED
        BY <2>1, <2>2, <2>3 DEF YearsOf
<1> QED
    BY <1>2, <1>3, <1>4, FS_Subset

\* Live leaves have finitely many days in a year.
LEMMA DaysOfFinite ==
    ASSUME TypeOK, NEW y \in Years, NEW S \in SUBSET Leaves, \A l \in S : Live(l)
    PROVE  IsFiniteSet(DaysOf(S, y))
<1> DEFINE D == {d \in Days : YearOf[d] = y}
<1>1. IsFiniteSet(D) /\ IsFiniteSet(Leaves)
    BY CalendarAssumption, RulesAssumption
<1>2. IsFiniteSet(Leaves \X D)
    BY <1>1, FS_Product
<1>3. ASSUME NEW t \in DaysOf(S, y) PROVE t \in Leaves \X D
    <2>1. t[1] \in S /\ t[2] \in Days /\ t = <<t[1], t[2]>> /\ t[2] \in DaysIn(row[t[1]].period, y)
        BY DEF DaysOf
    <2>2. row[t[1]].period \in Periods
        BY <2>1 DEF Live, Row
    <2>3. t[2] \in D
        BY <2>1, <2>2, DaysInYear
    <2> QED
        BY <2>1, <2>3
<1> QED
    BY <1>2, <1>3, FS_Subset

\* The days of a leave added to those of others.
LEMMA DaysAdd ==
    ASSUME NEW S, IsFiniteSet(S), NEW D, IsFiniteSet(D), NEW l,
           NEW T, T \subseteq S \cup ({l} \X D)
    PROVE  Cardinality(T) <= Cardinality(S) + Cardinality(D)
<1>0. IsFiniteSet({l}) /\ Cardinality({l}) = 1
    BY FS_Singleton
<1>1. IsFiniteSet({l} \X D) /\ Cardinality({l} \X D) = 1 * Cardinality(D)
    BY <1>0, FS_Product
<1>2. /\ IsFiniteSet(S \cup ({l} \X D))
      /\ Cardinality(S \cup ({l} \X D))
           = Cardinality(S) + Cardinality({l} \X D) - Cardinality(S \cap ({l} \X D))
    BY <1>1, FS_Union
<1>3. IsFiniteSet(S \cap ({l} \X D))
    BY FS_Intersection
<1>4. IsFiniteSet(T) /\ Cardinality(T) <= Cardinality(S \cup ({l} \X D))
    BY <1>2, FS_Subset
<1>5. /\ Cardinality(S) \in Nat /\ Cardinality(D) \in Nat /\ Cardinality(T) \in Nat
      /\ Cardinality(S \cap ({l} \X D)) \in Nat
    BY <1>3, <1>4, FS_CardinalityType
<1> QED
    BY <1>1, <1>2, <1>4, <1>5

\* Leaves that are granted and stay so have no more days than all had.
LEMMA QuotaShrinks ==
    ASSUME TypeOK, NEW y \in Years, OverUnpaid(y)',
           \A l \in Leaves :
             l \in Unpaid' => (l \in Unpaid /\ row'[l].period = row[l].period)
                                \/ DaysIn(row'[l].period, y) = {}
    PROVE  OverUnpaid(y)
<1>1. Cardinality(DaysOf(Unpaid, y)') > MaxUnpaid
    BY DEF OverUnpaid, Unpaid, DaysOf, Live, DaysIn
<1>2. ASSUME NEW t \in DaysOf(Unpaid, y)' PROVE t \in DaysOf(Unpaid, y)
    <2>1. t \in Unpaid' \X Days /\ t[2] \in DaysIn(row'[t[1]].period, y)
        BY DEF DaysOf, DaysIn
    <2>2. t[1] \in Leaves /\ t[1] \in Unpaid'
        BY <2>1 DEF Unpaid
    <2> QED
        BY <2>1, <2>2 DEF DaysOf
<1>3. IsFiniteSet(DaysOf(Unpaid, y))
    BY DaysOfFinite DEF Unpaid
<1>4. IsFiniteSet(DaysOf(Unpaid, y)')
      /\ Cardinality(DaysOf(Unpaid, y)') <= Cardinality(DaysOf(Unpaid, y))
    BY <1>2, <1>3, FS_Subset
<1>5. Cardinality(DaysOf(Unpaid, y)') \in Nat /\ Cardinality(DaysOf(Unpaid, y)) \in Nat
    BY <1>3, <1>4, FS_CardinalityType
<1>6. Cardinality(DaysOf(Unpaid, y)) > MaxUnpaid
    BY <1>1, <1>4, <1>5, RulesAssumption
<1> QED
    BY <1>6 DEF OverUnpaid, Unpaid

\* A row that is written as it was validated does not exceed the quota.
LEMMA QuotaHolds ==
    ASSUME IInv, NEW r \in Requests, NEW l \in Leaves, NEW y \in Years,
           phase[r] = "write", form[r] \in Form, form[r].mode # "forced",
           row' = [row EXCEPT ![l] = FormRow(r)],
           target[r] = l \/ (target[r] = Unused /\ row[l] = Unused),
           \A z \in YearsOf(form[r].period) : ~OverQuota(r, z),
           OverUnpaid(y)'
    PROVE  OverUnpaid(y)
<1>t. TypeOK
    BY DEF IInv
<1>1. row'[l] = FormRow(r) /\ \A m \in Leaves \ {l} : row'[m] = row[m]
    BY <1>t DEF TypeOK
<1>2. \A m \in Leaves \ {l} : m \in Unpaid' <=> m \in Unpaid
    BY <1>1 DEF Unpaid, Live
<1>3. form[r].period \in Periods
    BY DEF Form
<1>4. CASE y \in YearsOf(form[r].period) /\ l \in Unpaid'
    <2> DEFINE D == DaysIn(form[r].period, y)
    <2>1. form[r].kind = "SANS_SOLDE" /\ row'[l].period = form[r].period
        BY <1>1, <1>4 DEF Unpaid, FormRow
    <2>2. ~(Cardinality(DaysOf(Granted(r), y)) + Cardinality(D) > MaxUnpaid)
        BY <1>4, <2>1 DEF OverQuota
    <2>3. ASSUME NEW m \in Unpaid', m # l PROVE m \in Granted(r)
        BY <1>2, <2>1, <2>3, NamesAssumption DEF Unpaid, Granted, Others
    <2>4. ASSUME NEW t \in DaysOf(Unpaid, y)'
          PROVE  t \in DaysOf(Granted(r), y) \cup ({l} \X D)
        <3>1. t \in Unpaid' \X Days /\ t[2] \in DaysIn(row'[t[1]].period, y)
            BY DEF DaysOf, DaysIn
        <3>2. CASE t[1] = l
            BY <2>1, <3>1, <3>2
        <3>3. CASE t[1] # l
            BY <1>1, <2>3, <3>1, <3>3 DEF DaysOf, Unpaid
        <3> QED
            BY <3>2, <3>3
    <2>5. IsFiniteSet(D)
        BY <1>3, DaysInYear
    <2>6. IsFiniteSet(DaysOf(Granted(r), y))
        BY <1>t, DaysOfFinite DEF Granted, Others
    <2> HIDE DEF D
    <2>7. Cardinality(DaysOf(Unpaid, y)') <= Cardinality(DaysOf(Granted(r), y)) + Cardinality(D)
        BY <2>4, <2>5, <2>6, DaysAdd
    <2>8. IsFiniteSet({l} \X D)
        BY <2>5, FS_Product, FS_Singleton
    <2>9. IsFiniteSet(DaysOf(Granted(r), y) \cup ({l} \X D))
        BY <2>6, <2>8, FS_Union
    <2>10. IsFiniteSet(DaysOf(Unpaid, y)')
        BY <2>4, <2>9, FS_Subset
    <2>11. /\ Cardinality(DaysOf(Granted(r), y)) \in Nat /\ Cardinality(D) \in Nat
           /\ Cardinality(DaysOf(Unpaid, y)') \in Nat
        BY <2>5, <2>6, <2>10, FS_CardinalityType
    <2>12. ~(Cardinality(DaysOf(Unpaid, y)') > MaxUnpaid)
        BY <2>2, <2>7, <2>11, RulesAssumption
    <2>13. Cardinality(DaysOf(Unpaid, y)') > MaxUnpaid
        BY DEF OverUnpaid, Unpaid, DaysOf, Live, DaysIn
    <2> QED
        BY <2>12, <2>13
<1>5. CASE ~(y \in YearsOf(form[r].period) /\ l \in Unpaid')
    <2>1. l \in Unpaid' => DaysIn(row'[l].period, y) = {}
        BY <1>1, <1>3, <1>5, DaysInYear DEF FormRow
    <2>2. \A m \in Leaves :
            m \in Unpaid' => (m \in Unpaid /\ row'[m].period = row[m].period)
                               \/ DaysIn(row'[m].period, y) = {}
        BY <1>1, <1>2, <2>1
    <2> QED
        BY <1>t, <2>2, QuotaShrinks
<1> QED
    BY <1>4, <1>5

-----------------------------------------------------------------------------
(* Who breaks the rules                                                    *)

\* A step that breaks a rule overlaps another request, or is one of those that
\* validate nothing.
LEMMA RulesStep ==
    ASSUME IInv, BInv, RInv, Next, ~overlapped'
    PROVE  /\ ~Doubled /\ Doubled' =>
                \E r \in Requests, l \in Leaves :
                   Review(r, l, "APPROVED") /\ row[l].status = "REJECTED"
           /\ ~HajjTwice /\ HajjTwice' => Approves \/ Forced
           /\ \A y \in Years : ~OverUnpaid(y) /\ OverUnpaid(y)' => Approves \/ Forced
<1>t. TypeOK
    BY DEF IInv
<1>n. Unused \notin Leaves /\ Unused \notin Form /\ Unused \notin Row /\ Deleted \notin Row
    BY NamesAssumption
<1>a. ~overlapped /\ \E r \in Requests :
        OnlyActs(r) /\ (Writes(r) \/ Checks(r) \/ Recalculates(r) \/ Breaks(r))
    BY OneActs
<1> PICK r \in Requests :
        OnlyActs(r) /\ (Writes(r) \/ Checks(r) \/ Recalculates(r) \/ Breaks(r))
    BY <1>a
<1>b. Validated(r)
    BY <1>a DEF RInv
<1>1. CASE row' = row
    BY <1>1 DEF Doubled, HajjTwice, OverUnpaid, DaysOf, DaysIn, Live
<1>2. ASSUME NEW l \in Leaves, row' = [row EXCEPT ![l] = FormRow(r)],
             phase[r] = "write", form[r] \in Form,
             target[r] = l \/ (target[r] = Unused /\ row[l] = Unused)
      PROVE  /\ Doubled' => Doubled
             /\ HajjTwice' => HajjTwice \/ form[r].mode = "forced"
             /\ \A y \in Years : OverUnpaid(y)' => OverUnpaid(y) \/ form[r].mode = "forced"
    <2>1. /\ ~IsDuplicate(r) /\ ~HajjTaken(r)
          /\ \A z \in YearsOf(form[r].period) : ~OverQuota(r, z)
        BY <1>b, <1>n, <1>2 DEF Validated, Unchecked
    <2>2. row'[l] = FormRow(r) /\ \A m \in Leaves \ {l} : row'[m] = row[m]
        BY <1>t, <1>2 DEF TypeOK
    <2>3. \A m \in Leaves \ {l} : Live(m) => m \in Others(r)
        BY <1>n, <1>2 DEF Others
    <2>4. ASSUME Doubled' PROVE Doubled
        BY <2>1, <2>2, <2>3, <2>4 DEF Doubled, IsDuplicate, FormRow, Live
    <2>5. ASSUME HajjTwice', form[r].mode # "forced" PROVE HajjTwice
        BY <2>1, <2>2, <2>3, <2>5 DEF HajjTwice, HajjTaken, Granted, FormRow, Live
    <2>6. ASSUME NEW y \in Years, OverUnpaid(y)', form[r].mode # "forced" PROVE OverUnpaid(y)
        BY <1>2, <2>1, <2>6, QuotaHolds
    <2> QED
        BY <2>4, <2>5, <2>6
<1>3. CASE UpdateRow(r) \/ \E l \in Leaves : InsertRow(r, l)
    <2>1. PICK l \in Leaves :
            /\ row' = [row EXCEPT ![l] = FormRow(r)]
            /\ phase[r] = "write"
            /\ target[r] = l \/ (target[r] = Unused /\ row[l] = Unused)
        BY <1>t, <1>3 DEF UpdateRow, InsertRow, TypeOK
    <2>2. form[r] \in Form /\ form[r] # Unused
        BY <1>n, <2>1 DEF IInv, Informed
    <2>3. phase'[r] # phase[r]
        BY <1>t, <1>3 DEF UpdateRow, InsertRow, Recalculate, Goto, TypeOK
    <2> QED
        BY <1>2, <2>1, <2>2, <2>3 DEF Forced
<1>4. CASE DeleteRow(r)
    <2>1. row' = [row EXCEPT ![target[r]] = Deleted] /\ target[r] \in Leaves
        BY <1>4 DEF DeleteRow, IInv, Informed
    <2>2. \A m \in Leaves : row'[m] = row[m] \/ ~Live(m)'
        BY <1>n, <1>t, <2>1 DEF TypeOK, Live
    <2>4. (Doubled' => Doubled) /\ (HajjTwice' => HajjTwice)
        BY <2>2 DEF Doubled, HajjTwice, Live
    <2>5. \A m \in Leaves : m \in Unpaid' => m \in Unpaid /\ row'[m].period = row[m].period
        BY <2>2 DEF Unpaid, Live
    <2>6. \A y \in Years : OverUnpaid(y)' => OverUnpaid(y)
        BY <1>t, <2>5, QuotaShrinks
    <2> QED
        BY <2>4, <2>6
<1>5. CASE \E l \in Leaves, v \in {"APPROVED", "REJECTED"} : Review(r, l, v)
    <2>1. PICK l \in Leaves, v \in {"APPROVED", "REJECTED"} : Review(r, l, v)
        BY <1>5
    <2>2. row[l] \in Row /\ row' = [row EXCEPT ![l] = Reviewed(l, v)]
        BY <2>1 DEF Review, Live
    <2>3. /\ row'[l] = [period |-> row[l].period, kind |-> row[l].kind, status |-> v]
          /\ \A m \in Leaves \ {l} : row'[m] = row[m]
        BY <1>t, <2>2 DEF TypeOK, Reviewed
    <2>4. CASE v = "REJECTED"
        <3>1. (Doubled' => Doubled) /\ (HajjTwice' => HajjTwice)
            BY <2>2, <2>3, <2>4 DEF Doubled, HajjTwice, Live
        <3>2. \A m \in Leaves : m \in Unpaid' => m \in Unpaid /\ row'[m].period = row[m].period
            BY <2>3, <2>4 DEF Unpaid, Live
        <3>3. \A y \in Years : OverUnpaid(y)' => OverUnpaid(y)
            BY <1>t, <3>2, QuotaShrinks
        <3> QED
            BY <3>1, <3>3
    <2>5. CASE v = "APPROVED" /\ row[l].status # "REJECTED"
        <3>1. Doubled' => Doubled
            BY <2>2, <2>3, <2>5 DEF Doubled, Live
        <3> QED
            BY <2>1, <2>5, <3>1 DEF Approves
    <2>6. CASE v = "APPROVED" /\ row[l].status = "REJECTED"
        BY <2>1, <2>6 DEF Approves
    <2> QED
        BY <2>4, <2>5, <2>6
<1>6. CASE Checks(r) \/ Recalculates(r) \/ Breaks(r)
    BY <1>1, <1>6
    DEF Checks, StartCreate, StartUpdate, CheckDuplicate, CheckHajj, Refuse, Fail, RowIsGone,
        CheckUnpaid, Consult, StartDelete, Recalculate, Recalculates, RecalcReads, RecalcSaves,
        Breaks
<1> QED
    BY <1>3, <1>4, <1>5, <1>6 DEF Writes

\* Only the note of an Admin or DRH gives an exceptional leave more days than it
\* may have: the length is checked on the form alone.
LEMMA OverlongStep ==
    ASSUME IInv, ShortForms, Next, NEW m \in Leaves, ~Overlong(m), Overlong(m)'
    PROVE  Forced
<1>t. TypeOK
    BY DEF IInv
<1>n. Unused \notin Form /\ Unused \notin Row /\ Deleted \notin Row
    BY NamesAssumption
<1>0. row'[m] # row[m] /\ row'[m] \in Row
    BY DEF Overlong, Live, Length
<1>1. ASSUME NEW r \in Requests, NEW l \in Leaves, phase[r] = "write", phase'[r] # phase[r],
             row' = [row EXCEPT ![l] = FormRow(r)]
      PROVE  Forced
    <2>1. row'[m] = FormRow(r)
        BY <1>t, <1>0, <1>1 DEF TypeOK
    <2>2. form[r].kind = "EXCEPTIONNEL" /\ Length(form[r].period) > MaxShort
        BY <2>1 DEF Overlong, FormRow, Length
    <2>3. ~TooLong(r) /\ form[r] # Unused
        BY <1>n, <1>1 DEF ShortForms, IInv, Informed
    <2> QED
        BY <1>1, <2>2, <2>3 DEF TooLong, Forced
<1>2. ASSUME NEW r \in Requests, NEW l \in Leaves, InsertRow(r, l) PROVE Forced
    BY <1>t, <1>1, <1>2 DEF InsertRow, Recalculate, Goto, TypeOK
<1>3. ASSUME NEW r \in Requests, UpdateRow(r) PROVE Forced
    BY <1>t, <1>1, <1>3 DEF UpdateRow, Recalculate, Goto, TypeOK
<1>4. ASSUME NEW r \in Requests, DeleteRow(r) PROVE FALSE
    BY <1>n, <1>t, <1>0, <1>4 DEF DeleteRow, TypeOK
<1>5. ASSUME NEW r \in Requests, NEW l \in Leaves, NEW v, Review(r, l, v) PROVE FALSE
    <2>1. row[l] \in Row /\ row' = [row EXCEPT ![l] = Reviewed(l, v)]
        BY <1>5 DEF Review, Live
    <2>2. m = l
        BY <1>t, <1>0, <2>1 DEF TypeOK
    <2>3. row'[m].period = row[m].period /\ row'[m].kind = row[m].kind
        BY <1>t, <2>1, <2>2 DEF TypeOK, Reviewed
    <2> QED
        BY <2>1, <2>2, <2>3 DEF Overlong, Live, Length
<1>6. CASE \/ \E r \in Requests, f \in Form : StartCreate(r, f)
           \/ \E r \in Requests, l \in Leaves, f \in Form : StartUpdate(r, l, f)
           \/ \E r \in Requests : \/ CheckDuplicate(r) \/ CheckHajj(r) \/ Refuse(r)
                                  \/ RowIsGone(r) \/ Breaks(r)
           \/ \E r \in Requests, d \in Years : CheckUnpaid(r, d) \/ Consult(r, d)
           \/ \E r \in Requests, l \in Leaves : StartDelete(r, l)
           \/ \E r \in Requests, d \in Years : RecalcReads(r, d) \/ RecalcSaves(r, d)
    BY <1>0, <1>6 DEF StartCreate, StartUpdate, CheckDuplicate, CheckHajj, Refuse, Fail,
        RowIsGone, CheckUnpaid, Consult, StartDelete, RecalcReads, RecalcSaves, Breaks
<1> QED
    BY <1>2, <1>3, <1>4, <1>5, <1>6 DEF Next

\* No step breaks a rule but those named.
Keeping ==
    /\ ~Doubled /\ Doubled' =>
         \/ overlapped'
         \/ \E r \in Requests, l \in Leaves :
               Review(r, l, "APPROVED") /\ row[l].status = "REJECTED"
    /\ ~HajjTwice /\ HajjTwice' => overlapped' \/ Approves \/ Forced
    /\ \A y \in Years :
         ~OverUnpaid(y) /\ OverUnpaid(y)' => overlapped' \/ Approves \/ Forced
    /\ \A l \in Leaves : ~Overlong(l) /\ Overlong(l)' => Forced

\* The rules of a declaration hold of every row it writes while nobody else
\* acts, and that of the length whoever acts; only what validates nothing, and
\* the notes that override the rules, break them.
THEOREM RulesKept == Spec => RulesAreKept
<1>1. Init => RInv /\ ShortForms
    BY DEF Init, RInv, Validated, ShortForms
<1>2. IInv /\ BInv /\ RInv /\ [Next]_vars => RInv'
    BY RInvStep
<1>3. IInv /\ ShortForms /\ [Next]_vars => ShortForms'
    BY ShortFormsStep
<1>4. IInv /\ BInv /\ RInv /\ ShortForms /\ [Next]_vars => [Keeping]_vars
    BY RulesStep, OverlongStep DEF Keeping
<1> QED
    BY <1>1, <1>2, <1>3, <1>4, IInvAlways, BInvAlways, PTL DEF Spec, RulesAreKept, Keeping

-----------------------------------------------------------------------------
(* The pages of the client                                                 *)

\* What the proofs use of a page.
SoundPage(p) ==
    /\ "handlers" \in DOMAIN p /\ "opens" \in DOMAIN p
    /\ \A h \in DOMAIN p.handlers : p.handlers[h] \in HandlerKinds
    /\ p.opens \in {"kept", "first", "none"}

LEMMA KindsOfHandlers ==
    /\ OfRow \in HandlerKinds /\ OfChoice \in HandlerKinds /\ OfBoth \in HandlerKinds
    /\ \A k \in HandlerKinds : NoReload(k) \in HandlerKinds /\ Moving(k) \in HandlerKinds
  BY DEF OfRow, OfChoice, OfBoth, NoReload, Moving, HandlerKinds

LEMMA PagesAreSound == \A p \in Pages : SoundPage(p)
<1> USE KindsOfHandlers DEF SoundPage, Listing, Unkept, Selected, Fixed
<1>1. SoundPage(AdvancedTreatmentPage)  BY DEF AdvancedTreatmentPage
<1>2. SoundPage(PayrollBulletin)  BY DEF PayrollBulletin
<1>3. SoundPage(PayrollOperational)  BY DEF PayrollOperational
<1>4. SoundPage(PresumedAbsencesPage)  BY DEF PresumedAbsencesPage
<1>5. SoundPage(DailyAbsencesPage)  BY DEF DailyAbsencesPage
<1>6. SoundPage(LeaveDeclarationPage)  BY DEF LeaveDeclarationPage
<1>7. SoundPage(SickLeaveDeclarationPage)  BY DEF SickLeaveDeclarationPage
<1>8. SoundPage(OvertimeDeclarationPage)  BY DEF OvertimeDeclarationPage
<1>9. SoundPage(ResignedEmployeesPage)  BY DEF ResignedEmployeesPage
<1>10. SoundPage(SummaryReportPage)  BY DEF SummaryReportPage
<1>11. SoundPage(SummaryDays)  BY DEF SummaryDays
<1>12. SoundPage(SummaryEditor)  BY DEF SummaryEditor
<1>13. SoundPage(SapDirectoryPage)  BY DEF SapDirectoryPage
<1>14. SoundPage(SapMatchingAll)  BY DEF SapMatchingAll
<1>15. SoundPage(SapMatchingQueue)  BY DEF SapMatchingQueue
<1>16. SoundPage(MessagesPage)  BY DEF MessagesPage
<1>17. SoundPage(ValidationPage)  BY DEF ValidationPage
<1>18. SoundPage(SyncAdminPage)  BY DEF SyncAdminPage
<1>19. SoundPage(GroupEmployeesView)  BY DEF GroupEmployeesView
<1>20. SoundPage(EmployeeDetailPage)  BY DEF EmployeeDetailPage
<1>21. SoundPage(NotificationsBell)  BY DEF NotificationsBell
<1>22. SoundPage(AppShell)  BY DEF AppShell
<1>23. SoundPage(OrgChartPage)  BY DEF OrgChartPage
<1>24. SoundPage(ShiftAssignmentCalendar)  BY DEF ShiftAssignmentCalendar
<1>25. SoundPage(UsersAdminPage)  BY DEF UsersAdminPage
<1>26. SoundPage(OvertimeSummaryPage)  BY DEF OvertimeSummaryPage
<1>27. SoundPage(ReportsPage)  BY DEF ReportsPage
<1>28. SoundPage(ManualAbsenceDeclarationPage)  BY DEF ManualAbsenceDeclarationPage
<1>29. SoundPage(EmployeeContractsPage)  BY DEF EmployeeContractsPage
<1>30. SoundPage(JobDescriptionDocumentPage)  BY DEF JobDescriptionDocumentPage
<1>31. SoundPage(JobDescriptionWorkflowPage)  BY DEF JobDescriptionWorkflowPage
<1>32. SoundPage(AttendancePunchesPage)  BY DEF AttendancePunchesPage
<1>33. SoundPage(AuditLogsPage)  BY DEF AuditLogsPage
<1>34. SoundPage(EmployeePunchHistoryModal)  BY DEF EmployeePunchHistoryModal
<1>35. SoundPage(EmployeeMonthlyCalendarModal)  BY DEF EmployeeMonthlyCalendarModal
<1> HIDE KindsOfHandlers DEF SoundPage, Listing, Unkept, Selected, Fixed
<1> QED
  BY <1>1, <1>2, <1>3, <1>4, <1>5, <1>6, <1>7, <1>8, <1>9, <1>10, <1>11, <1>12,
     <1>13, <1>14, <1>15, <1>16, <1>17, <1>18, <1>19, <1>20, <1>21, <1>22, <1>23, <1>24,
     <1>25, <1>26, <1>27, <1>28, <1>29, <1>30, <1>31, <1>32, <1>33, <1>34, <1>35
  DEF Pages

LEMMA PageOfShape ==
    ASSUME NEW p \in {Shape(q) : q \in Pages}
    PROVE  p.handlers \subseteq HandlerKinds /\ p.opens \in {"kept", "first", "none"}
<1>1. PICK q \in Pages : p = Shape(q)
  OBVIOUS
<1>2. SoundPage(q)
  BY PagesAreSound
<1>3. p.handlers = {q.handlers[h] : h \in DOMAIN q.handlers} /\ p.opens = q.opens
  BY <1>1, <1>2 DEF Shape, SoundPage
<1> QED
  BY <1>2, <1>3 DEF SoundPage

-----------------------------------------------------------------------------
\* A load that is started takes a free slot; without a path nothing is.
LEMMA StartsOne ==
    ASSUME NEW f \in [Loads -> Load], NEW c \in Paths, NEW r \in BOOLEAN,
           NEW g \in Starts(f, c, r)
    PROVE  /\ g \in [Loads -> Load]
           /\ c = Nothing => g = f
           /\ c # Nothing =>
                \E l \in Loads :
                  /\ g[l] = [stage |-> "asked", of |-> c, at |-> 0, reload |-> r]
                  /\ ~Busy(f, l)
                  /\ \A m \in Loads : m # l => g[m] = f[m]
<1>1. CASE c = Nothing
  BY <1>1 DEF Starts
<1>2. CASE c # Nothing
  <2> DEFINE new == [stage |-> "asked", of |-> c, at |-> 0, reload |-> r]
  <2>1. PICK l \in Loads : ~Busy(f, l) /\ g = [f EXCEPT ![l] = new]
    BY <1>2 DEF Starts
  <2>2. new \in Load
    BY <1>2, WebAssumption DEF Load, Versions, Paths
  <2>3. g[l] = new /\ \A m \in Loads : m # l => g[m] = f[m]
    BY <2>1
  <2>4. g \in [Loads -> Load]
    BY <2>1, <2>2
  <2> QED
    BY <1>2, <2>1, <2>3, <2>4
<1> QED
  BY <1>1, <1>2

\* What is left after a cleanup are reloads.
LEMMA CancelledLoads ==
    ASSUME NEW f \in [Loads -> Load]
    PROVE  /\ Cancelled(f) \in [Loads -> Load]
           /\ \A l \in Loads : Busy(Cancelled(f), l) => Cancelled(f)[l].reload
<1>1. NoLoad \in Load
  BY WebAssumption DEF NoLoad, Load, Paths, Versions
<1> QED
  BY <1>1 DEF Cancelled, Busy, NoLoad

LEMMA NoLoads == [l \in Loads |-> NoLoad] \in [Loads -> Load]
  BY DEF Load

LEMMA NoActs == NoAct \in Act /\ [a \in Acts |-> NoAct] \in [Acts -> Act]
  BY WebAssumption, KindsOfHandlers DEF NoAct, Act, Paths, Versions

\* A detection is about its choice, and takes a free slot.
LEMMA DetectsOne ==
    ASSUME NEW w \in [Acts -> Act], NEW c \in Paths, NEW v \in Detects(w, c)
    PROVE  /\ v \in [Acts -> Act]
           /\ \A a \in Acts :
                \/ v[a] = w[a]
                \/ v[a].stage = "asked" /\ v[a].on = c /\ v[a].to = v[a].seen
<1>1. CASE v = w
  BY <1>1
<1>2. CASE v # w
  <2> DEFINE new == [NoAct EXCEPT !.stage = "asked", !.kind = OfChoice, !.silent = TRUE,
                                  !.on = c, !.seen = c, !.to = c]
  <2>1. PICK a \in Acts : v = [w EXCEPT ![a] = new]
    BY <1>2 DEF Detects
  <2>2. new \in Act
    BY NoActs, KindsOfHandlers DEF Act
  <2>3. new.stage = "asked" /\ new.on = c /\ new.to = new.seen
    BY NoActs DEF Act
  <2> HIDE DEF new
  <2> QED
    BY <2>1, <2>2, <2>3
<1> QED
  BY <1>1, <1>2

LEMMA CrossesIsBoolean ==
    ASSUME NEW f, NEW w, NEW c
    PROVE  Crosses(f, w, c) \in BOOLEAN
  BY DEF Crosses

LEMMA FallbackRows == Fallback \in [of : Paths, at : Versions]
  BY WebAssumption DEF Fallback, Paths, Versions

-----------------------------------------------------------------------------
\* Every reachable state of a page and of its requests has its types.
THEOREM WebTypeCorrect == WebSpec => []WebTypeOK
<1>1. WebInit => WebTypeOK
  <2> SUFFICES ASSUME WebInit PROVE WebTypeOK
    OBVIOUS
  <2>1. chosen \in Paths
    BY WebAssumption DEF WebInit, Paths
  <2>2. load \in [Loads -> Load]
    BY <2>1, NoLoads, StartsOne DEF WebInit
  <2>3. act \in [Acts -> Act]
    BY <2>1, NoActs, DetectsOne DEF WebInit
  <2>4. version \in [Choices -> Versions] /\ own \in [Choices -> Versions]
    BY WebAssumption DEF WebInit, Versions
  <2> QED
    BY <2>1, <2>2, <2>3, <2>4, FallbackRows DEF WebInit, WebTypeOK
<1>2. WebTypeOK /\ [WebNext]_webVars => WebTypeOK'
  <2> SUFFICES ASSUME WebTypeOK, [WebNext]_webVars PROVE WebTypeOK'
    OBVIOUS
  <2>0. page.handlers \subseteq HandlerKinds /\ page.opens \in {"kept", "first", "none"}
    BY PageOfShape DEF WebTypeOK
  <2>1. CASE Reopens
    <3>1. PICK c \in Paths : MountsOn(c)
      BY <2>0, <2>1, WebAssumption DEF Reopens, WebTypeOK, Paths
    <3>2. load' \in [Loads -> Load] /\ act' \in [Acts -> Act]
      BY <3>1, NoLoads, NoActs, StartsOne, DetectsOne DEF MountsOn
    <3>3. own' \in [Choices -> Versions]
      BY <3>1, WebAssumption DEF MountsOn, Versions
    <3>4. chosen' \in Paths /\ shown' \in [of : Paths, at : Versions]
          /\ loading' \in BOOLEAN /\ failed' \in BOOLEAN /\ crossed' \in BOOLEAN
      BY <3>1, FallbackRows DEF MountsOn
    <3> QED
      BY <2>1, <3>2, <3>3, <3>4 DEF Reopens, WebTypeOK
  <2>2. ASSUME NEW c \in Paths, Chooses(c) PROVE WebTypeOK'
    <3>1. load' \in [Loads -> Load]
      BY <2>2, CancelledLoads, StartsOne DEF Chooses, Follows, WebTypeOK
    <3>2. act' \in [Acts -> Act]
      BY <2>2, DetectsOne DEF Chooses, WebTypeOK
    <3>3. crossed' \in BOOLEAN
      BY <2>2, CrossesIsBoolean DEF Chooses
    <3>4. loading' \in BOOLEAN /\ failed' \in BOOLEAN
      BY <2>2 DEF Chooses, LoadingAny
    <3> QED
      BY <2>2, <3>1, <3>2, <3>3, <3>4 DEF Chooses, WebTypeOK
  <2>3. CASE Reloads
    <3>1. load' \in [Loads -> Load]
      BY <2>3, StartsOne DEF Reloads, WebTypeOK
    <3>2. crossed' \in BOOLEAN
      BY <2>3, CrossesIsBoolean DEF Reloads
    <3>3. loading' \in BOOLEAN /\ failed' \in BOOLEAN
      BY <2>3 DEF Reloads, LoadingAny
    <3> QED
      BY <2>3, <3>1, <3>2, <3>3 DEF Reloads, WebTypeOK
  <2>4. ASSUME NEW a \in Acts, NEW k \in page.handlers, Presses(a, k) PROVE WebTypeOK'
    <3>1. k \in HandlerKinds
      BY <2>0
    <3> DEFINE hasty == loading \/ crossed \/ chosen = Nothing
               new == [NoAct EXCEPT !.stage = "asked", !.kind = k, !.on = chosen,
                        !.seen = IF k.says = "choice" THEN chosen ELSE shown.of,
                        !.to = IF k.says = "row" THEN shown.of ELSE chosen,
                        !.hasty = hasty]
    <3>2. hasty \in BOOLEAN /\ shown.of \in Paths /\ chosen \in Paths
      BY DEF WebTypeOK
    <3> HIDE DEF hasty
    <3>3. new \in Act
      BY <3>1, <3>2, NoActs DEF Act
    <3>4. act' = [act EXCEPT ![a] = new]
      BY <2>4 DEF Presses, hasty
    <3> QED
      BY <2>4, <3>3, <3>4 DEF Presses, WebTypeOK
  <2>5. ASSUME NEW c \in Choices, OthersChange(c) PROVE WebTypeOK'
    BY <2>5, WebAssumption DEF OthersChange, WebTypeOK, Versions
  <2>6. ASSUME NEW a \in Acts, Executes(a) PROVE WebTypeOK'
    <3>1. act[a] \in Act /\ act[a].to \in Paths
      BY DEF WebTypeOK, Act
    <3>2. version' \in [Choices -> Versions]
      BY <2>6, <3>1, WebAssumption DEF Executes, WebTypeOK, Versions, Paths
    <3>3. act' \in [Acts -> Act]
      <4>1. CASE act[a].to = Nothing
        BY <2>6, <3>1, <4>1 DEF Executes, WebTypeOK, Act
      <4>2. CASE act[a].to # Nothing
        <5>1. version'[act[a].to] \in Versions
          BY <3>1, <3>2, <4>2 DEF Paths
        <5>2. [act[a] EXCEPT !.stage = "answered", !.at = version'[act[a].to]] \in Act
          BY <3>1, <5>1 DEF Act
        <5> QED
          BY <2>6, <4>2, <5>2 DEF Executes, WebTypeOK
      <4> QED
        BY <4>1, <4>2
    <3> QED
      BY <2>6, <3>2, <3>3 DEF Executes, WebTypeOK
  <2>7. ASSUME NEW a \in Acts, Returns(a) PROVE WebTypeOK'
    <3>1. act[a] \in Act /\ act[a].on \in Paths /\ act[a].at \in Versions
      BY DEF WebTypeOK, Act
    <3>2. chosen' \in Paths
      BY <2>7 DEF Returns, Moves, WebTypeOK
    <3>3. load' \in [Loads -> Load]
      <4>1. PICK f \in IF chosen' = chosen THEN {load} ELSE Follows(load, chosen') :
              load' \in IF act[a].kind.reloads THEN Starts(f, act[a].on, TRUE) ELSE {f}
        BY <2>7 DEF Returns
      <4>2. f \in [Loads -> Load]
        BY <3>2, <4>1, CancelledLoads, StartsOne DEF Follows, WebTypeOK
      <4> QED
        BY <3>1, <4>1, <4>2, StartsOne
    <3>4. act' \in [Acts -> Act]
      BY <2>7, NoActs DEF Returns, WebTypeOK
    <3>5. own' \in [Choices -> Versions]
      BY <2>7, <3>1 DEF Returns, WebTypeOK, Paths
    <3>6. crossed' \in BOOLEAN
      BY <2>7, CrossesIsBoolean DEF Returns, WebTypeOK
    <3>7. loading' \in BOOLEAN /\ failed' \in BOOLEAN
      BY <2>7 DEF Returns, LoadingAny
    <3>8. UNCHANGED <<page, shown, version>>
      BY <2>7 DEF Returns
    <3> QED
      BY <3>2, <3>3, <3>4, <3>5, <3>6, <3>7, <3>8 DEF WebTypeOK
  <2>8. ASSUME NEW a \in Acts, ActFails(a) PROVE WebTypeOK'
    BY <2>8, NoActs DEF ActFails, WebTypeOK
  <2>9. ASSUME NEW l \in Loads, Lists(l) PROVE WebTypeOK'
    <3>1. load[l] \in Load /\ load[l] # NoLoad
      BY <2>9 DEF Lists, WebTypeOK, NoLoad
    <3>2. load[l].of \in Choices
      BY <3>1 DEF Load
    <3>3. version[load[l].of] \in Versions
      BY <3>2 DEF WebTypeOK
    <3>4. [load[l] EXCEPT !.stage = "answered", !.at = version[load[l].of]] \in Load
      BY <3>1, <3>3 DEF Load
    <3> QED
      BY <2>9, <3>4 DEF Lists, WebTypeOK
  <2>10. ASSUME NEW l \in Loads, Arrives(l) PROVE WebTypeOK'
    <3>1. load[l] \in Load /\ NoLoad \in Load
      BY WebAssumption DEF WebTypeOK, NoLoad, Load, Paths, Versions
    <3>2. [of |-> load[l].of, at |-> load[l].at] \in [of : Paths, at : Versions]
      BY <3>1, WebAssumption DEF Load, NoLoad, Paths, Versions
    <3> QED
      BY <2>10, <3>1, <3>2 DEF Arrives, WebTypeOK
  <2>11. ASSUME NEW l \in Loads, LoadFails(l) PROVE WebTypeOK'
    <3>1. NoLoad \in Load
      BY WebAssumption DEF NoLoad, Load, Paths, Versions
    <3> QED
      BY <2>11, <3>1, FallbackRows DEF LoadFails, WebTypeOK
  <2>12. CASE UNCHANGED webVars
    BY <2>12 DEF webVars, WebTypeOK
  <2> QED
    BY <2>1, <2>2, <2>3, <2>4, <2>5, <2>6, <2>7, <2>8, <2>9, <2>10, <2>11, <2>12
    DEF WebNext
<1> QED
  BY <1>1, <1>2, PTL DEF WebSpec

-----------------------------------------------------------------------------
(* The load of the effect                                                  *)

\* One load at most is not a reload, and it is of the choice c.
OneEffect(f, c) ==
    \A l \in Loads :
        Busy(f, l) /\ ~f[l].reload =>
            f[l].of = c /\ \A m \in Loads : m # l /\ Busy(f, m) => f[m].reload

\* What is in flight, of whatever kind, may answer for another choice than c,
\* or in any order.
Strays(f, w, c) ==
    \/ \E l \in Loads : Busy(f, l) /\ f[l].of # c
    \/ \E l, m \in Loads : l # m /\ Busy(f, l) /\ Busy(f, m)
    \/ \E a \in Acts : Busy(w, a) /\ w[a].kind.reloads /\ w[a].on # c

\* Only reloads stray.
LEMMA OneEffectStrays ==
    ASSUME NEW f, NEW w, NEW c, OneEffect(f, c), Strays(f, w, c)
    PROVE  Crosses(f, w, c)
  BY DEF OneEffect, Strays, Crosses

LEMMA ReloadsBesideEffect ==
    ASSUME NEW f \in [Loads -> Load], NEW on \in Paths, NEW c, OneEffect(f, c),
           NEW g \in Starts(f, on, TRUE)
    PROVE  OneEffect(g, c)
<1> DEFINE r == TRUE
<1>0. r \in BOOLEAN /\ g \in Starts(f, on, r)
  OBVIOUS
<1> HIDE DEF r
<1>1. CASE on = Nothing
  <2>1. g = f
    BY <1>0, <1>1, StartsOne
  <2> QED
    BY <2>1
<1>2. CASE on # Nothing
  <2>1. PICK l \in Loads : /\ g[l] = [stage |-> "asked", of |-> on, at |-> 0, reload |-> r]
                           /\ ~Busy(f, l)
                           /\ \A m \in Loads : m # l => g[m] = f[m]
    BY <1>0, <1>2, StartsOne
  <2> QED
    BY <2>1 DEF OneEffect, Busy, r
<1> QED
  BY <1>1, <1>2

\* The effect starts its load when no other is left but reloads.
LEMMA StartsEffect ==
    ASSUME NEW f \in [Loads -> Load], NEW c \in Paths,
           \A l \in Loads : Busy(f, l) => f[l].reload,
           NEW g \in Starts(f, c, FALSE)
    PROVE  OneEffect(g, c)
<1> DEFINE r == FALSE
<1>0. r \in BOOLEAN /\ g \in Starts(f, c, r)
  OBVIOUS
<1> HIDE DEF r
<1>1. CASE c = Nothing
  <2>1. g = f
    BY <1>1 DEF Starts
  <2> QED
    BY <2>1 DEF OneEffect
<1>2. CASE c # Nothing
  <2>1. PICK l \in Loads : /\ g[l] = [stage |-> "asked", of |-> c, at |-> 0, reload |-> r]
                           /\ \A m \in Loads : m # l => g[m] = f[m]
    BY <1>0, <1>2, StartsOne
  <2>2. \A m \in Loads : m # l /\ Busy(g, m) => g[m].reload
    BY <2>1 DEF Busy
  <2>3. g[l].of = c
    BY <2>1
  <2> QED
    BY <2>2, <2>3 DEF OneEffect
<1> QED
  BY <1>1, <1>2

LEMMA FollowsEffect ==
    ASSUME NEW f \in [Loads -> Load], NEW c \in Paths, NEW g \in Follows(f, c)
    PROVE  g \in [Loads -> Load] /\ OneEffect(g, c)
<1> DEFINE r == FALSE
<1>1. Cancelled(f) \in [Loads -> Load]
      /\ \A l \in Loads : Busy(Cancelled(f), l) => Cancelled(f)[l].reload
  BY CancelledLoads
<1>2. r \in BOOLEAN /\ g \in Starts(Cancelled(f), c, r)
  BY DEF Follows
<1>3. OneEffect(g, c)
  BY <1>1, <1>2, StartsEffect
<1> HIDE DEF r
<1> QED
  BY <1>1, <1>2, <1>3, StartsOne

LEMMA MountsEffect ==
    ASSUME NEW c \in Paths, NEW g \in Starts([l \in Loads |-> NoLoad], c, FALSE)
    PROVE  OneEffect(g, c)
<1>1. \A l \in Loads : ~Busy([m \in Loads |-> NoLoad], l)
  BY DEF Busy, NoLoad
<1> QED
  BY <1>1, NoLoads, StartsEffect

\* A load that is answered, or has ended, is of the kind and the choice it was.
LEMMA SameEffect ==
    ASSUME WebTypeOK, OneEffect(load, chosen), NEW l \in Loads,
           Lists(l) \/ Arrives(l) \/ LoadFails(l)
    PROVE  OneEffect(load', chosen')
<1>1. chosen' = chosen
  BY DEF Lists, Arrives, LoadFails
<1>2. \A m \in Loads : Busy(load', m) =>
        Busy(load, m) /\ load'[m].of = load[m].of /\ load'[m].reload = load[m].reload
  <2>1. CASE Lists(l)
    <3>1. load[l] \in Load /\ load[l] # NoLoad
      BY <2>1 DEF Lists, WebTypeOK, NoLoad
    <3>2. /\ load' = [load EXCEPT ![l] = [@ EXCEPT !.stage = "answered",
                                            !.at = version[load[l].of]]]
          /\ Busy(load, l)
      BY <2>1 DEF Lists, Busy
    <3> QED
      BY <3>1, <3>2 DEF WebTypeOK, Load, Busy
  <2>2. CASE Arrives(l) \/ LoadFails(l)
    <3>1. load' = [load EXCEPT ![l] = NoLoad]
      BY <2>2 DEF Arrives, LoadFails
    <3> QED
      BY <3>1 DEF WebTypeOK, Busy, NoLoad
  <2> QED
    BY <2>1, <2>2
<1> QED
  BY <1>1, <1>2 DEF OneEffect

\* The cleanup of the effect leaves one load that a choice has caused.
LEMMA EffectIsOne == WebSpec => []OneEffect(load, chosen)
<1>1. WebInit => OneEffect(load, chosen)
  <2> SUFFICES ASSUME WebInit PROVE OneEffect(load, chosen)
    OBVIOUS
  <2>1. chosen \in Paths
    BY WebAssumption DEF WebInit, Paths
  <2> QED
    BY <2>1, MountsEffect DEF WebInit
<1>2. WebTypeOK /\ OneEffect(load, chosen) /\ [WebNext]_webVars
        => OneEffect(load, chosen)'
  <2> SUFFICES ASSUME WebTypeOK, OneEffect(load, chosen), [WebNext]_webVars
               PROVE  OneEffect(load', chosen')
    BY DEF OneEffect, Busy
  <2>1. CASE Reopens
    <3>0. page.opens \in {"kept", "first", "none"}
      BY PageOfShape DEF WebTypeOK
    <3>1. PICK c \in Paths : MountsOn(c)
      BY <2>1, <3>0, WebAssumption DEF Reopens, WebTypeOK, Paths
    <3> QED
      BY <3>1, MountsEffect DEF MountsOn
  <2>2. ASSUME NEW c \in Paths, Chooses(c) PROVE OneEffect(load', chosen')
    BY <2>2, FollowsEffect DEF Chooses, WebTypeOK
  <2>3. CASE Reloads
    BY <2>3, ReloadsBesideEffect DEF Reloads, WebTypeOK
  <2>4. ASSUME NEW a \in Acts, Returns(a) PROVE OneEffect(load', chosen')
    <3>1. chosen' \in Paths /\ act[a].on \in Paths
      BY <2>4 DEF Returns, Moves, WebTypeOK, Act
    <3>2. PICK f \in IF chosen' = chosen THEN {load} ELSE Follows(load, chosen') :
            load' \in IF act[a].kind.reloads THEN Starts(f, act[a].on, TRUE) ELSE {f}
      BY <2>4 DEF Returns
    <3>3. f \in [Loads -> Load] /\ OneEffect(f, chosen')
      <4>1. CASE chosen' = chosen
        BY <3>2, <4>1 DEF WebTypeOK
      <4>2. CASE chosen' # chosen
        BY <3>1, <3>2, <4>2, FollowsEffect DEF WebTypeOK
      <4> QED
        BY <4>1, <4>2
    <3> QED
      BY <3>1, <3>2, <3>3, ReloadsBesideEffect
  <2>5. ASSUME NEW l \in Loads, Lists(l) \/ Arrives(l) \/ LoadFails(l)
        PROVE  OneEffect(load', chosen')
    BY <2>5, SameEffect
  <2>6. CASE UNCHANGED <<load, chosen>>
    BY <2>6
  <2> QED
    BY <2>1, <2>2, <2>3, <2>4, <2>5, <2>6
    DEF WebNext, webVars, Presses, OthersChange, Executes, ActFails
<1> QED
  BY <1>1, <1>2, WebTypeCorrect, PTL DEF WebSpec

-----------------------------------------------------------------------------
(* What a page shows                                                       *)

\* Unless loads have crossed, what is in flight is one load of the choice, the
\* page says that it loads, and the answer holds what the page has changed.
LoadIsMeant ==
    ~crossed =>
        /\ ~Strays(load, act, chosen)
        /\ \A l \in Loads :
             Busy(load, l) =>
                loading /\ (load[l].stage = "answered" => own[chosen] <= load[l].at)

\* A page knows of nothing the server has not done.
KnownIsDone ==
    /\ \A c \in Choices : own[c] <= version[c]
    /\ \A a \in Acts : act[a].stage = "answered" /\ act[a].to # Nothing
                        => act[a].at <= version[act[a].to]

FailureIsBlank == failed => shown.of = Nothing

WebInd ==
    LoadIsMeant /\ KnownIsDone /\ FailureIsBlank /\ ShowsTheChosen /\ ActsAreMeant

LEMMA BusyLoadHasChoice ==
    ASSUME NEW f \in [Loads -> Load], NEW l \in Loads, Busy(f, l)
    PROVE  f[l].of \in Choices /\ f[l].of # Nothing
  BY WebAssumption DEF Busy, Load, NoLoad

\* A load that has crossed nothing is of the choice, and the only one.
LEMMA StartedAlone ==
    ASSUME NEW f \in [Loads -> Load], NEW c \in Choices, NEW r \in BOOLEAN,
           NEW g \in Starts(f, c, r), NEW w, NEW d, ~Strays(g, w, d)
    PROVE  d = c /\ \A l \in Loads : Busy(g, l) => g[l].stage = "asked"
<1>1. c \in Paths /\ c # Nothing
  BY WebAssumption DEF Paths
<1>2. PICK l \in Loads :
        g[l] = [stage |-> "asked", of |-> c, at |-> 0, reload |-> r]
  BY <1>1, StartsOne
<1>3. Busy(g, l) /\ g[l].of = c /\ g[l].stage = "asked"
  BY <1>2 DEF Busy
<1> QED
  BY <1>3 DEF Strays

\* The effect of another choice, when it has crossed nothing.
LEMMA FollowedAlone ==
    ASSUME NEW f \in [Loads -> Load], NEW c \in Paths,
           NEW g \in Follows(f, c), NEW w, ~Strays(g, w, c)
    PROVE  /\ \A l \in Loads : Busy(g, l) => g[l].stage = "asked"
           /\ c = Nothing => \A l \in Loads : ~Busy(g, l)
<1>1. Cancelled(f) \in [Loads -> Load]
  BY CancelledLoads
<1>2. CASE c = Nothing
  <2>1. g = Cancelled(f)
    BY <1>2 DEF Follows, Starts
  <2>2. ASSUME NEW l \in Loads, Busy(g, l) PROVE FALSE
    BY <1>1, <1>2, <2>1, <2>2, BusyLoadHasChoice DEF Strays
  <2> QED
    BY <2>2
<1>3. CASE c # Nothing
  <2> DEFINE r == FALSE
  <2>1. c \in Choices /\ r \in BOOLEAN /\ g \in Starts(Cancelled(f), c, r)
    BY <1>3 DEF Follows, Paths
  <2> HIDE DEF r
  <2>2. \A l \in Loads : Busy(g, l) => g[l].stage = "asked"
    BY <1>1, <2>1, StartedAlone
  <2> QED
    BY <1>3, <2>2
<1> QED
  BY <1>2, <1>3

\* A page that is mounted has crossed nothing.
LEMMA MountedAlone ==
    ASSUME NEW c \in Paths, NEW w \in Detects([a \in Acts |-> NoAct], c),
           NEW f \in Starts([l \in Loads |-> NoLoad], c, FALSE)
    PROVE  /\ ~Strays(f, w, c)
           /\ \A l \in Loads : Busy(f, l) => f[l].stage = "asked" /\ c # Nothing
           /\ \A a \in Acts : Busy(w, a) => w[a].stage = "asked" /\ w[a].to = w[a].seen
<1>1. \A l \in Loads : ~Busy([m \in Loads |-> NoLoad], l)
  BY DEF Busy, NoLoad
<1>2. \A a \in Acts : Busy(w, a) =>
        w[a].stage = "asked" /\ w[a].on = c /\ w[a].to = w[a].seen
  <2> TAKE a \in Acts
  <2>1. [b \in Acts |-> NoAct][a].stage = "idle"
    BY DEF NoAct
  <2> QED
    BY <2>1, NoActs, DetectsOne DEF Busy
<1>3. CASE c = Nothing
  <2>1. f = [l \in Loads |-> NoLoad]
    BY <1>3 DEF Starts
  <2> QED
    BY <1>1, <1>2, <2>1 DEF Strays
<1>4. CASE c # Nothing
  <2> DEFINE none == [l \in Loads |-> NoLoad]
             r == FALSE
  <2>0. none \in [Loads -> Load] /\ r \in BOOLEAN /\ f \in Starts(none, c, r)
    BY NoLoads
  <2> HIDE DEF none, r
  <2>1. PICK l \in Loads :
          /\ f[l] = [stage |-> "asked", of |-> c, at |-> 0, reload |-> r]
          /\ \A m \in Loads : m # l => f[m] = none[m]
    BY <1>4, <2>0, StartsOne
  <2>2. \A m \in Loads : Busy(f, m) => m = l
    BY <1>1, <2>1 DEF Busy, none
  <2>3. f[l].stage = "asked" /\ f[l].of = c
    BY <2>1
  <2> QED
    BY <1>2, <1>4, <2>2, <2>3 DEF Strays
<1> QED
  BY <1>3, <1>4

LEMMA InitialPage == WebInit => WebInd
<1> SUFFICES ASSUME WebInit PROVE WebInd
  OBVIOUS
<1>1. chosen \in Paths /\ ~crossed /\ ~failed /\ loading = (chosen # Nothing)
  BY WebAssumption DEF WebInit, Paths
<1>2. /\ ~Strays(load, act, chosen)
      /\ \A l \in Loads : Busy(load, l) => load[l].stage = "asked" /\ chosen # Nothing
      /\ \A a \in Acts : Busy(act, a) => act[a].stage = "asked" /\ act[a].to = act[a].seen
  BY <1>1, MountedAlone DEF WebInit
<1>3. LoadIsMeant
  BY <1>1, <1>2 DEF LoadIsMeant
<1>4. KnownIsDone
  BY <1>2 DEF WebInit, KnownIsDone, Busy
<1>5. FailureIsBlank /\ ShowsTheChosen
  BY <1>1 DEF FailureIsBlank, ShowsTheChosen
<1>6. ActsAreMeant
  BY <1>2 DEF ActsAreMeant, Busy
<1> QED
  BY <1>3, <1>4, <1>5, <1>6 DEF WebInd

LEMMA ReopenedPage == WebTypeOK /\ WebInd /\ Reopens => WebInd'
<1> SUFFICES ASSUME WebTypeOK, WebInd, Reopens PROVE WebInd'
  OBVIOUS
<1>0. page.opens \in {"kept", "first", "none"}
  BY PageOfShape DEF WebTypeOK
<1>1. PICK c \in Paths : MountsOn(c)
  BY <1>0, WebAssumption DEF Reopens, WebTypeOK, Paths
<1>2. /\ ~Strays(load', act', c)
      /\ \A l \in Loads : Busy(load', l) => load'[l].stage = "asked" /\ c # Nothing
      /\ \A a \in Acts : Busy(act', a) => act'[a].stage = "asked" /\ act'[a].to = act'[a].seen
  BY <1>1, MountedAlone DEF MountsOn
<1>3. /\ chosen' = c /\ ~crossed' /\ ~failed' /\ loading' = (c # Nothing)
      /\ own' = [d \in Choices |-> 0] /\ version' = version
  BY <1>1 DEF MountsOn, Reopens
<1>4. LoadIsMeant'
  BY <1>2, <1>3 DEF LoadIsMeant
<1>5. KnownIsDone'
  BY <1>2, <1>3, WebAssumption DEF KnownIsDone, Busy, WebTypeOK, Versions
<1>6. FailureIsBlank' /\ ShowsTheChosen'
  BY <1>3 DEF FailureIsBlank, ShowsTheChosen
<1>7. ActsAreMeant'
  BY <1>2 DEF ActsAreMeant, Busy
<1> QED
  BY <1>4, <1>5, <1>6, <1>7 DEF WebInd

LEMMA ChosenPage ==
    ASSUME WebTypeOK, WebInd, OneEffect(load', chosen'), NEW c \in Paths, Chooses(c)
    PROVE  WebInd'
<1>1. \A a \in Acts : \/ act'[a] = act[a]
                      \/ act'[a].stage = "asked" /\ act'[a].to = act'[a].seen
  BY DetectsOne DEF Chooses, WebTypeOK
<1>2. ~crossed' => /\ ~Strays(load', act', c)
                   /\ \A l \in Loads : Busy(load', l) => load'[l].stage = "asked"
                   /\ c = Nothing => \A l \in Loads : ~Busy(load', l)
  <2>1. ~crossed' => ~Strays(load', act', c)
    BY OneEffectStrays DEF Chooses
  <2> QED
    BY <2>1, FollowedAlone DEF Chooses, WebTypeOK
<1>3. (c # Nothing => loading') /\ (failed' => failed) /\ chosen' = c
  BY DEF Chooses, LoadingAny
<1>4. UNCHANGED <<shown, version, own>>
  BY DEF Chooses
<1>5. LoadIsMeant'
  BY <1>2, <1>3 DEF LoadIsMeant
<1>6. KnownIsDone'
  BY <1>1, <1>4 DEF WebInd, KnownIsDone
<1>7. FailureIsBlank' /\ ShowsTheChosen'
  BY <1>3, <1>4 DEF WebInd, FailureIsBlank, ShowsTheChosen
<1>8. ActsAreMeant'
  BY <1>1 DEF WebInd, ActsAreMeant
<1> QED
  BY <1>5, <1>6, <1>7, <1>8 DEF WebInd

LEMMA ReloadedPage ==
    ASSUME WebTypeOK, WebInd, OneEffect(load', chosen'), Reloads PROVE WebInd'
<1>1. chosen \in Choices /\ load' \in Starts(load, chosen, TRUE)
  BY DEF Reloads, WebTypeOK, Paths
<1>2. ~crossed' => /\ ~Strays(load', act, chosen)
                   /\ \A l \in Loads : Busy(load', l) => load'[l].stage = "asked"
  <2> DEFINE r == TRUE
  <2>0. r \in BOOLEAN /\ load' \in Starts(load, chosen, r)
    BY <1>1
  <2> HIDE DEF r
  <2>1. ~crossed' => ~Strays(load', act, chosen)
    BY OneEffectStrays DEF Reloads
  <2> QED
    BY <1>1, <2>0, <2>1, StartedAlone DEF WebTypeOK
<1>3. loading' /\ (failed' => failed)
  BY DEF Reloads, LoadingAny
<1>4. UNCHANGED <<chosen, shown, act, version, own>>
  BY DEF Reloads
<1>5. LoadIsMeant'
  BY <1>2, <1>3, <1>4 DEF LoadIsMeant
<1>6. KnownIsDone' /\ FailureIsBlank' /\ ShowsTheChosen' /\ ActsAreMeant'
  BY <1>3, <1>4 DEF WebInd, KnownIsDone, FailureIsBlank, ShowsTheChosen, ActsAreMeant
<1> QED
  BY <1>5, <1>6 DEF WebInd

LEMMA PressedPage ==
    ASSUME WebTypeOK, WebInd, NEW a \in Acts, NEW k \in page.handlers, Presses(a, k)
    PROVE  WebInd'
<1>1. UNCHANGED <<chosen, shown, loading, failed, load, version, own, crossed>>
  BY DEF Presses
<1>2. /\ \A b \in Acts : b # a => act'[b] = act[b]
      /\ act'[a].stage = "asked" /\ act'[a].on = chosen
      /\ act'[a].seen = IF k.says = "choice" THEN chosen ELSE shown.of
      /\ act'[a].to = IF k.says = "row" THEN shown.of ELSE chosen
      /\ ~act'[a].hasty => ~loading /\ ~crossed /\ chosen # Nothing
  <2> DEFINE hasty == loading \/ crossed \/ chosen = Nothing
             new == [NoAct EXCEPT !.stage = "asked", !.kind = k, !.on = chosen,
                      !.seen = IF k.says = "choice" THEN chosen ELSE shown.of,
                      !.to = IF k.says = "row" THEN shown.of ELSE chosen,
                      !.hasty = hasty]
  <2> HIDE DEF hasty
  <2>1. /\ new.stage = "asked" /\ new.on = chosen
        /\ new.seen = IF k.says = "choice" THEN chosen ELSE shown.of
        /\ new.to = IF k.says = "row" THEN shown.of ELSE chosen
        /\ new.hasty = hasty
    BY NoActs DEF Act
  <2>2. act' = [act EXCEPT ![a] = new]
    BY DEF Presses, hasty
  <2> HIDE DEF new
  <2>3. act'[a] = new /\ \A b \in Acts : b # a => act'[b] = act[b]
    BY <2>2 DEF WebTypeOK
  <2> QED
    BY <2>1, <2>3 DEF hasty
<1>3. LoadIsMeant'
  <2>1. ~crossed => ~Strays(load, act', chosen)
    BY <1>2 DEF WebInd, LoadIsMeant, Strays, Busy
  <2> QED
    BY <1>1, <2>1 DEF WebInd, LoadIsMeant
<1>4. KnownIsDone'
  BY <1>1, <1>2 DEF WebInd, KnownIsDone
<1>5. FailureIsBlank' /\ ShowsTheChosen'
  BY <1>1 DEF WebInd, FailureIsBlank, ShowsTheChosen
<1>6. ActsAreMeant'
  <2>1. k.says # "choice" => shown.of # Nothing
    BY DEF Presses
  <2>2. ~act'[a].hasty => act'[a].to = act'[a].seen
    BY <1>2, <2>1 DEF WebInd, ShowsTheChosen, FailureIsBlank
  <2> QED
    BY <1>2, <2>2 DEF WebInd, ActsAreMeant
<1> QED
  BY <1>3, <1>4, <1>5, <1>6 DEF WebInd

\* What the server does raises the versions, and answers.
LEMMA ServedPage ==
    ASSUME WebTypeOK, WebInd,
           \/ \E c \in Choices : OthersChange(c)
           \/ \E a \in Acts : Executes(a)
    PROVE  WebInd'
<1>1. UNCHANGED <<chosen, shown, loading, failed, load, own, crossed>>
  BY DEF OthersChange, Executes
<1>2. \A c \in Choices : version[c] \in Int /\ own[c] \in Int
  <2> TAKE c \in Choices
  <2>1. version[c] \in Versions /\ own[c] \in Versions
    BY DEF WebTypeOK
  <2> QED
    BY <2>1, WebAssumption DEF Versions
<1>3. \/ version' = version
      \/ \E c \in Choices : version' = [version EXCEPT ![c] = @ + 1]
  <2>1. CASE \E c \in Choices : OthersChange(c)
    BY <2>1 DEF OthersChange
  <2>2. CASE \E a \in Acts : Executes(a)
    <3>1. PICK a \in Acts : Executes(a)
      BY <2>2
    <3>2. act[a].to \in Paths
      BY DEF WebTypeOK, Act
    <3> QED
      BY <3>1, <3>2 DEF Executes, Paths
  <2> QED
    BY <2>1, <2>2
<1>4. \A c \in Choices : version'[c] \in Int /\ version[c] <= version'[c]
  BY <1>2, <1>3 DEF WebTypeOK
<1>5. ASSUME NEW a \in Acts
       PROVE  /\ Busy(act', a) => Busy(act, a)
              /\ act'[a].kind = act[a].kind /\ act'[a].on = act[a].on
              /\ act'[a].to = act[a].to /\ act'[a].seen = act[a].seen
              /\ act'[a].hasty = act[a].hasty
  <2>1. CASE act' = act
    BY <2>1 DEF Busy
  <2>2. CASE act' # act
    <3>1. PICK b \in Acts : Executes(b)
      BY <2>2 DEF OthersChange
    <3>2. act[a] \in Act /\ act \in [Acts -> Act]
      BY DEF WebTypeOK
    <3>3. CASE a = b
      BY <3>1, <3>2, <3>3 DEF Executes, Act, Busy
    <3>4. CASE a # b
      BY <3>1, <3>2, <3>4 DEF Executes, Busy
    <3> QED
      BY <3>3, <3>4
  <2> QED
    BY <2>1, <2>2
<1>6. LoadIsMeant'
  BY <1>1, <1>5 DEF WebInd, LoadIsMeant, Strays
<1>7. KnownIsDone'
  <2>1. \A c \in Choices : own'[c] <= version'[c]
    BY <1>1, <1>2, <1>4 DEF WebInd, KnownIsDone
  <2>2. ASSUME NEW a \in Acts, act'[a].stage = "answered", act'[a].to # Nothing
        PROVE  act'[a].at <= version'[act'[a].to]
    <3>1. act[a].to \in Choices /\ act[a].at \in Int
      BY <1>5, <2>2, WebAssumption DEF WebTypeOK, Act, Paths, Versions
    <3>2. CASE act'[a] = act[a]
      BY <1>2, <1>4, <2>2, <3>1, <3>2 DEF WebInd, KnownIsDone
    <3>3. CASE act'[a] # act[a]
      <4>1. PICK b \in Acts : Executes(b)
        BY <3>3 DEF OthersChange
      <4>2. b = a
        BY <3>3, <4>1 DEF Executes, WebTypeOK
      <4>3. act'[a].at = version'[act[a].to]
        BY <1>5, <2>2, <4>1, <4>2 DEF Executes, WebTypeOK, Act
      <4> QED
        BY <1>5, <1>4, <3>1, <4>3
    <3> QED
      BY <3>2, <3>3
  <2> QED
    BY <2>1, <2>2 DEF KnownIsDone
<1>8. FailureIsBlank' /\ ShowsTheChosen'
  BY <1>1 DEF WebInd, FailureIsBlank, ShowsTheChosen
<1>9. ActsAreMeant'
  BY <1>5 DEF WebInd, ActsAreMeant, Busy
<1> QED
  BY <1>6, <1>7, <1>8, <1>9 DEF WebInd

LEMMA ListedPage ==
    ASSUME WebTypeOK, WebInd, NEW l \in Loads, Lists(l) PROVE WebInd'
<1>1. UNCHANGED <<chosen, shown, loading, failed, act, version, own, crossed>>
  BY DEF Lists
<1>2. /\ load'[l].of = load[l].of /\ Busy(load, l)
      /\ load'[l].at = version[load[l].of]
      /\ \A m \in Loads : m # l => load'[m] = load[m]
  <2>1. load[l] \in Load /\ load[l] # NoLoad
    BY DEF Lists, WebTypeOK, NoLoad
  <2> QED
    BY <2>1 DEF Lists, WebTypeOK, Load, Busy
<1>3. LoadIsMeant'
  <2> SUFFICES ASSUME ~crossed
               PROVE  /\ ~Strays(load', act, chosen)
                      /\ \A m \in Loads : Busy(load', m) =>
                           loading /\ (load'[m].stage = "answered"
                                        => own[chosen] <= load'[m].at)
    BY <1>1 DEF LoadIsMeant
  <2>1. ~Strays(load, act, chosen) /\ loading
    BY <1>2 DEF WebInd, LoadIsMeant
  <2>2. \A m \in Loads : Busy(load', m) => m = l
    BY <1>2, <2>1 DEF Strays, Busy
  <2>3. load[l].of = chosen /\ chosen \in Choices
    BY <1>2, <2>1, BusyLoadHasChoice DEF Strays, WebTypeOK
  <2>4. own[chosen] <= load'[l].at
    BY <1>2, <2>3 DEF WebInd, KnownIsDone
  <2>5. ~Strays(load', act, chosen)
    BY <1>2, <2>1, <2>2, <2>3 DEF Strays
  <2> QED
    BY <2>1, <2>2, <2>4, <2>5
<1>4. KnownIsDone' /\ FailureIsBlank' /\ ShowsTheChosen' /\ ActsAreMeant'
  BY <1>1 DEF WebInd, KnownIsDone, FailureIsBlank, ShowsTheChosen, ActsAreMeant
<1> QED
  BY <1>3, <1>4 DEF WebInd

\* A load that ends was the only one, unless loads have crossed.
LEMMA EndedAlone ==
    ASSUME WebTypeOK, WebInd, NEW l \in Loads, Busy(load, l), ~crossed,
           UNCHANGED <<act, chosen, crossed>>, load' = [load EXCEPT ![l] = NoLoad]
    PROVE  LoadIsMeant' /\ load[l].of = chosen
<1>1. ~Strays(load, act, chosen)
  BY DEF WebInd, LoadIsMeant
<1>2. load'[l].stage = "idle" /\ \A m \in Loads : m # l => load'[m] = load[m]
  BY DEF NoLoad, WebTypeOK
<1>3. \A m \in Loads : ~Busy(load', m)
  BY <1>1, <1>2 DEF Strays, Busy
<1> QED
  BY <1>1, <1>3 DEF Strays, LoadIsMeant

LEMMA ArrivedPage ==
    ASSUME WebTypeOK, WebInd, NEW l \in Loads, Arrives(l) PROVE WebInd'
<1>1. Busy(load, l) /\ load' = [load EXCEPT ![l] = NoLoad]
  BY DEF Arrives, Busy
<1>2. /\ shown'.of = load[l].of /\ shown'.at = load[l].at
      /\ ~failed' /\ UNCHANGED <<chosen, act, version, own, crossed>>
  BY DEF Arrives
<1>3. ~crossed => LoadIsMeant' /\ load[l].of = chosen
  BY <1>1, <1>2, EndedAlone
<1>4. ~crossed => own[chosen] <= load[l].at
  BY <1>1 DEF Arrives, WebInd, LoadIsMeant
<1>5. LoadIsMeant'
  BY <1>2, <1>3 DEF LoadIsMeant
<1>6. ShowsTheChosen'
  <2> SUFFICES ASSUME ~crossed, chosen # Nothing
               PROVE  shown'.of = chosen /\ shown'.at >= own[chosen]
    BY <1>2 DEF ShowsTheChosen
  <2>1. load[l].at \in Int /\ own[chosen] \in Int
    BY WebAssumption DEF WebTypeOK, Load, NoLoad, Versions, Paths
  <2> QED
    BY <1>2, <1>3, <1>4, <2>1
<1>7. KnownIsDone' /\ FailureIsBlank' /\ ActsAreMeant'
  BY <1>2 DEF WebInd, KnownIsDone, FailureIsBlank, ActsAreMeant
<1> QED
  BY <1>5, <1>6, <1>7 DEF WebInd

LEMMA FailedPage ==
    ASSUME WebTypeOK, WebInd, NEW l \in Loads, LoadFails(l) PROVE WebInd'
<1>1. Busy(load, l) /\ load' = [load EXCEPT ![l] = NoLoad]
  BY DEF LoadFails
<1>2. /\ shown'.of = Nothing /\ failed'
      /\ UNCHANGED <<chosen, act, version, own, crossed>>
  BY DEF LoadFails, Fallback
<1>3. LoadIsMeant'
  BY <1>1, <1>2, EndedAlone DEF LoadIsMeant
<1>4. KnownIsDone' /\ FailureIsBlank' /\ ShowsTheChosen' /\ ActsAreMeant'
  BY <1>2 DEF WebInd, KnownIsDone, FailureIsBlank, ShowsTheChosen, ActsAreMeant
<1> QED
  BY <1>3, <1>4 DEF WebInd

\* An act that ends takes nothing from what is known of the others.
LEMMA ActEnded ==
    ASSUME WebTypeOK, WebInd, NEW a \in Acts, act' = [act EXCEPT ![a] = NoAct]
    PROVE  /\ ActsAreMeant'
           /\ \A b \in Acts : act'[b] = act[b] \/ act'[b].stage = "idle"
  BY DEF WebInd, ActsAreMeant, WebTypeOK, NoAct

LEMMA ActFailedPage ==
    ASSUME WebTypeOK, WebInd, NEW a \in Acts, ActFails(a) PROVE WebInd'
<1>1. act' = [act EXCEPT ![a] = NoAct]
  BY DEF ActFails
<1>2. UNCHANGED <<page, chosen, shown, loading, failed, load, version, own, crossed>>
  BY DEF ActFails
<1>3. /\ ActsAreMeant'
      /\ \A b \in Acts : act'[b] = act[b] \/ act'[b].stage = "idle"
  BY <1>1, ActEnded
<1>4. LoadIsMeant'
  BY <1>2, <1>3 DEF WebInd, LoadIsMeant, Strays, Busy
<1>5. KnownIsDone' /\ FailureIsBlank' /\ ShowsTheChosen'
  BY <1>2, <1>3 DEF WebInd, KnownIsDone, FailureIsBlank, ShowsTheChosen
<1> QED
  BY <1>3, <1>4, <1>5 DEF WebInd

LEMMA ReturnedPage ==
    ASSUME WebTypeOK, WebInd, OneEffect(load', chosen'), NEW a \in Acts, Returns(a)
    PROVE  WebInd'
<1> DEFINE on == act[a].on
           k == act[a].kind
           asks == k.reloads /\ on # Nothing
<1>1. act' = [act EXCEPT ![a] = NoAct] /\ UNCHANGED <<page, shown, version>>
      /\ act[a].stage = "answered" /\ act[a] \in Act /\ on \in Paths
  BY DEF Returns, WebTypeOK, Act
<1>2. /\ ActsAreMeant'
      /\ \A b \in Acts : act'[b] = act[b] \/ act'[b].stage = "idle"
  BY <1>1, ActEnded
<1>3. /\ own' = IF k.reloads /\ act[a].to = on /\ on # Nothing /\ own[on] < act[a].at
                THEN [own EXCEPT ![on] = act[a].at] ELSE own
  BY DEF Returns
<1>4. PICK f \in IF chosen' = chosen THEN {load} ELSE Follows(load, chosen') :
        load' \in IF k.reloads THEN Starts(f, on, TRUE) ELSE {f}
  BY DEF Returns
<1>5. /\ loading' = (loading \/ ({c \in {on} : k.reloads}
                        \cup {c \in {chosen'} : c # chosen}) \ {Nothing} # {})
      /\ failed' = (failed /\ ({c \in {on} : k.reloads}
                        \cup {c \in {chosen'} : c # chosen}) \ {Nothing} = {})
      /\ crossed' = IF asks \/ chosen' # chosen
                    THEN Crosses(load', act', chosen') ELSE crossed
  BY DEF Returns, LoadingAny
<1>11. ~crossed' /\ (asks \/ chosen' # chosen) => ~Strays(load', act', chosen')
  BY <1>5, OneEffectStrays
<1>6. chosen' \in Paths
  BY DEF Returns, Moves, WebTypeOK
<1> HIDE DEF on, k
<1>7. f \in [Loads -> Load]
  <2>1. CASE chosen' = chosen
    BY <1>4, <2>1 DEF WebTypeOK
  <2>2. CASE chosen' # chosen
    BY <1>4, <1>6, <2>2, CancelledLoads, StartsOne DEF Follows, WebTypeOK
  <2> QED
    BY <2>1, <2>2
<1>8. KnownIsDone'
  <2>1. \A c \in Choices : own'[c] <= version[c]
    BY <1>1, <1>3 DEF WebInd, KnownIsDone, WebTypeOK
  <2> QED
    BY <1>1, <1>2, <2>1 DEF WebInd, KnownIsDone
<1>9. FailureIsBlank'
  BY <1>1, <1>5 DEF WebInd, FailureIsBlank
<1>10. LoadIsMeant' /\ ShowsTheChosen'
  <2>1. CASE asks
    <3> DEFINE r == TRUE
    <3>1. on \in Choices /\ r \in BOOLEAN /\ load' \in Starts(f, on, r)
      BY <1>1, <1>4, <2>1 DEF Paths
    <3> HIDE DEF r
    <3>2. loading'
      BY <1>5, <2>1
    <3>3. ~crossed' => /\ ~Strays(load', act', chosen')
                       /\ \A l \in Loads : Busy(load', l) => load'[l].stage = "asked"
      BY <1>11, <1>7, <2>1, <3>1, StartedAlone
    <3> QED
      BY <3>2, <3>3 DEF LoadIsMeant, ShowsTheChosen
  <2>2. CASE ~asks /\ chosen' # chosen
    <3>1. load' = f
      BY <1>4, <2>2 DEF Starts
    <3>2. load' \in Follows(load, chosen')
      BY <1>4, <2>2, <3>1
    <3>3. chosen' # Nothing => loading'
      BY <1>5, <2>2
    <3>4. ~crossed' => /\ ~Strays(load', act', chosen')
                       /\ \A l \in Loads : Busy(load', l) => load'[l].stage = "asked"
                       /\ chosen' = Nothing => \A l \in Loads : ~Busy(load', l)
      BY <1>11, <1>6, <2>2, <3>2, FollowedAlone DEF WebTypeOK
    <3> QED
      BY <3>3, <3>4 DEF LoadIsMeant, ShowsTheChosen
  <2>3. CASE ~asks /\ chosen' = chosen
    <3>1. load' = load
      BY <1>4, <2>3 DEF Starts
    <3>2. own' = own
      BY <1>3, <2>3
    <3>3. loading' = loading /\ failed' = failed /\ crossed' = crossed
      BY <1>5, <2>3 DEF WebTypeOK
    <3>4. LoadIsMeant'
      BY <1>2, <2>3, <3>1, <3>2, <3>3 DEF WebInd, LoadIsMeant, Strays, Busy
    <3> QED
      BY <1>1, <2>3, <3>2, <3>3, <3>4 DEF WebInd, ShowsTheChosen
  <2> QED
    BY <2>1, <2>2, <2>3
<1> QED
  BY <1>2, <1>8, <1>9, <1>10 DEF WebInd

\* A page that neither loads nor has failed shows the rows of its choice with
\* the changes it made, unless loads have crossed, and what is sent is about
\* the rows that were shown.
THEOREM PagesKeptTrue == WebSpec => []PagesAreTrue
<1>1. /\ WebTypeOK /\ WebInd /\ OneEffect(load, chosen)' /\ [WebNext]_webVars
      => WebInd'
  <2> SUFFICES ASSUME WebTypeOK, WebInd, OneEffect(load, chosen)', [WebNext]_webVars
               PROVE  WebInd'
    OBVIOUS
  <2>0. OneEffect(load', chosen')
    BY DEF OneEffect, Busy
  <2>1. CASE UNCHANGED webVars
    BY <2>1 DEF webVars, WebInd, LoadIsMeant, KnownIsDone, FailureIsBlank,
                ShowsTheChosen, ActsAreMeant, Strays, Busy
  <2>2. CASE WebNext
    BY <2>0, <2>2, ReopenedPage, ChosenPage, ReloadedPage, PressedPage, ServedPage,
       ListedPage, ArrivedPage, FailedPage, ReturnedPage, ActFailedPage
    DEF WebNext
  <2> QED
    BY <2>1, <2>2
<1>2. WebInd => PagesAreTrue
  BY DEF WebInd, PagesAreTrue
<1> QED
  BY <1>1, <1>2, WebTypeCorrect, EffectIsOne, InitialPage, PTL DEF WebSpec

=============================================================================
