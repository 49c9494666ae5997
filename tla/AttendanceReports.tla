------------------------- MODULE AttendanceReports --------------------------
(***************************************************************************)
(* The other views of the attendance of the employee, each made at its own  *)
(* request: dailyAbsences, whose matching is that of one day, and           *)
(* dashboardKpis, whose matching is that of the summaries but which does    *)
(* not read the declarations (src/apps/api/src/reports/reports.service.ts); *)
(* report and dailyRecords, which count and detail the records              *)
(* (attendance-summary.service.ts).                                         *)
(***************************************************************************)
EXTENDS EmployeeCalendar

\* The absence of a day is due when its shift has started and its margin, in
\* minutes of the day, is over (shiftIsDue).
Due(day, now) ==
    \/ day < today
    \/ /\ day = today
       /\ facts.plan[day] \in Timed =>
              now >= Hours[facts.plan[day]].start + Hours[facts.plan[day]].margin

\* The queries of dailyAbsences: a compensation is not among them.
Justified(day) ==
    facts.sick[day] # "none" \/ day \in facts.leave \cup facts.reversed

\* Mutant: no punch of the day before or of the day after is read.
MutServiceOfDate(day) ==
    ServiceOf(facts.plan[day], day, OnDay(facts.punches, day), facts.fabSec, FALSE)

\* matchDailyAttendance from the day to itself: nothing is known of the shift
\* of the day before, whose exit may be taken for an entry.
ServiceOfDate(day) ==
    LET punches == UNION {OnDay(facts.punches, d) : d \in day - 1 .. day + 1}
    IN ServiceOf(facts.plan[day], day, punches, facts.fabSec, FALSE)

\* The rows of dailyAbsences, and why an employee has none.
AbsenceOf(day, now) ==
    IF \/ ~InContract(facts.contracts, day)
       \/ facts.plan[day] \in {NoShift, "REPOS"} THEN "unplanned"
    ELSE IF Justified(day) THEN "justified"
    ELSE IF ServiceOfDate(day).times # {} THEN "present"
    ELSE IF Due(day, now) THEN "ABSENT"
    ELSE "NOT_DUE"

\* Its totals, which those of the units add up to.
AbsenceTotals(day, now) ==
    LET Count(kinds) == IF AbsenceOf(day, now) \in kinds THEN 1 ELSE 0
    IN [planned |-> Count({"present", "ABSENT", "NOT_DUE"}),
        absent |-> Count({"ABSENT"}), notDue |-> Count({"NOT_DUE"})]

\* dashboardKpis reads the rows of pointagePlanning until today.
Pointages ==
    [plan |-> facts.plan, single |-> FALSE, employees |-> facts.contracts,
     services |-> Services(facts.plan, facts.punches, Min({today, Days}),
                           facts.fabSec, FALSE)]

Trend(pointages) ==
    [day \in 1 .. Min({today, Days}) |->
        IF HasRow(pointages, day) THEN ServiceStatus(pointages, day) ELSE "none"]

DashboardKpis(now) ==
    LET trend == Trend(Pointages)
    IN [absencesToday |->
            IF today \in Period THEN AbsenceTotals(today, now).absent ELSE 0,
        monthlyAbsences |-> {day \in DOMAIN trend : trend[day] = "ABSENT"},
        attendanceTrend |-> trend]

-----------------------------------------------------------------------------
\* report: the days of each kind, over the records of the period.
SummaryRow(table) ==
    LET Count(statuses) ==
            Cardinality({day \in Period : table[day].status \in statuses})
    IN [presentDays |-> Count({"PRESENT"}), absentDays |-> Count({"ABSENT"}),
        sickDays |-> Count({"SICK", "ACCIDENT"}), leaveDays |-> Count({"LEAVE"}),
        compensatedDays |-> Count({"COMPENSATED"}),
        absenceReversedDays |-> Count({"ABSENCE_REVERSED"}),
        restDays |-> Count({"REST"}), incompleteDays |-> Count({"INCOMPLETE"}),
        contractDays |->
            Count({"CONTRACT_NOT_STARTED", "CONTRACT_ENDED"})]

\* dailyRecords: the declaration shown with a record is one of now, and a leave
\* is written over a sick leave.
AbsenceDetail(table, day) ==
    IF table[day] = NoRecord THEN "none"
    ELSE IF day \in facts.leave THEN "LEAVE"
    ELSE IF facts.sick[day] # "none" THEN "SICK"
    ELSE "none"

-----------------------------------------------------------------------------
\* The punches of a planned day that the days before it have taken.
TakenBefore(day) ==
    LET services == Services(facts.plan, facts.punches, Days, facts.fabSec, FALSE)
        window == Window(facts.plan[day], day, facts.punches, facts.fabSec)
    IN window \cap UNION {services[d].times : d \in 1 .. day - 1}

\* The three counts of absences say the same of the days a generation has just
\* analysed, if nothing has overtaken it.  An absence of the records is one of
\* the dashboard and one of the daily list, unless a shift of the days before
\* has taken its punches, which the daily list cannot know; an absence of the
\* daily list is one of the records unless it is compensated; one of the
\* dashboard is one of the records unless a declaration excuses it.  The row
\* of the summary counts each record once, and the declaration shown with a
\* record is the one it was made of.
Agree(table, through) ==
    LET trend == Trend(Pointages)
        row == SummaryRow(table)
        Absent == {day \in 1 .. through : table[day].status = "ABSENT"}
    IN /\ \A day \in 1 .. through :
              LET absence == AbsenceOf(day, 0)
              IN /\ day \in Absent =>
                        absence = "ABSENT" \/ TakenBefore(day) # {}
                 /\ absence = "ABSENT" =>
                        day \in Absent \/ day \in facts.compensated
                 /\ day \in Absent <=> trend[day] = "ABSENT" /\ ~Excused(day)
                 /\ table[day].status \in {"SICK", "ACCIDENT"} =>
                        AbsenceDetail(table, day) = "SICK" \/ day \in facts.leave
                 /\ table[day].status = "LEAVE" => AbsenceDetail(table, day) = "LEAVE"
       /\ row.absentDays = Cardinality(Absent)
       /\ SumFunction(row) = Cardinality({day \in Period : table[day] # NoRecord})

ReportsAgree ==
    [][\A g \in Generations :
           /\ Commits(g)
           /\ StillTrue(gen[g].seen)
           /\ NotOvertaken(g)
           => Agree(records', gen[g].through)]_vars
=============================================================================
