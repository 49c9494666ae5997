-------------------------- MODULE EmployeeCalendar --------------------------
(***************************************************************************)
(* employeeMonthlyCalendar, src/apps/api/src/attendance/attendance-        *)
(* punches.service.ts: the month of one employee as the staff see it, made  *)
(* at each request of the punches matched anew, of the bare punches, of the *)
(* records the last generation left and of the declarations approved now.   *)
(***************************************************************************)
EXTENDS AttendanceSummaries

\* summarizeDaily: a punch before eight belongs to the day before if the last
\* one of that day came after eighteen.
WorkDay(time) ==
    LET before == OnDay(facts.punches, DayOf(time) - 1)
    IN IF Clock(time) <= 480 /\ before # {} /\ Clock(Max(before)) >= 1080
       THEN DayOf(time) - 1 ELSE DayOf(time)

Bare(day) ==
    LET times == {t \in facts.punches : WorkDay(t) = day}
    IN IF times = {} THEN {} ELSE {Min(times), Max(times)}

\* loadCalendarDeclarations: a leave is shown over a sick leave, the reversal of
\* an absence over both.
LiveStatus(day) ==
    IF day \in facts.reversed THEN "ABSENCE_REVERSED"
    ELSE IF day \in facts.leave THEN "LEAVE"
    ELSE IF facts.sick[day] # "none" THEN "SICK"
    ELSE "none"

WithDeclarations(table, day, times, from) ==
    [from |-> from,
     status |-> IF LiveStatus(day) # "none" THEN LiveStatus(day)
                ELSE table[day].status,
     times |-> IF LiveStatus(day) = "SICK" THEN {} ELSE times,
     overtime |-> IF LiveStatus(day) = "SICK" THEN 0 ELSE table[day].overtime]

\* The services of the period, an exit on the day of the entry being accepted
\* without a planning (buildDailyRows).
Matched == Services(facts.plan, facts.punches, Days, facts.fabSec, TRUE)

FromRecord(record) ==
    [from |-> "record", status |-> record.status, times |-> {},
     overtime |-> record.overtime]

FromStatus(status) ==
    [from |-> IF status = "none" THEN "nothing" ELSE "declaration",
     status |-> status, times |-> {}, overtime |-> 0]

\* A day with punches shows them, another one its record, or else what is
\* declared of it: the days are given records of a table.
Calendar(table) ==
    LET matched == Matched
    IN [day \in Period |->
            IF matched[day].times # {}
            THEN WithDeclarations(table, day, matched[day].times, "matching")
            ELSE IF Bare(day) # {}
            THEN WithDeclarations(table, day, Bare(day), "punches")
            ELSE IF table[day] # NoRecord THEN FromRecord(table[day])
            ELSE FromStatus(LiveStatus(day))]

-----------------------------------------------------------------------------
\* The month shown, up to a day, against the records of a table.  Two services
\* never differ on a day unless a punch is bare (a night worked with two morning
\* plannings around it) or the day is out of the contract, where the records
\* are empty and the calendar is not.
ShownAsRecorded(table, through) ==
    LET calendar == Calendar(table)
        Name(status) == IF status = "ACCIDENT" THEN "SICK" ELSE status
    IN \A day \in 1 .. through :
        LET shown == calendar[day]
            record == table[day]
            sick == facts.sick[day] # "none"
        IN /\ day \in facts.reversed \/ (sick /\ day \in facts.leave)
              \/ Name(shown.status) = Name(record.status)
           /\ sick /\ day \notin facts.leave \cup facts.reversed => shown.times = {}
           /\ ~sick => shown.overtime = record.overtime
           /\ ~sick /\ InContract(facts.contracts, day) =>
                \/ shown.times = record.worked
                \/ Cardinality(record.worked) = 1 /\ record.worked \subseteq shown.times
                \/ record.worked = {} /\ shown.from = "punches"

\* What the calendar shows right after a generation that nothing has overtaken
\* is what that generation recorded: the same status, the same punches, the
\* same overtime.  A day both sick and on leave, and an absence reversed, are
\* named differently by the two (employeeMonthlyCalendar, generate).
CalendarAgrees ==
    [][\A g \in Generations :
           /\ Commits(g)
           /\ StillTrue(gen[g].seen)
           /\ NotOvertaken(g)
           => ShownAsRecorded(records', gen[g].through)]_vars
=============================================================================
