--------------------------- MODULE ShiftMatching ---------------------------
(***************************************************************************)
(* matchDailyAttendance, src/apps/api/src/attendance/shift-matching.       *)
(* engine.ts: the service of one employee on each day of a period, from    *)
(* his punches and his planning.                                           *)
(*                                                                         *)
(* A time is a number of minutes; day 1 is the first day of the period,    *)
(* and the punches come from the day before it to the day after it.  lax   *)
(* is the option allowSameDayFallbackExit, which the calendar sets and the *)
(* summaries do not.  The counts and the hours worked, which follow from   *)
(* the entry and the exit, are left out.                                   *)
(***************************************************************************)
EXTENDS Integers, FiniteSetsExt

DayOf(time) == time \div 1440
Clock(time) == time % 1440
At(day, hour, minute) == day * 1440 + hour * 60 + minute

-----------------------------------------------------------------------------
\* The shift definitions of the migrations.
Hours ==
    [MORNING |-> [start |-> 360, end |-> 900, nights |-> 0, margin |-> 90],
     EVENING |-> [start |-> 900, end |-> 1380, nights |-> 0, margin |-> 90],
     NIGHT |-> [start |-> 1380, end |-> 360, nights |-> 1, margin |-> 120],
     SEC_MORNING |-> [start |-> 420, end |-> 960, nights |-> 0, margin |-> 90],
     SEC_NIGHT |-> [start |-> 960, end |-> 420, nights |-> 1, margin |-> 90]]

Timed == DOMAIN Hours
Shifts == Timed \cup {"FLEXIBLE", "REPOS"}
NoShift == "none"

\* The margin of the employees of FAB SEC is 90 whatever the definition says.
Margin(shift, fabSec) == IF fabSec THEN 90 ELSE Hours[shift].margin

OnDay(times, day) == {t \in times : DayOf(t) = day}

\* The punches a shift of a day may claim.
Window(shift, day, times, fabSec) ==
    IF shift \notin Timed
    THEN OnDay(times, day)
    ELSE LET hours == Hours[shift]
             margin == Margin(shift, fabSec)
         IN {t \in times :
                 /\ t >= At(day, 0, hours.start - margin)
                 /\ t <= At(day + hours.nights, 0, hours.end + margin)}

Near(clock, target, margin) == clock \in target - margin .. target + margin

NextMorning(times, day) == {t \in OnDay(times, day + 1) : Clock(t) <= 480}

\* The shift of a day without a planned one, from its first punch.
Inferred(day, times, fabSec) ==
    LET first == Clock(Min(OnDay(times, day)))
        FirstIsNear(shift) ==
            Near(first, Hours[shift].start, Margin(shift, fabSec))
    IN IF OnDay(times, day) = {} THEN NoShift
       ELSE IF \/ first >= 1080 /\ NextMorning(times, day) # {}
               \/ FirstIsNear("NIGHT") THEN "NIGHT"
       ELSE IF FirstIsNear("MORNING") THEN "MORNING"
       ELSE IF FirstIsNear("EVENING") THEN "EVENING"
       ELSE "FLEXIBLE"

\* A rest day is matched only if it has punches, and as an unplanned one.
ShiftOf(planned, day, times, fabSec) ==
    IF planned \in {NoShift, "REPOS"} THEN Inferred(day, times, fabSec)
    ELSE planned

\* The entry and the exit of a day, as a set of at most two times: the ends of
\* the window, or, for a late evening entry, the first punch of the morning.
\* The option ends the service of a lonely entry with the last punch of the day.
Selected(planned, shift, day, times, fabSec, lax) ==
    LET window == IF planned = "REPOS" THEN OnDay(times, day)
                  ELSE Window(shift, day, times, fabSec)
        entry == Min(window)
        lonely == lax /\ planned # "REPOS" /\ window = {entry}
        reached == window \cup
                   (IF lonely THEN {t \in OnDay(times, day) : t > entry} ELSE {})
        morning == NextMorning(times, day) \ {entry}
        late == /\ planned # "REPOS"
                /\ shift \in {"EVENING", "SEC_NIGHT"}
                /\ Clock(entry) >= 960
                /\ morning # {}
        exit == IF late /\ (reached = {entry} \/ Min(morning) > Max(reached))
                THEN Min(morning) ELSE Max(reached)
    IN IF shift = NoShift \/ window = {} THEN {} ELSE {entry, exit}

\* The service of a day by itself, from the punches left to it.
ServiceOf(planned, day, times, fabSec, lax) ==
    LET shift == ShiftOf(planned, day, times, fabSec)
    IN [shift |-> shift,
        times |-> Selected(planned, shift, day, times, fabSec, lax)]

-----------------------------------------------------------------------------
\* Mutant: only the entry of a day is kept from the next ones.
MutServices(plan, punches, last, fabSec, lax) ==
    LET Service(day, times) == ServiceOf(plan[day], day, times, fabSec, lax)
        used[day \in 0 .. last] ==
            IF day = 0 THEN {}
            ELSE LET before == used[day - 1]
                     times == Service(day, punches \ before).times
                 IN before \cup (IF times = {} THEN {} ELSE {Min(times)})
    IN [day \in 1 .. last |-> Service(day, punches \ used[day - 1])]

\* The days of a period, in order: a punch that is the entry or the exit of a
\* day is not available to the next ones.
Services(plan, punches, last, fabSec, lax) ==
    LET Service(day, times) == ServiceOf(plan[day], day, times, fabSec, lax)
        used[day \in 0 .. last] ==
            IF day = 0 THEN {}
            ELSE LET before == used[day - 1]
                 IN before \cup Service(day, punches \ before).times
    IN [day \in 1 .. last |-> Service(day, punches \ used[day - 1])]
=============================================================================
