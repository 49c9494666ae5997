----------------------- MODULE MCAttendanceSummaries ------------------------
(* Instances of AttendanceSummaries for TLC.                               *)
EXTENDS AttendanceReports

\* What the calendar and the reports show is what the records hold, stated and
\* explained in EmployeeCalendar and AttendanceReports.
ViewsAgree == CalendarAgrees /\ ReportsAgree

Blank == [plan |-> [day \in 0 .. Days |-> NoShift], punches |-> {},
          fabSec |-> FALSE, contracts |-> <<>>,
          sick |-> [day \in Period |-> "none"], leave |-> {},
          overtime |-> [day \in Period |-> 0], compensated |-> {},
          reversed |-> {}]

\* Plannings and punches of two days, after a night shift or not.
Worked(shifts, first, times, fabSec) ==
    {[Blank EXCEPT !.plan = plan, !.punches = punches, !.fabSec = fabSec] :
        plan \in {p \in [0 .. Days -> shifts] : p[0] \in {NoShift, first}},
        punches \in {p \in SUBSET times : Cardinality(p) \in 1 .. 4}}

Factory == Worked({NoShift, "MORNING", "EVENING", "NIGHT", "REPOS"}, "NIGHT",
                  {At(1, 6, 0), At(1, 16, 10), At(1, 23, 0), At(2, 5, 50),
                   At(2, 6, 5), At(2, 15, 0)}, FALSE)

Security == Worked({NoShift, "SEC_MORNING", "SEC_NIGHT", "FLEXIBLE"},
                   "SEC_NIGHT",
                   {At(1, 7, 0), At(1, 16, 10), At(2, 6, 50), At(2, 7, 5)}, TRUE)

\* Everything that may be declared of the first day.
Declared ==
    {[Blank EXCEPT !.plan[1] = shift, !.punches = punches,
                   !.contracts = contracts, !.sick[1] = sick,
                   !.leave = leave, !.overtime = [day \in Period |-> hours],
                   !.compensated = compensated, !.reversed = reversed] :
        shift \in {NoShift, "MORNING", "REPOS"},
        punches \in {{}, {At(1, 6, 0)}, {At(1, 6, 0), At(1, 15, 0)}},
        contracts \in {<<>>, <<[from |-> 2, to |-> 9]>>,
                       <<[from |-> -9, to |-> 0], [from |-> 2, to |-> 9]>>},
        sick \in SickTypes, leave \in {{}, {1}}, hours \in {0, 2},
        compensated \in {{}, {1}}, reversed \in {{}, {1}}}

\* Facts that change while generations are under way.
Before == [Blank EXCEPT !.plan[1] = "MORNING", !.overtime[2] = 2]
After == {[Before EXCEPT !.punches = {At(1, 6, 0)}],
          [Before EXCEPT !.plan[1] = "REPOS"],
          [Before EXCEPT !.leave = {1}],
          [Before EXCEPT !.sick[2] = "MALADIE"],
          [Before EXCEPT !.overtime[1] = 2],
          [Before EXCEPT !.contracts = <<[from |-> 2, to |-> 9]>>]}
Overlapping(f, next) ==
    [facts |-> f, coming |-> next, calls |-> Generations]
Alone(f) ==
    [facts |-> f, coming |-> {}, calls |-> {CHOOSE g \in Generations : TRUE}]

MCStarts == {Overlapping(Before, After)}
            \cup {Overlapping(f, {Before}) : f \in After}
            \cup {Alone(f) : f \in Factory \cup Security \cup Declared}
=============================================================================
