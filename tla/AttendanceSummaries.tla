------------------------ MODULE AttendanceSummaries ------------------------
(***************************************************************************)
(* AttendanceSummaryService.generateForPeriod, src/apps/api/src/reports/   *)
(* attendance-summary.service.ts: the summary records of one employee for  *)
(* one payroll period, written by the nightly cron and by whoever asks for *)
(* the report.                                                             *)
(*                                                                         *)
(* A generation reads the employees, the planning and the punches          *)
(* (ReportsService.pointagePlanning), the contracts once more and the      *)
(* approved declarations, one query after the other, and only then opens   *)
(* the transaction that deletes the records it sees and writes its own.    *)
(* Another generation may be between the same steps.                       *)
(***************************************************************************)
EXTENDS ShiftMatching, FiniteSets, Sequences, TLC

CONSTANTS
    Days,         \* length of the period
    Generations,  \* calls of generateForPeriod
    Starts        \* facts to start from, those that may come after them, and
                  \* the generations that are called

ASSUME DaysAssumption == Days \in Nat \ {0}

VARIABLES
    facts,        \* what the declarations, the planning and BioTime say
    coming,       \* the facts that may replace them
    today,        \* the day of the clock, counted as those of the period
    records,      \* attendance_summary_records of the period, committed
    gen           \* what each generation has read, and where it is

vars == <<facts, coming, today, records, gen>>

-----------------------------------------------------------------------------
Period == 1 .. Days

SickTypes == {"none", "MALADIE", "ACCIDENT_TRAVAIL"}

Facts == [plan : [0 .. Days -> Shifts \cup {NoShift}],   \* approved
          punches : SUBSET (0 .. At(Days + 2, 0, 0)),    \* counting as presence
          fabSec : BOOLEAN,
          contracts : Seq([from : Int, to : Int]),       \* by start date
          sick : [Period -> SickTypes],
          leave : SUBSET Period,
          overtime : [Period -> Nat],                    \* hours, all rates
          compensated : SUBSET Period,                   \* compensationDate
          reversed : SUBSET Period]

Statuses == {"PRESENT", "INCOMPLETE", "ABSENT", "ABSENCE_REVERSED", "REST",
             "COMPENSATED", "LEAVE", "SICK", "ACCIDENT",
             "CONTRACT_NOT_STARTED", "CONTRACT_ENDED"}

Record == [status : Statuses, worked : SUBSET Nat, overtime : Nat,
           by : Generations]
NoRecord == [status |-> "none", worked |-> {}, overtime |-> 0, by |-> "nobody"]

\* "reading" until every query is answered; "deleting" while the statement that
\* deletes waits for rows another transaction is deleting; "writing" after it.
Gen == [at : {"idle", "reading", "deleting", "writing", "done"},
        waits : SUBSET {"employees", "pointages", "scope", "declarations"},
        through : {0} \cup Period,
        doomed : SUBSET (Period \X (Generations \cup {"cron"}))]
Idle == [at |-> "idle", waits |-> {}, through |-> 0, doomed |-> {},
         seen |-> <<>>]
Done == [Idle EXCEPT !.at = "done"]

\* The records an earlier generation left.
Earlier == [status |-> "ABSENT", worked |-> {}, overtime |-> 0, by |-> "cron"]

-----------------------------------------------------------------------------
\* The contracts are sorted; a gap between two of them counts as an end.
InContract(contracts, day) ==
    \/ contracts = <<>>
    \/ \E i \in DOMAIN contracts :
           contracts[i].from <= day /\ day <= contracts[i].to

BoundaryStatus(contracts, day) ==
    IF day < contracts[1].from THEN "CONTRACT_NOT_STARTED"
    ELSE "CONTRACT_ENDED"

\* Mutant: the days out of contract are not skipped.
MutHasRow(seen, day) ==
    \/ seen.single
    \/ seen.plan[day] # NoShift
    \/ seen.services[day].times # {}

\* pointagePlanning has one row per day under contract that has a planning or
\* a service, and one per day under contract if one employee is asked for.
HasRow(seen, day) ==
    /\ InContract(seen.employees, day)
    /\ \/ seen.single
       \/ seen.plan[day] # NoShift
       \/ seen.services[day].times # {}

PlannedShift(seen, day) ==
    IF seen.plan[day] # NoShift THEN seen.plan[day]
    ELSE seen.services[day].shift

ServiceStatus(seen, day) ==
    LET times == seen.services[day].times
    IN IF PlannedShift(seen, day) = "REPOS" THEN "REST"
       ELSE IF times # {} THEN
                IF \E s, t \in times : s # t THEN "PRESENT" ELSE "INCOMPLETE"
       ELSE IF seen.plan[day] # NoShift THEN "ABSENT"
       ELSE "REST"

SickStatus(seen, day) ==
    IF seen.sick[day] = "ACCIDENT_TRAVAIL" THEN "ACCIDENT" ELSE "SICK"

BaseStatus(seen, day) ==
    IF ~InContract(seen.scope, day) THEN BoundaryStatus(seen.scope, day)
    ELSE IF seen.sick[day] # "none" THEN SickStatus(seen, day)
    ELSE IF day \in seen.leave THEN "LEAVE"
    ELSE IF PlannedShift(seen, day) = "REPOS" THEN "REST"
    ELSE IF day \in seen.compensated THEN "COMPENSATED"
    ELSE ServiceStatus(seen, day)

RowRecord(g, seen, day) ==
    LET base == BaseStatus(seen, day)
        employed == InContract(seen.scope, day)
    IN [status |-> IF base = "ABSENT" /\ day \in seen.reversed
                   THEN "ABSENCE_REVERSED" ELSE base,
        worked |-> IF employed /\ base \notin {"SICK", "ACCIDENT"}
                   THEN seen.services[day].times ELSE {},
        overtime |-> IF employed THEN seen.overtime[day] ELSE 0,
        by |-> g]

\* The loops of the transaction, in order: the rows, then the days of sick
\* leave, of leave and of overtime nothing was written for, then the days out
\* of contract.  The overtime loop does not note what it writes, and the last
\* one writes over it.
Written(g, seen, day) ==
    LET Bare(status, hours) ==
            [status |-> status, worked |-> {}, overtime |-> hours, by |-> g]
    IN IF HasRow(seen, day) THEN RowRecord(g, seen, day)
       ELSE IF seen.sick[day] # "none"
            THEN Bare(SickStatus(seen, day), seen.overtime[day])
       ELSE IF day \in seen.leave THEN Bare("LEAVE", seen.overtime[day])
       ELSE IF ~InContract(seen.scope, day)
            THEN Bare(BoundaryStatus(seen.scope, day), 0)
       ELSE IF seen.overtime[day] > 0 THEN Bare("PRESENT", seen.overtime[day])
       ELSE NoRecord

-----------------------------------------------------------------------------
Init ==
    /\ \E start \in Starts :
           /\ facts = start.facts
           /\ coming = start.coming
           /\ gen = [g \in Generations |->
                        IF g \in start.calls THEN Idle ELSE Done]
    /\ today \in 1 .. Days + 1
    /\ records \in {[day \in Period |-> NoRecord],
                   [day \in Period |-> IF day < today THEN Earlier
                                      ELSE NoRecord]}

\* One employee or all; nothing from today on is analysed, and nothing is done
\* when that leaves no day.
Begin(g) ==
    /\ gen[g].at = "idle"
    /\ gen' = [gen EXCEPT ![g] = [@ EXCEPT
           !.at = IF today > 1 THEN "reading" ELSE "done",
           !.waits = IF today > 1 THEN {"employees", "pointages", "scope",
                                        "declarations"} ELSE {},
           !.through = Min({Days, today - 1})]]
    /\ UNCHANGED <<facts, coming, today, records>>

\* The answer of one query.
Reads(g, query, answer) ==
    /\ query \in gen[g].waits
    /\ gen' = [gen EXCEPT ![g].waits = @ \ {query}, ![g].seen = answer @@ @]
    /\ UNCHANGED <<facts, coming, today, records>>

ReadEmployees(g) ==
    \E single \in BOOLEAN :
        Reads(g, "employees", [single |-> single, employees |-> facts.contracts])

ReadPointages(g) ==
    /\ "employees" \notin gen[g].waits
    /\ Reads(g, "pointages",
             [plan |-> facts.plan,
              services |-> Services(facts.plan, facts.punches, gen[g].through,
                                    facts.fabSec, FALSE)])

ReadScope(g) == Reads(g, "scope", [scope |-> facts.contracts])

\* Five queries side by side, as one.
ReadDeclarations(g) ==
    /\ gen[g].waits = {"declarations"}
    /\ Reads(g, "declarations",
             [sick |-> facts.sick, leave |-> facts.leave,
              overtime |-> facts.overtime, compensated |-> facts.compensated,
              reversed |-> facts.reversed])

\* deleteMany: the records the statement sees.
Deletes(g) ==
    /\ gen[g].at = "reading" /\ gen[g].waits = {}
    /\ gen' = [gen EXCEPT
           ![g].at = "deleting",
           ![g].doomed = {<<day, records[day].by>> : day \in
                              {d \in Period : records[d] # NoRecord}}]
    /\ UNCHANGED <<facts, coming, today, records>>

\* It waits for the end of a transaction that is deleting one of them.
Locks(g) ==
    /\ gen[g].at = "deleting"
    /\ \A h \in Generations : gen[h].at = "writing" =>
           gen[h].doomed \cap gen[g].doomed = {}
    /\ gen' = [gen EXCEPT ![g].at = "writing"]
    /\ UNCHANGED <<facts, coming, today, records>>

\* The upserts and the commit.  A record written by another transaction since
\* the deletion stays, unless there is one to write over it.
Commits(g) ==
    /\ gen[g].at = "writing"
    /\ records' = [day \in Period |->
           LET own == IF day <= gen[g].through
                      THEN Written(g, gen[g].seen, day) ELSE NoRecord
           IN IF own # NoRecord THEN own
              ELSE IF <<day, records[day].by>> \in gen[g].doomed
                   THEN NoRecord ELSE records[day]]
    /\ gen' = [gen EXCEPT ![g] = Done]
    /\ UNCHANGED <<facts, coming, today>>

\* A failing query, or the timeout of the transaction: nothing is written.
Fails(g) ==
    /\ gen[g].at \in {"reading", "deleting", "writing"}
    /\ gen' = [gen EXCEPT ![g] = Done]
    /\ UNCHANGED <<facts, coming, today, records>>

\* An approval, a planning, a contract or a punch.
Changes ==
    /\ facts' \in coming
    /\ coming' = {}
    /\ UNCHANGED <<today, records, gen>>

PassDay ==
    /\ today <= Days
    /\ today' = today + 1
    /\ UNCHANGED <<facts, coming, records, gen>>

Next ==
    \/ \E g \in Generations :
           \/ Begin(g) \/ ReadEmployees(g) \/ ReadPointages(g) \/ ReadScope(g)
           \/ ReadDeclarations(g) \/ Deletes(g) \/ Locks(g) \/ Commits(g)
           \/ Fails(g)
    \/ Changes
    \/ PassDay

Spec == Init /\ [][Next]_vars

-----------------------------------------------------------------------------
\* The shape of the state.
TypeOK ==
    /\ facts \in Facts
    /\ today \in 1 .. Days + 1
    /\ \A day \in Period :
           records[day] \in Record \cup {NoRecord, Earlier}
    /\ \A g \in Generations :
           [field \in DOMAIN Idle \ {"seen"} |-> gen[g][field]] \in Gen
    /\ \A day \in Period : records[day] # NoRecord => day < today

Planned == {day \in 0 .. Days : facts.plan[day] \in Timed}
Own(day) ==
    IF day \in Planned
    THEN Window(facts.plan[day], day, facts.punches, facts.fabSec) ELSE {}
Ends(times) == IF times = {} THEN {} ELSE {Min(times), Max(times)}

\* A late entry of the evening takes the first punch of the next morning.
Reaches(day) ==
    /\ day \in Period
    /\ facts.plan[day] \in {"EVENING", "SEC_NIGHT"}
    /\ Own(day) # {} /\ Clock(Min(Own(day))) >= 960
    /\ NextMorning(facts.punches, day) # {}

\* What a shift leaves of its punches on the next day: all of them after the
\* day before the period, those between its entry and its exit otherwise.
Left(day) ==
    OnDay(Own(day), day + 1) \ (IF day \in Period THEN Ends(Own(day)) ELSE {})

\* Each planned shift gets the punches that can only be its own, and a day
\* without one gets none, whatever order the days are matched in: if every
\* punch is in the window of one planned shift, the entry and the exit of
\* each day are the ends of its own punches.  The exceptions are those of
\* matchDailyAttendance: the exit a late evening takes from the next morning,
\* the entry this one loses, and the day off that follows a night whose
\* punches were not all taken.
OwnPunches ==
    LET services == Services(facts.plan, facts.punches, Days, facts.fabSec, FALSE)
        OneOwner(time) ==
            \E day \in Planned :
                /\ time \in Own(day)
                /\ \A other \in Planned \ {day} : time \notin Own(other)
    IN (\A time \in facts.punches : OneOwner(time)) =>
           \A day \in Period :
               LET times == services[day].times
               IN \/ times = Ends(Own(day))
                  \/ /\ Reaches(day)
                     /\ Min(times) = Min(Own(day))
                     /\ Max(times) \in NextMorning(facts.punches, day)
                  \/ Reaches(day - 1)
                  \/ day \notin Planned /\ Left(day - 1) # {}

-----------------------------------------------------------------------------
\* What the records of a period owe to the facts.  Sick leave and leave count
\* even out of contract, the hours of overtime do not.
Excused(day) ==
    \/ facts.sick[day] # "none"
    \/ day \in facts.leave \cup facts.compensated \cup facts.reversed

Missed(day, services) ==
    /\ InContract(facts.contracts, day)
    /\ facts.plan[day] \in Shifts \ {"REPOS"}
    /\ services[day].times = {}
    /\ ~Excused(day)

Creditable(day) ==
    \/ InContract(facts.contracts, day)
    \/ facts.sick[day] # "none"
    \/ day \in facts.leave

Agrees(table, through) ==
    LET services == Services(facts.plan, facts.punches, through, facts.fabSec, FALSE)
        With(statuses) == {day \in Period : table[day].status \in statuses}
        Analysed == 1 .. through
    IN /\ With({"ABSENT"}) = {day \in Analysed : Missed(day, services)}
       /\ With({"SICK", "ACCIDENT"}) =
              {day \in Analysed : facts.sick[day] # "none"}
       /\ With({"LEAVE"}) = {day \in Analysed :
              facts.sick[day] = "none" /\ day \in facts.leave}
       /\ With({"CONTRACT_NOT_STARTED", "CONTRACT_ENDED"}) =
              {day \in Analysed : ~Creditable(day)}
       /\ \A day \in Period :
              table[day].overtime =
                  IF day \in Analysed /\ Creditable(day)
                  THEN facts.overtime[day] ELSE 0
       /\ \A day \in Period :
              table[day].worked # {} =>
                  /\ InContract(facts.contracts, day)
                  /\ facts.sick[day] = "none"
                  /\ table[day].worked = services[day].times

\* A generation that commits on readings that are still true, and that no
\* other one overtook between its deletion and its commit, leaves the records
\* the facts call for: each missed day and no other is an absence, each hour
\* of overtime is credited once, nobody works while sick or out of contract,
\* and nothing is left of the earlier generations.
StillTrue(seen) ==
    /\ seen.employees = facts.contracts /\ seen.scope = facts.contracts
    /\ seen.plan = facts.plan
    /\ seen.services = Services(facts.plan, facts.punches,
                               Cardinality(DOMAIN seen.services), facts.fabSec, FALSE)
    /\ seen.sick = facts.sick /\ seen.leave = facts.leave
    /\ seen.overtime = facts.overtime
    /\ seen.compensated = facts.compensated /\ seen.reversed = facts.reversed

NotOvertaken(g) ==
    \A day \in Period : records[day] # NoRecord =>
                           <<day, records[day].by>> \in gen[g].doomed

SummaryIsRight ==
    [][\A g \in Generations :
           /\ Commits(g)
           /\ StillTrue(gen[g].seen)
           /\ NotOvertaken(g)
           => Agrees(records', gen[g].through)]_vars
=============================================================================
