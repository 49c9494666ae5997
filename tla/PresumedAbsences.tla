-------------------------- MODULE PresumedAbsences --------------------------
(***************************************************************************)
(* PresumedAbsenceService, src/apps/api/src/attendance/presumed-absence.   *)
(* service.ts, on one day: the cases found by a detection (detectForToday, *)
(* by cron), rejected automatically (of who is inactive by a detection or  *)
(* a list, of who is justified or has punched by a list), and reviewed by  *)
(* the HR staff (confirm, reject).                                         *)
(*                                                                         *)
(* A detection and a list are sequences of passes; a pass reads rows, then *)
(* handles them one by one, awaiting the database before each check and    *)
(* each write.  What they read changes meanwhile: punches come in, leaves  *)
(* are approved or revoked, employees resign, the planning moves.          *)
(*                                                                         *)
(* Three queries look for punches, each in a window of its own: the report *)
(* that matches them with the planned shift, from the day before to the    *)
(* morning after, where a night ends; the evidence against a case, on the  *)
(* day, or from the day before for the cases without planning; and the     *)
(* guess of a detection, from the day before up to when it began.          *)
(***************************************************************************)
EXTENDS Naturals, FiniteSets

CONSTANTS
    Employees,   \* employees whose attendance is tracked and contract runs
    Handlers,    \* detections and lists under way at once
    MaxChanges   \* bound on the changes of the facts

ASSUME BoundsAssumption == MaxChanges \in Nat

VARIABLES
    active,      \* employees whose status is ACTIVE
    excuse,      \* what covers the day, once approved
    punch,       \* when the terminals saw the employee
    matched,     \* employees one of whose punches matches the planned shift
    plan,        \* his assignment for the day
    summarised,  \* employees with a PRESENT or INCOMPLETE summary record
    changes,     \* changes of the facts so far
    absence,     \* presumed_absences of type PRESUMED_ABSENCE
    presence,    \* presumed_absences of type UNEXPECTED_PRESENCE_ON_REST
    work         \* the pass of each handler

facts == <<active, excuse, punch, matched, plan, summarised>>
cases == <<absence, presence>>
vars == <<facts, changes, cases, work>>

-----------------------------------------------------------------------------
\* "reversal" is an approved request of the employee against an absence.
Excuses == {"none", "leave", "reversal"}

\* The day before, the day itself, the morning after.
Punches == {"eve", "day", "morrow"}

\* "later" and "due" are the approved working shift before and after its start.
Plans == {"none", "unapproved", "later", "due", "rest"}

Statuses == {"none", "PENDING_REVIEW", "CONFIRMED", "REJECTED"}
Bases == {"none", "no_punch_heuristic", "daily_absence_report",
          "rest_schedule_with_punch"}
Case == [status : Statuses, basis : Bases, by : {"nobody", "system", "reviewer"}]
NoCase == [status |-> "none", basis |-> "none", by |-> "nobody"]

\* What is read of an employee.
Facts == {"status", "excuse", "punch", "plan", "summary", "case"}

Passes == {"inactive", "planned", "rest", "guess", "justified", "punched"}
Work == [does : {"nothing", "detect", "list"},
         pass : Passes,
         at : {"reading", "sorting", "looping"},
         todo : SUBSET Employees,     \* rows read and not handled yet
         held : SUBSET Employees,     \* checked, about to be written
         later : SUBSET Employees,    \* whose punches of the day are all from
                                      \* after the detection began
         stirred : SUBSET (Employees \X Facts)]  \* changed by others since it
                                                 \* was last read (a history)

Free == [does |-> "nothing", pass |-> "inactive", at |-> "reading",
         todo |-> {}, held |-> {}, later |-> {}, stirred |-> {}]

TypeOK ==
    /\ active \in SUBSET Employees
    /\ excuse \in [Employees -> Excuses]
    /\ punch \in [Employees -> SUBSET Punches]
    /\ matched \in SUBSET Employees
    /\ plan \in [Employees -> Plans]
    /\ summarised \in SUBSET Employees
    /\ changes \in 0 .. MaxChanges
    /\ absence \in [Employees -> Case]
    /\ presence \in [Employees -> Case]
    /\ work \in [Handlers -> Work]

\* The plans a punch may match.
Shifts == {"later", "due"}

Init ==
    /\ active \in SUBSET Employees
    /\ excuse \in [Employees -> Excuses]
    /\ punch \in [Employees -> SUBSET Punches]
    /\ plan \in [Employees -> Plans]
    /\ matched \in SUBSET {e \in Employees : punch[e] # {} /\ plan[e] \in Shifts}
    /\ summarised \in SUBSET Employees
    /\ changes = 0
    /\ absence = [e \in Employees |-> NoCase]
    /\ presence = [e \in Employees |-> NoCase]
    /\ work = [h \in Handlers |-> Free]

-----------------------------------------------------------------------------
(* The facts: sync, declarations, planning and summaries                   *)

\* The handlers under way that did not write it note that `fact` of e changed (a
\* history).
Stir(e, fact, writers) ==
    [g \in Handlers |->
        IF g \notin writers /\ work[g].does # "nothing"
        THEN [work[g] EXCEPT !.stirred = @ \cup {<<e, fact>>}] ELSE work[g]]

Change == changes < MaxChanges /\ changes' = changes + 1 /\ UNCHANGED cases

ResignsOrReturns(e) ==
    /\ active' = IF e \in active THEN active \ {e} ELSE active \cup {e}
    /\ Change
    /\ work' = Stir(e, "status", {})
    /\ UNCHANGED <<excuse, punch, matched, plan, summarised>>

Declares(e) ==
    /\ \E x \in Excuses \ {excuse[e]} : excuse' = [excuse EXCEPT ![e] = x]
    /\ Change
    /\ work' = Stir(e, "excuse", {})
    /\ UNCHANGED <<active, punch, matched, plan, summarised>>

\* The detections a punch of the day may have been made after the start of: those
\* under way to which no earlier punch of the day is known.
MayPrecede(e) ==
    {g \in Handlers : /\ work[g].does = "detect"
                      /\ "day" \in punch[e] => e \in work[g].later}

\* The sync brings a punch, made before or after the detections under way began.
PunchComesIn(e) ==
    /\ \E p \in Punches, before \in SUBSET MayPrecede(e) :
         /\ punch' = [punch EXCEPT ![e] = @ \cup {p}]
         /\ work' = [g \in Handlers |->
                [Stir(e, "punch", {})[g] EXCEPT
                    !.later = CASE p # "day" -> @
                                [] p = "day" /\ g \in before -> @ \cup {e}
                                [] OTHER -> @ \ {e}]]
    /\ \/ matched' = matched
       \/ plan[e] \in Shifts /\ matched' = matched \cup {e}
    /\ Change
    /\ UNCHANGED <<active, excuse, plan, summarised>>

\* An assignment is made, decided or erased, or its shift begins.
Plan(e) ==
    /\ \E p \in Plans \ {plan[e]} :
         /\ plan' = [plan EXCEPT ![e] = p]
         /\ \/ matched' = matched \ {e}
            \/ punch[e] # {} /\ p \in Shifts /\ matched' = matched \cup {e}
    /\ Change
    /\ work' = Stir(e, "plan", {})
    /\ UNCHANGED <<active, excuse, punch, summarised>>

Summarises(e) ==
    /\ summarised' = IF e \in summarised THEN summarised \ {e}
                     ELSE summarised \cup {e}
    /\ Change
    /\ work' = Stir(e, "summary", {})
    /\ UNCHANGED <<active, excuse, punch, matched, plan>>

-----------------------------------------------------------------------------
(* What the queries ask                                                    *)

Pending(e) == absence[e].status = "PENDING_REVIEW"
Justified(e) == excuse[e] = "leave"

\* Mutant of Planned: the approved leaves are forgotten.
MutPlanned(e) == plan[e] = "due" /\ excuse[e] # "reversal" /\ e \notin matched

\* dailyAbsences: a working shift that has begun, nothing that excuses the day
\* and no punch that matches, be it the exit of a night the morning after.
Planned(e) == plan[e] = "due" /\ excuse[e] = "none" /\ e \notin matched

\* Mutant of Evidence: the summary records are not consulted.
MutEvidence(e) ==
    punch[e] \cap (IF absence[e].basis = "no_punch_heuristic"
                   THEN {"eve", "day"} ELSE {"day"}) # {}

\* countPresenceEvidence: the day before counts for the cases without planning,
\* the morning after for none.
Evidence(e) ==
    \/ punch[e] \cap (IF absence[e].basis = "no_punch_heuristic"
                      THEN {"eve", "day"} ELSE {"day"}) # {}
    \/ e \in summarised

\* The punches the guess of h counts: up to when the detection began.
Counted(h, e) == "eve" \in punch[e] \/ ("day" \in punch[e] /\ e \notin work[h].later)

-----------------------------------------------------------------------------
(* The passes                                                              *)

In(h, pass, at) == work[h].does # "nothing" /\ work[h].pass = pass /\ work[h].at = at

\* h has read `read` of everybody.
Move(h, at, todo, read) ==
    work' = [work EXCEPT ![h].at = at, ![h].todo = todo,
                         ![h].stirred = @ \ (Employees \X read)]

\* A pass begins: it has read nothing yet.
Enter(h, does, pass) ==
    work' = [work EXCEPT ![h] = [Free EXCEPT !.does = does, !.pass = pass,
                                             !.later = work[h].later]]

Starts(h, does) ==
    /\ work[h].does = "nothing"
    /\ Enter(h, does, "inactive")
    /\ UNCHANGED <<facts, changes, cases>>

\* autoRejectInactivePending
InactiveReads(h) ==
    /\ In(h, "inactive", "reading")
    /\ Move(h, "looping", {e \in Employees : Pending(e) /\ e \notin active},
            {"status", "case"})
    /\ UNCHANGED <<facts, changes, cases>>

\* dailyAbsences: the employees, then the rest of the report.
PlannedReadsEmployees(h) ==
    /\ In(h, "planned", "reading")
    /\ Move(h, "sorting", active, {"status"})
    /\ UNCHANGED <<facts, changes, cases>>

PlannedReads(h) ==
    /\ In(h, "planned", "sorting")
    /\ Move(h, "looping", {e \in work[h].todo : Planned(e)},
            {"plan", "punch", "excuse"})
    /\ UNCHANGED <<facts, changes, cases>>

\* detectUnexpectedPresenceOnRest
RestReads(h) ==
    /\ In(h, "rest", "reading")
    /\ Move(h, "looping", {e \in active : plan[e] = "rest"}, {"status", "plan"})
    /\ UNCHANGED <<facts, changes, cases>>

\* Who has no assignment, of any status, then who is not justified.
GuessReadsEmployees(h) ==
    /\ In(h, "guess", "reading")
    /\ Move(h, "sorting", {e \in active : plan[e] = "none"}, {"status", "plan"})
    /\ UNCHANGED <<facts, changes, cases>>

GuessReadsJustified(h) ==
    /\ In(h, "guess", "sorting")
    /\ Move(h, "looping", {e \in work[h].todo : ~Justified(e)}, {"excuse"})
    /\ UNCHANGED <<facts, changes, cases>>

\* Mutant of Reviewable: the rows already reviewed are taken as well.
MutReviewable == {e \in Employees : absence[e].status # "none"}

\* autoRejectJustifiedPending and autoRejectPunchedPending
Reviewable == {e \in Employees : Pending(e)}

PendingReads(h) ==
    /\ In(h, "justified", "reading") \/ In(h, "punched", "reading")
    /\ Move(h, "looping", Reviewable, {"case"})
    /\ UNCHANGED <<facts, changes, cases>>

\* The check of a row, where the pass has one, and what it reads of the employee.
Holds(h, e) ==
    LET pass == work[h].pass
    IN  \/ pass = "rest" /\ "day" \in punch[e]
        \/ pass = "guess" /\ ~Counted(h, e)
        \/ pass = "justified" /\ Justified(e)
        \/ pass = "punched" /\ Evidence(e)
        \/ pass \in {"inactive", "planned"}

Rereads(pass) ==
    CASE pass \in {"rest", "guess"} -> {"punch"}
      [] pass = "justified" -> {"excuse"}
      [] pass = "punched" -> {"punch", "summary"}
      [] OTHER -> {}

\* The loop takes the next row, and drops it if the check fails.
Checks(h, e) ==
    /\ work[h].does # "nothing" /\ work[h].at = "looping"
    /\ work[h].held = {} /\ e \in work[h].todo
    /\ work' = [work EXCEPT
            ![h].todo = @ \ {e},
            ![h].held = IF Holds(h, e) THEN {e} ELSE {},
            ![h].stirred = @ \ ({e} \X Rereads(work[h].pass))]
    /\ UNCHANGED <<facts, changes, cases>>

Writes(h, e) ==
    /\ work[h].at = "looping" /\ work[h].held = {e}
    /\ work' = [Stir(e, "case", {h}) EXCEPT ![h].held = {}]
    /\ UNCHANGED <<facts, changes>>

\* The upserts of a detection: a case that exists is left as it is.
Found(case, basis) ==
    IF case.status = "none"
    THEN [status |-> "PENDING_REVIEW", basis |-> basis, by |-> "nobody"]
    ELSE case

FindsAbsence(h, e) ==
    /\ work[h].pass \in {"planned", "guess"}
    /\ absence' = [absence EXCEPT ![e] = Found(@,
            IF work[h].pass = "planned" THEN "daily_absence_report"
            ELSE "no_punch_heuristic")]
    /\ Writes(h, e)
    /\ UNCHANGED presence

FindsPresence(h, e) ==
    /\ work[h].pass = "rest"
    /\ presence' = [presence EXCEPT ![e] = Found(@, "rest_schedule_with_punch")]
    /\ Writes(h, e)
    /\ UNCHANGED absence

\* The automatic rejections: an update by id of the row that was read.
Rejects(h, e) ==
    /\ work[h].pass \in {"inactive", "justified", "punched"}
    /\ absence' = [absence EXCEPT ![e].status = "REJECTED", ![e].by = "system"]
    /\ Writes(h, e)
    /\ UNCHANGED presence

PassEnds(h, pass) ==
    In(h, pass, "looping") /\ work[h].todo = {} /\ work[h].held = {}

\* detectForToday goes on, stops before the guess (another day, a Friday, an
\* early hour) or after it; list goes through its three rejections.
NextPass(h) ==
    /\ \/ PassEnds(h, "inactive") /\ work[h].does = "detect" /\ Enter(h, "detect", "planned")
       \/ PassEnds(h, "planned") /\ Enter(h, "detect", "rest")
       \/ PassEnds(h, "rest") /\ Enter(h, "detect", "guess")
       \/ PassEnds(h, "inactive") /\ work[h].does = "list" /\ Enter(h, "list", "justified")
       \/ PassEnds(h, "justified") /\ Enter(h, "list", "punched")
    /\ UNCHANGED <<facts, changes, cases>>

Stops(h) ==
    /\ \E pass \in {"rest", "guess", "punched"} : PassEnds(h, pass)
    /\ work' = [work EXCEPT ![h] = Free]
    /\ UNCHANGED <<facts, changes, cases>>

\* A query fails: the detection or the list gives up.
Fails(h) ==
    /\ work[h].does # "nothing"
    /\ work' = [work EXCEPT ![h] = Free]
    /\ UNCHANGED <<facts, changes, cases>>

-----------------------------------------------------------------------------
(* confirm, reject: whatever the status of the case                        *)

Review(e, verdict) ==
    /\ absence[e].status # "none"
    /\ absence' = [absence EXCEPT ![e].status = verdict, ![e].by = "reviewer"]
    /\ work' = Stir(e, "case", {})
    /\ UNCHANGED <<facts, changes, presence>>

ReviewPresence(e, verdict) ==
    /\ presence[e].status # "none"
    /\ presence' = [presence EXCEPT ![e].status = verdict, ![e].by = "reviewer"]
    /\ work' = Stir(e, "case", {})
    /\ UNCHANGED <<facts, changes, absence>>

-----------------------------------------------------------------------------
Next ==
    \/ \E e \in Employees : ResignsOrReturns(e) \/ Declares(e) \/ PunchComesIn(e)
    \/ \E e \in Employees : Plan(e) \/ Summarises(e)
    \/ \E h \in Handlers, does \in {"detect", "list"} : Starts(h, does)
    \/ \E h \in Handlers : InactiveReads(h)
    \/ \E h \in Handlers : PlannedReadsEmployees(h) \/ PlannedReads(h)
    \/ \E h \in Handlers : RestReads(h)
    \/ \E h \in Handlers : GuessReadsEmployees(h) \/ GuessReadsJustified(h)
    \/ \E h \in Handlers : PendingReads(h)
    \/ \E h \in Handlers, e \in Employees : Checks(h, e)
    \/ \E h \in Handlers, e \in Employees : FindsAbsence(h, e) \/ FindsPresence(h, e)
    \/ \E h \in Handlers, e \in Employees : Rejects(h, e)
    \/ \E h \in Handlers : NextPass(h) \/ Stops(h) \/ Fails(h)
    \/ \E e \in Employees, verdict \in {"CONFIRMED", "REJECTED"} :
          Review(e, verdict) \/ ReviewPresence(e, verdict)

Spec == Init /\ [][Next]_vars

-----------------------------------------------------------------------------
(* Properties                                                              *)

\* `fact` of e has changed since h last read it.
Since(h, e, fact) == <<e, fact>> \in work[h].stirred

\* What the staff decided changes by another review only, or by an automatic
\* rejection that had read the case before that decision (review, autoReject*).
DecisionStands ==
    [][\A e \in Employees :
        /\ absence[e].by = "reviewer" /\ absence'[e] # absence[e]
             => \/ \E verdict \in {"CONFIRMED", "REJECTED"} : Review(e, verdict)
                \/ \E h \in Handlers : Rejects(h, e) /\ Since(h, e, "case")
        /\ presence[e].by = "reviewer" /\ presence'[e] # presence[e]
             => \E verdict \in {"CONFIRMED", "REJECTED"} : ReviewPresence(e, verdict)]_vars

\* Absent for all a detection knows: a shift that no punch matches, or no shift
\* and no punch, of the day or of the day before, from before it began.
NoShow(h, e) ==
    \/ plan[e] = "due" /\ e \notin matched
    \/ plan[e] = "none" /\ ~Counted(h, e)

\* A case is only opened of an active employee who is not on leave and is
\* absent, or has punched on a day of rest, and only rejected automatically of an
\* employee who is inactive, is on leave, or was seen on that day: each unless
\* that very fact has changed since it was last read, which for the punches, the
\* leave and the evidence is by the check of the row itself (detectForToday,
\* importPlannedAbsences, detectUnexpectedPresenceOnRest, autoReject*).
CaseIsFounded ==
    [][\A h \in Handlers, e \in Employees :
        /\ FindsAbsence(h, e) =>
             /\ e \in active \/ Since(h, e, "status")
             /\ excuse[e] # "leave" \/ Since(h, e, "excuse")
             /\ NoShow(h, e) \/ Since(h, e, "plan") \/ Since(h, e, "punch")
        /\ FindsPresence(h, e) =>
             /\ e \in active \/ Since(h, e, "status")
             /\ plan[e] = "rest" \/ Since(h, e, "plan")
             /\ "day" \in punch[e]
        /\ Rejects(h, e) =>
             CASE work[h].pass = "inactive" -> e \notin active \/ Since(h, e, "status")
               [] work[h].pass = "justified" -> excuse[e] = "leave" \/ Since(h, e, "excuse")
               [] OTHER -> Evidence(e) \/ Since(h, e, "summary")]_vars

\* What a pass has to leave behind of an employee.
Handled(h, pass, e) ==
    /\ pass = "planned" /\ e \in active /\ plan[e] = "due"
          /\ e \notin matched /\ excuse[e] = "none"
         => absence[e].status # "none"
    /\ pass = "guess" /\ e \in active /\ plan[e] = "none"
          /\ ~Counted(h, e) /\ excuse[e] # "leave"
         => absence[e].status # "none"
    /\ pass = "rest" /\ e \in active /\ plan[e] = "rest" /\ "day" \in punch[e]
         => presence[e].status # "none"
    /\ pass = "inactive" /\ Pending(e) => e \in active
    /\ pass = "justified" /\ Pending(e) => excuse[e] # "leave"
    /\ pass = "punched" /\ Pending(e) =>
         /\ "day" \notin punch[e] /\ e \notin summarised
         /\ "eve" \in punch[e] => absence[e].basis # "no_punch_heuristic"

\* When a pass ends, every absence and every presence on rest has its case, and
\* no case with a ground for rejection is pending, except of the employees of
\* whom something changed, or whose case was handled by somebody else, since the
\* pass last read it.  A matched exit of the morning after is no ground: such a
\* case stays pending until it is reviewed.
PassIsComplete ==
    \A h \in Handlers, pass \in Passes :
        PassEnds(h, pass) =>
            \A e \in Employees :
                (\A fact \in Facts : ~Since(h, e, fact)) => Handled(h, pass, e)
=============================================================================
