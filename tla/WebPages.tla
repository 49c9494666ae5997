------------------------------ MODULE WebPages ------------------------------
(***************************************************************************)
(* The pages of the web client and the hook they load their rows with      *)
(* (src/apps/web/src/lib/useApi.ts, lib/api.ts, pages).  A page follows    *)
(* its filters, or what is selected in it: its rows come from a path that  *)
(* changes with this choice.  The effect of a choice cancels the load of   *)
(* the choice before; a reload, which a handler calls when its request is  *)
(* answered, is that of the render the handler belongs to, and nothing     *)
(* cancels it.                                                             *)
(*                                                                         *)
(* One listing of one page is modelled.  What differs from page to page is *)
(* a record per page: its handlers, and what its listing does.  A step is  *)
(* one event of the browser, with the rendering and the effects it causes, *)
(* or one request the server handles.                                      *)
(***************************************************************************)
EXTENDS Integers

CONSTANTS
    Choices,      \* filters, or what can be selected: each has a path
    Initial,        \* the filters a page has when none are saved
    Nothing,      \* no path, and no rows
    Loads,        \* loads in flight at once
    Acts,         \* handlers in flight at once
    MaxVersions   \* bound on the changes of the rows of a choice

ASSUME WebAssumption ==
    /\ Initial \in Choices
    /\ Nothing \notin Choices
    /\ MaxVersions \in Nat

VARIABLES
    page,      \* the page that is open
    chosen,    \* its choice
    shown,     \* data: whose rows, and as of which version
    loading,
    failed,    \* error
    load,      \* the loads in flight
    act,       \* the handlers in flight
    version,   \* the server: how often the rows of a choice have changed
    own,       \* history: the version this page knows it has made
    crossed    \* history: a reload was started beside another load

webVars == <<page, chosen, shown, loading, failed, load, act, version, own, crossed>>

-----------------------------------------------------------------------------
(* Pages                                                                   *)

\* What a handler does.  It is about a row that is shown, about the choice
\* (a form, a job that is launched), or about a row of the choice, when the
\* request says both.  When it is answered it may reload the listing, and
\* may change the choice.
OfRow == [says |-> "row", reloads |-> TRUE, moves |-> FALSE]
OfChoice == [OfRow EXCEPT !.says = "choice"]
OfBoth == [OfRow EXCEPT !.says = "both"]

NoReload(k) == [k EXCEPT !.reloads = FALSE]
Moving(k) == [k EXCEPT !.moves = TRUE]

HandlerKinds == [says : {"row", "choice", "both"}, reloads : BOOLEAN, moves : BOOLEAN]

\* useSessionFilters: filters are kept in sessionStorage.  By default they
\* always give a path, rows stay on the screen while others are loaded, and
\* nobody but the handlers reloads.
Listing(handlers) ==
    [handlers |-> handlers,
     opens |-> "kept",      \* or on the "first" choice, or on "none"
     empties |-> FALSE,     \* the path may be null
     lingers |-> FALSE,     \* then the rows of the last one stay
     fixed |-> FALSE,       \* the path does not change
     reloads |-> FALSE,     \* a button or a timer reloads
     detects |-> FALSE]     \* a choice launches a handler

\* useState: nothing is kept.
Unkept(p) == [p EXCEPT !.opens = "first"]
Selected(p) == [p EXCEPT !.opens = "none", !.empties = TRUE]
Fixed(p) == [p EXCEPT !.opens = "first", !.fixed = TRUE]

AdvancedTreatmentPage ==
    [Listing([confirm |-> OfBoth, unconfirm |-> OfBoth, freeze |-> OfBoth,
              unfreeze |-> OfBoth, refreshSapAccounts |-> OfChoice])
        EXCEPT !.reloads = TRUE]

\* The rubrics selected are forgotten when the page is left, or another period
\* is imported or chosen.
PayrollBulletin ==
    [Selected(Listing([importSapPayroll |-> Moving(OfChoice), changeStatus |-> OfBoth]))
        EXCEPT !.lingers = TRUE]

PayrollOperational ==
    [Unkept(Listing([reviewOperational |-> OfBoth])) EXCEPT !.empties = TRUE]

\* detect is also launched by a choice.
PresumedAbsencesPage ==
    [Listing([detect |-> OfChoice, confirm |-> OfRow, confirmSelected |-> OfRow,
              reject |-> OfRow])
        EXCEPT !.detects = TRUE]

DailyAbsencesPage ==
    Listing([declareCompensation |-> NoReload(OfRow), submitAbsenceReversal |-> OfRow])

\* The forms of these three pages; a form that edits a row is left out.
LeaveDeclarationPage == Listing([submit |-> OfChoice, deleteLeave |-> OfRow])

SickLeaveDeclarationPage == Listing([submit |-> OfChoice, deleteSickLeave |-> OfRow])

OvertimeDeclarationPage == Listing([submit |-> OfChoice, deleteOvertime |-> OfRow])

ResignedEmployeesPage == Listing([generateFromDraft |-> OfRow, restore |-> OfRow])

SummaryReportPage ==
    Listing([regenerateSummary |-> OfChoice, refreshEmployees |-> OfChoice])

\* The days of the same page, unless it shows the totals only: a summary that is
\* generated again does not reload them.
SummaryDays ==
    [Listing([regenerateSummary |-> NoReload(OfChoice), refreshEmployees |-> OfChoice])
        EXCEPT !.empties = TRUE]

\* On the same page, the corrections and confirmations of its period.
SummaryEditor ==
    Listing([applyCorrection |-> OfBoth, toggleEmployeeConfirmation |-> OfBoth])

\* A link names two rows, of two listings; both are reloaded.
SapDirectoryPage == Listing([refresh |-> OfChoice, onLinked |-> OfRow])

\* The mappings; the queue on the same page is fixed.
SapMatchingAll ==
    Listing([relink |-> OfRow, manual |-> OfChoice, refreshCache |-> OfChoice])

SapMatchingQueue ==
    Fixed(Listing([runAuto |-> OfChoice, confirm |-> OfRow, reject |-> OfRow,
                   manual |-> OfRow, refreshCache |-> OfChoice, relink |-> OfChoice]))

\* A timer reloads the messages.  A conversation that is created is selected;
\* until the list of conversations has it, the first one is.
MessagesPage ==
    [Selected(Listing([send |-> OfBoth, createDirect |-> NoReload(Moving(OfChoice)),
                       createGroup |-> NoReload(Moving(OfChoice))]))
        EXCEPT !.reloads = TRUE]

\* Three listings, of flags, plannings and declarations, each with its own
\* handlers.
ValidationPage ==
    Fixed(Listing([validate |-> OfRow, reject |-> OfRow, approvePlanning |-> OfRow,
                   rejectPlanning |-> OfRow, approveGroup |-> OfRow,
                   rejectGroup |-> OfRow, approveMembership |-> OfRow,
                   rejectMembership |-> OfRow, approveDeclaration |-> OfRow,
                   rejectDeclaration |-> OfRow]))

SyncAdminPage ==
    Fixed(Listing([runSync |-> OfChoice, reactivateLicense |-> OfChoice,
                   runEmployeePunchSweep |-> OfChoice]))

\* The other handlers reload the chart.
GroupEmployeesView ==
    Fixed(Listing([moveEmployee |-> OfBoth, renameGroup |-> NoReload(OfChoice),
                   deleteGroup |-> NoReload(OfChoice)]))

\* Its row is the employee; declarations are listed elsewhere.
EmployeeDetailPage ==
    Fixed(Listing([saveGroup |-> OfRow, submitOvertime |-> NoReload(OfRow),
                   submitSickLeave |-> NoReload(OfRow), submitLeave |-> NoReload(OfRow)]))

\* Its listing is loaded, then reloaded, when it opens, and by a timer.
NotificationsBell ==
    [Selected(Listing([markRead |-> OfRow, markAllRead |-> OfChoice]))
        EXCEPT !.reloads = TRUE]

\* The chart; the units, sub-units and groups of it are chosen without a load.
OrgChartPage ==
    Fixed(Listing([deleteSubUnit |-> OfRow, createSubUnit |-> OfRow,
                   createGroup |-> OfRow, moveEmployee |-> OfRow,
                   renameGroup |-> OfRow, deleteGroup |-> OfRow]))

\* A choice is a period; what has been drawn in the calendar is forgotten when
\* another period is shown.
ShiftAssignmentCalendar == Unkept(Listing([save |-> OfRow]))

UsersAdminPage ==
    Fixed(Listing([saveOrgAccess |-> OfRow, saveSubUnitBioTimeDepartment |-> OfRow,
                   saveUser |-> OfChoice, deactivateUser |-> OfRow,
                   saveRolePermissions |-> OfRow]))

OvertimeSummaryPage == Listing([toggleConfirmation |-> OfBoth])

\* The summary; the planning on the same page is only listed.
ReportsPage == Listing([regenerateSummary |-> OfChoice])

ManualAbsenceDeclarationPage == Fixed(Listing([submit |-> OfChoice]))

EmployeeContractsPage == Fixed(Listing([submit |-> OfRow, toggleExemption |-> OfRow]))

\* One document, and the queue of those to validate.
JobDescriptionDocumentPage == Fixed(Listing([run |-> OfChoice]))

JobDescriptionWorkflowPage == Fixed(Listing([confirmReview |-> OfRow]))

\* Pages that only list.
AttendancePunchesPage == Listing([h \in {} |-> OfRow])

AuditLogsPage == Listing([h \in {} |-> OfRow])

\* These are closed when nobody is selected.
EmployeePunchHistoryModal == Selected(Listing([h \in {} |-> OfRow]))

EmployeeMonthlyCalendarModal == Selected(Listing([h \in {} |-> OfRow]))

\* The counts of the menu, which a timer and the bell reload.
AppShell ==
    [Fixed(Listing([markRead |-> OfChoice, markAllRead |-> OfChoice]))
        EXCEPT !.reloads = TRUE]

Pages ==
    {AdvancedTreatmentPage, PayrollBulletin, PayrollOperational,
     PresumedAbsencesPage, DailyAbsencesPage, LeaveDeclarationPage,
     SickLeaveDeclarationPage, OvertimeDeclarationPage, ResignedEmployeesPage,
     SummaryReportPage, SummaryDays, SummaryEditor, SapDirectoryPage, SapMatchingAll,
     SapMatchingQueue, MessagesPage, ValidationPage, SyncAdminPage,
     GroupEmployeesView, EmployeeDetailPage, NotificationsBell, AppShell, OrgChartPage,
     ShiftAssignmentCalendar, UsersAdminPage, OvertimeSummaryPage, ReportsPage,
     ManualAbsenceDeclarationPage, EmployeeContractsPage, JobDescriptionDocumentPage,
     JobDescriptionWorkflowPage, AttendancePunchesPage, AuditLogsPage,
     EmployeePunchHistoryModal, EmployeeMonthlyCalendarModal}

\* Handlers of one kind are one: pages may then be the same.
Shape(p) == [p EXCEPT !.handlers = {@[h] : h \in DOMAIN @}]

-----------------------------------------------------------------------------
Paths == Choices \cup {Nothing}
Versions == 0 .. MaxVersions

NoLoad == [stage |-> "idle", of |-> Nothing, at |-> 0, reload |-> FALSE]
Load == {NoLoad} \cup [stage : {"asked", "answered"}, of : Choices, at : Versions,
                       reload : BOOLEAN]

Act == [stage : {"idle", "asked", "answered"},
        on : Paths,        \* the choice of its render, which it reloads
        seen : Paths,      \* whose rows the user saw, or filled the form for
        to : Paths,        \* whose rows the request changes
        at : Versions,     \* the version it made
        hasty : BOOLEAN,   \* begun before they were those of the choice
        silent : BOOLEAN,  \* launched by a choice
        kind : HandlerKinds]
NoAct == [stage |-> "idle", on |-> Nothing, seen |-> Nothing, to |-> Nothing,
          at |-> 0, hasty |-> FALSE, silent |-> FALSE, kind |-> OfRow]

WebTypeOK ==
    /\ page \in {Shape(p) : p \in Pages}
    /\ chosen \in Paths
    /\ shown \in [of : Paths, at : Versions]
    /\ loading \in BOOLEAN
    /\ failed \in BOOLEAN
    /\ load \in [Loads -> Load]
    /\ act \in [Acts -> Act]
    /\ version \in [Choices -> Versions]
    /\ own \in [Choices -> Versions]
    /\ crossed \in BOOLEAN

Busy(f, i) == f[i].stage # "idle"

\* A load of c in one of the free slots, if there is a path.
Starts(f, c, reload) ==
    IF c = Nothing THEN {f}
    ELSE {[f EXCEPT ![l] = [stage |-> "asked", of |-> c, at |-> 0, reload |-> reload]] :
            l \in {i \in Loads : ~Busy(f, i)}}

\* Mutant of Cancelled: the effect has no cleanup.
MutCancelled(f) == f

\* The cleanup of the effect: what its load answers is dropped.
Cancelled(f) ==
    [l \in Loads |-> IF f[l].reload THEN f[l] ELSE NoLoad]

\* The effect of useApi when the choice has become c.
Follows(f, c) == Starts(Cancelled(f), c, FALSE)

\* A reload may answer for another choice than c, or before or after another
\* load, or may still come from the render of another choice.
Crosses(f, w, c) ==
    \/ \E l \in Loads : Busy(f, l) /\ f[l].reload /\ f[l].of # c
    \/ \E l, m \in Loads : l # m /\ Busy(f, l) /\ Busy(f, m) /\ f[l].reload
    \/ \E a \in Acts : Busy(w, a) /\ w[a].kind.reloads /\ w[a].on # c

Fallback == [of |-> Nothing, at |-> 0]

\* detect(true), when the date has changed, unless autoDetectingRef: it
\* belongs to the render of c.
Detects(w, c) ==
    {w} \cup IF page.detects /\ \A a \in Acts : ~w[a].silent
             THEN {[w EXCEPT ![a] = [NoAct EXCEPT !.stage = "asked", !.kind = OfChoice,
                                                  !.silent = TRUE, !.on = c,
                                                  !.seen = c, !.to = c]] :
                        a \in {b \in Acts : ~Busy(w, b)}}
             ELSE {}

\* The page is mounted on c.
MountsOn(c) ==
    /\ chosen' = c
    /\ shown' = Fallback
    /\ loading' = (c # Nothing)
    /\ failed' = FALSE
    /\ load' \in Starts([l \in Loads |-> NoLoad], c, FALSE)
    /\ act' \in Detects([a \in Acts |-> NoAct], c)
    /\ own' = [c2 \in Choices |-> 0]
    /\ crossed' = FALSE

WebInit ==
    /\ page \in {Shape(p) : p \in Pages}
    /\ chosen = IF page.opens = "none" THEN Nothing ELSE Initial
    /\ shown = Fallback
    /\ loading = (chosen # Nothing)
    /\ failed = FALSE
    /\ load \in Starts([l \in Loads |-> NoLoad], chosen, FALSE)
    /\ act \in Detects([a \in Acts |-> NoAct], chosen)
    /\ version = [c \in Choices |-> 0]
    /\ own = [c \in Choices |-> 0]
    /\ crossed = FALSE

-----------------------------------------------------------------------------
(* The user                                                                *)

\* The page is left and opened again.  What its requests still do is left to
\* OthersChange.
Reopens ==
    /\ MountsOn(CASE page.opens = "kept" -> chosen
                  [] page.opens = "first" -> Initial
                  [] page.opens = "none" -> Nothing)
    /\ UNCHANGED <<page, version>>

\* setState at the start of load, for loads of the choices C.
LoadingAny(C) ==
    /\ loading' = (loading \/ C \ {Nothing} # {})
    /\ failed' = (failed /\ C \ {Nothing} = {})

\* Other filters, another selection, or none.
Chooses(c) ==
    /\ ~page.fixed /\ c # chosen
    /\ c = Nothing => page.empties
    /\ chosen' = c
    /\ load' \in Follows(load, c)
    /\ LoadingAny({c})
    /\ act' \in Detects(act, c)
    /\ crossed' = Crosses(load', act', c)
    /\ UNCHANGED <<page, shown, version, own>>

\* The timer, or the button, of the render there is.
Reloads ==
    /\ page.reloads /\ chosen # Nothing
    /\ load' \in Starts(load, chosen, TRUE)
    /\ LoadingAny({chosen})
    /\ crossed' = Crosses(load', act, chosen)
    /\ UNCHANGED <<page, chosen, shown, act, version, own>>

\* A button of a row, or a form.  Rows stay on the screen, with their buttons,
\* while others are loaded.
Presses(a, k) ==
    /\ k \in page.handlers /\ ~Busy(act, a)
    /\ k.says # "choice" => shown.of # Nothing /\ (chosen # Nothing \/ page.lingers)
    /\ act' = [act EXCEPT ![a] =
                [NoAct EXCEPT !.stage = "asked", !.kind = k, !.on = chosen,
                              !.seen = IF k.says = "choice" THEN chosen ELSE shown.of,
                              !.to = IF k.says = "row" THEN shown.of ELSE chosen,
                              !.hasty = loading \/ crossed \/ chosen = Nothing]]
    /\ UNCHANGED <<page, chosen, shown, loading, failed, load, version, own, crossed>>

-----------------------------------------------------------------------------
(* The server                                                              *)

\* Another user, a job, or a request of a page that was left.
OthersChange(c) ==
    /\ version[c] < MaxVersions
    /\ version' = [version EXCEPT ![c] = @ + 1]
    /\ UNCHANGED <<page, chosen, shown, loading, failed, load, act, own, crossed>>

Executes(a) ==
    /\ act[a].stage = "asked"
    /\ \/ /\ act[a].to = Nothing
          /\ version' = version
          /\ act' = [act EXCEPT ![a].stage = "answered"]
       \/ /\ act[a].to # Nothing /\ version[act[a].to] < MaxVersions
          /\ version' = [version EXCEPT ![act[a].to] = @ + 1]
          /\ act' = [act EXCEPT ![a].stage = "answered", ![a].at = version'[act[a].to]]
    /\ UNCHANGED <<page, chosen, shown, loading, failed, load, own, crossed>>

Lists(l) ==
    /\ load[l].stage = "asked"
    /\ load' = [load EXCEPT ![l].stage = "answered", ![l].at = version[load[l].of]]
    /\ UNCHANGED <<page, chosen, shown, loading, failed, act, version, own, crossed>>

-----------------------------------------------------------------------------
(* Answers                                                                 *)

Arrives(l) ==
    /\ load[l].stage = "answered"
    /\ shown' = [of |-> load[l].of, at |-> load[l].at]
    /\ loading' = FALSE /\ failed' = FALSE
    /\ load' = [load EXCEPT ![l] = NoLoad]
    /\ UNCHANGED <<page, chosen, act, version, own, crossed>>

LoadFails(l) ==
    /\ Busy(load, l)
    /\ shown' = Fallback
    /\ loading' = FALSE /\ failed' = TRUE
    /\ load' = [load EXCEPT ![l] = NoLoad]
    /\ UNCHANGED <<page, chosen, act, version, own, crossed>>

\* The choices a handler of kind k may leave the page with.
Moves(k) ==
    IF k.moves THEN {c \in Paths : c = Nothing => page.empties} ELSE {chosen}

\* The request of a handler is answered: it may change the choice, then
\* reloads the listing of its own render.
Returns(a) ==
    LET k == act[a].kind
        on == act[a].on
        knows == k.reloads /\ act[a].to = on /\ on # Nothing
    IN  /\ act[a].stage = "answered"
        /\ act' = [act EXCEPT ![a] = NoAct]
        /\ own' = IF knows /\ own[on] < act[a].at
                  THEN [own EXCEPT ![on] = act[a].at] ELSE own
        /\ chosen' \in Moves(k)
        /\ \E f \in IF chosen' = chosen THEN {load} ELSE Follows(load, chosen') :
             load' \in IF k.reloads THEN Starts(f, on, TRUE) ELSE {f}
        /\ LoadingAny({c \in {on} : k.reloads} \cup {c \in {chosen'} : c # chosen})
        /\ crossed' = IF (k.reloads /\ on # Nothing) \/ chosen' # chosen
                      THEN Crosses(load', act', chosen') ELSE crossed
        /\ UNCHANGED <<page, shown, version>>

\* The request fails, before the server has done it or after, or one of
\* several does: nothing is reloaded.
ActFails(a) ==
    /\ Busy(act, a)
    /\ act' = [act EXCEPT ![a] = NoAct]
    /\ UNCHANGED <<page, chosen, shown, loading, failed, load, version, own, crossed>>

WebNext ==
    \/ Reopens \/ Reloads
    \/ \E c \in Paths : Chooses(c)
    \/ \E a \in Acts, k \in page.handlers : Presses(a, k)
    \/ \E c \in Choices : OthersChange(c)
    \/ \E a \in Acts : Executes(a) \/ Returns(a) \/ ActFails(a)
    \/ \E l \in Loads : Lists(l) \/ Arrives(l) \/ LoadFails(l)

WebSpec == WebInit /\ [][WebNext]_webVars

-----------------------------------------------------------------------------
\* A page that says neither that it loads nor that it failed shows the rows
\* of its choice, with all the changes its own handlers have made in them,
\* unless reloads have crossed other loads (useApi: load, reload, cancelled).
ShowsTheChosen ==
    ~loading /\ ~failed /\ ~crossed /\ chosen # Nothing =>
        shown.of = chosen /\ shown.at >= own[chosen]

\* What a handler sends, the filters of its render with a row of the table, is
\* about the rows the user had before him, unless he was too fast for them
\* (confirm, changeStatus, send: nothing is disabled while loading).
ActsAreMeant ==
    \A a \in Acts : act[a].stage # "idle" /\ ~act[a].hasty => act[a].to = act[a].seen

PagesAreTrue == ShowsTheChosen /\ ActsAreMeant
=============================================================================
