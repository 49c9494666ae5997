# Verification of the RH application

The repository is a human-resources application: a NestJS API over PostgreSQL
(`src/apps/api`), a React client (`src/apps/web`), a replication of the BioTime
attendance terminals and an import of the SAP directory. The API is one Node
process. JavaScript code runs to completion between two `await`s, so what can
interleave is handlers, timers and cron jobs **at every `await` of a database or
HTTP call**. The database runs at READ COMMITTED; a `prisma.$transaction` commits
or rolls back as a whole, and every other query is a step of its own. Nearly all
hard behaviour comes from there: a handler reads, awaits, and writes what it
decided on what it read.

## 1. Inventory

| Component | State | Operations | Interacts with | Correct means |
|---|---|---|---|---|
| Attendance blocks (`attendance/attendance-blocks.service.ts`) | `attendance_block` rows (status, window), two in-process timer maps | create, cancel, timer callbacks activate / complete, replay at start-up | punches ask `isEmployeeBlocked` | no block forgotten, none active ahead of its window, a closed one stays closed |
| Sync, run control (`sync/sync.service.ts`) | `running`, `runningTrigger`, `runSequence`, `sync_log` rows | run, interruption, backfillPunches, employeePunchSweep, failTimedOutRuns, onModuleInit | cron, HTTP, SAP directory refresh | one pull at a time, flags match the work in flight, every log row closes with the right verdict |
| Sync, data (`sync/sync.service.ts`, `biotime-mapper.ts`) | employees, devices, resignations, punches, cursor | pullAll, upserts, reconcile, computeCursor | BioTime client, punches, employees | no update skipped by the cursor, no resignation missed, a full run leaves what it listed |
| BioTime client (`sync/biotime-client.service.ts`, `biotime-license.service.ts`) | token, licence | authenticate, paginatedGet, requestWithAuth, downloadAsset, reactivation of the licence | sync, employees | nothing is written twice, a listing is whole, every call ends |
| Shift planning (`attendance/shift-planning.service.ts`) | `employee_shift_assignments`, unique on (employee, date, status) | assign, batchAssign, approvePlanning, rejectPlanning, calendar queries | org moves copy rows; matching and absences read them | a submission is decided as a whole; approving never loses a day |
| Manual declarations (`attendance/manual-declarations.service.ts`) | leave, overtime, sickness, compensation, absence rows; annual balances | create, update, delete, approve, reject, recalculate | reports, payroll, notifications | rules hold of what is approved; balances follow the leaves; what waits for a review is announced |
| Presumed absences (`attendance/presumed-absence.service.ts`) | cases, unique on (employee, date, type) | detection by cron, review, automatic rejection on every list | planning, punches, declarations | a human decision stands, a case has a reason, a pass leaves nothing behind |
| Punches and flags (`attendance/attendance-punches.service.ts`, `attendance-flags.service.ts`) | punches, `countsAsPresence`, flags | upsert at each synchronisation, validate, reject | sync, matching | one decision per flag, and it survives the next synchronisation |
| Shift matching and engine (`attendance/shift-matching.engine.ts`, `shifts/shift-engine.service.ts`) | none | window matching, pairing of punches | reports, punches | each service gets its own punches, each punch one service |
| Organisation (`org/org.service.ts`) | units, sub-units, groups, membership changes | move(s), approve / reject a move, inheritGroupPlanning, group approval | planning, employees | a change is decided once, members move as they may, a group is renamed, approved or deleted only as asked and reviewed |
| Employees (`employees/employees.service.ts`) | employees, contracts, resignations | resign, reinstate, matricule changes | BioTime, sync | both systems agree |
| Job descriptions (`job-descriptions/*`) | descriptions, versions, approvals, PDF files | draft, submit, approve, reject, revise, archive, generatePdf | notifications | validated only when every step approved; an archived file is never lost |
| Advanced treatment (`advanced-treatment/*`) | confirmations, freezes per period | confirm, unconfirm, freeze, unfreeze, exports | punches, declarations | paid only if the last decision confirmed; the row shown is that of the calendar |
| Resignation decisions (`resignation-decisions/*`) | counters, numbered decisions, PDFs | preview, generate | employees | numbers without gap or double in a unit and a year; one decision per change of status |
| SAP (`sap/*`) | directory rows, mappings, matricules, cache; payroll imports | refresh, manual link, automatic matching, confirm, reject, relink; import of a period | sync, employees | links, mappings and matricules agree; what staff confirmed stays; a period holds one import, each line counted once |
| Reports, exports, overtime and payroll summaries (`reports/*`, ...) | `attendance_summary_records` | generateForPeriod, by cron and on demand; calendar, daily absences, dashboard; aggregation, spreadsheets | reads everything | the records say what planning, punches and declarations say, and the views show what the records say |
| Auth, users, roles (`auth/*`, `users/*`, `roles/*`, `administration/*`) | users, sessions, lists of grants | login, logout, create, update, deactivate, replace a list, seed | every guard | an ended session answers no more; a list of grants is what one request asked for |
| Chat, notifications (`chat/*`, `notifications/*`) | conversations, participants, messages, notices | open, send, mark read, notify | users | a message is unread until it is read; two users have one direct conversation |
| Audit, devices | independent rows | inserts and reads | called by all | - |
| Web client (`src/apps/web`) | the choice of a page, its rows, `loading`, `error`; filters in sessionStorage | choose, load, reload, act on a row | HTTP API | the rows on the screen are those of the choice; what is sent is about the rows that were seen |
| Schema and migrations, tools | - | - | - | - |

What is hard, and where, is listed line by line under `hazards` in
`PROJECT.json`: read-await-write races on status columns (nearly every `approve`
and `reject`), check-then-act on in-memory flags, crash and replay of timers and
of `RUNNING` rows, work that goes on after its timeout, rows copied from a stale
template, sums saved out of order.

## 2. Modules

Each component module has the rows it owns and the program counters of the
handlers in flight as variables, one action per stretch of code between two
awaits, and a `Mut...` operator beside each definition a plausible bug is planted
in (used only to show that a property can fail). Properties come last in the
module. `MC...` modules hold values for TLC; `..._proofs` modules hold theorems.

### AttendanceBlocks
`status`, `from`, `to` are the table; `startTimer`, `endTimer` the timer maps,
holding the time the timer fires; `arming`, `activating`, `completing`,
`cancelling` say what handler is between which two awaits; `mode`, `bootTime`,
`found`, `promoting` are the process and the replay loop; `now` is the clock.
`Create`/`CreateArms`, `CancelReads`/`CancelWrites`,
`FireStart`/`ActivateReads`/`ActivateWrites`,
`FireEnd`/`CompleteReads`/`CompleteWrites` are the handlers of the same name;
`Restart`, `CloseEnded` + `FindOpen` (in `RestoreReads`), `RestoreArms`,
`RestorePromotes`, `RestorePromoted`, `RestoreEnds` are
`restorePersistentSchedule`. `Due` is `setTimeout`: a delay beyond `TimerMax`
(2^31-1 ms) fires at once; `hurried` records, as a history, the instants of a block that
were so far away when its timer was registered. The server takes requests only after the
replay, as NestJS listens after `onModuleInit`.

A query may fail. `CreateFails` is an insert whose answer is lost, `CancelFails` an update
of `cancel` that is refused after both timers are cleared: either leaves a row without
timers, which the history `dropped` names until something schedules it again or the process
restarts. A query that fails in a timer callback or in the replay has no catch: the
unhandled rejection ends the process, and that is `Crash`.

### SyncRuns
`trigger` (with `running`) and `sequence` are the fields of the service; `log`,
`startedAt`, `cursor` the columns of `sync_log`; `pc`, `kind`, `number` are the
local state of each call; `pulls` the downloads under way, which an interruption
or a timeout does not stop. `startup` and `scheduled` runs are one kind
(*background*), `manual` and `manual_sap_biotime` are one (*full*), the two
imports of punches are one (*backfill*: they follow the same control path).
`Expire` makes a row older than `SYNC_MAX_DURATION_MINUTES`. What a pull writes is
in SyncData, and how it asks for it in BioTimeClient.

### SyncData
What a pull writes. `source` and `resign` are BioTime (a row with an update time
and at most one resignation per employee), which others change (`HireOrEdit`,
`Resign`, `Reinstate`, `Delete`); `local`, `record`, `cursor` are the tables; `pull`
is what each pull has listed and has still to write; `staff` is the request of the
HR staff in flight, who write BioTime first and the table afterwards
(`ResignInBioTime`/`ResignLands`, ...). `ListEmployees`/`UpsertEmployee`,
`ListResigns`/`UpsertResign`, `ReconcileReads`/`ReconcileWrites`,
`MissingReads`/`Archives` and `Closes` are `pullAll` in order; `NextCursor` is
`computeCursor`. `GivesUp` is a run that was interrupted or timed out: its pull goes
on writing and closes nothing. `BackfillSucceeds` is the import that hides the cursor.
Terminals are left out; the punches are in PunchPulls, the paging in BioTimeClient: here
a page that fails is a pull that fails.

### PunchPulls
The punches of the same pulls, which the cursor of punches (`mark`: the latest SUCCESS row)
starts from. `clock` is in ticks longer than the minute added to "now"; `made` and `sent`
are BioTime (when a punch was made, and uploaded), `held` is `attendance_punches`, `person`
what is known of an employee, `sync` the local state of each run and import.
`BeginsRun`/`BeginsImport`, `ListsUploaded` (or `UploadedFails`, then `FallsBack` or
`FallbackFails`, which only logs), `Stores` (a row of an unknown employee is dropped),
`Fills` (the backfill), `SweepReads`/`Sweeps` (the sweep) and `Closing` with `NextMark`
(`computeCursor`) are `pullAll` in order. `IsGivenUp` is a run or import whose row was
closed by an interruption or a timeout: its pull goes on (`StoresAstray`), and an import
still closes its row SUCCESS (`ClosesAstray`). The row of an import has no cursor: the run
after it asks for the whole lookback, where the comment says it leaves the cursor alone
(sync.service.ts:536).

### BioTimeClient
The calls of the HTTP client, which share `token` (with the `epoch` BioTime gave it in) and
the licence (`licensed`); `stock` is what BioTime lists, `executed` how often it carried
out the write of a call. `call` holds the local state of a request: the page, the pages
visited, whether it has renewed the token or the licence, and in `frames` the calls of
`authenticate` on its stack, which a reactivation nests. `Begin`, `Login`, `Verified`/
`NotVerified`/`Forbidden` and `Reactivated`/`NotReactivated` are `authenticate`,
`verifyToken` and `reactivateLicenseAfter403`; `Answered`, `AnswerLost`, `RequestLost`,
`RefusedFor401`, `RefusedFor403` the ends of a request in `paginatedGet` and
`requestWithAuth`, `AnsweredByPage`/`WebSession` those of `downloadAsset`.
`TokensExpire`, `LicenceLapses`, `Changes` are BioTime. `present` and `shifted` are
histories: the rows there at the first page, and whether rows moved to other pages since.
Its initial predicate and the rest are named `ClientInit`, ..., since MCSyncRuns extends it
beside SyncRuns.

### ShiftPlanning
A cell is an (employee, date); `approved`, `pending`, `rejected` say which
submission owns the row of a cell in each status (the unique key leaves one), and
`pendingId`, `refused` what `rejectPlanning` needs to tell the row it read from
another one. `Assign`/`AssignUpserts` is the loop of single upserts,
`BatchAssign`/`BatchDirect` one transaction, `ReviewReads` the query both reviews
make before their transaction, `ApproveCommits`, `RejectCommits`,
`ReviewRollsBack` the ways it ends. The shift itself, the notifications and the
access checks are left out.

The table has another writer, `inheritGroupPlanning` of `org.service.ts`, which copies
the rows of a group to those who join it, submission id included: `InheritReads` are its
two queries, `InheritApproved` and `InheritPending` its upserts. A review that commits in
between leaves a pending copy of a decided batch: `split` records that, and `joined` the
cells that became pending while a review was under way. `BatchIsWhole` and
`BatchApprovalFits` except them, and nothing else.

### LeaveDeclarations
The leaves of one employee (`row`), the balances of his years (`balance`, kept as
the set of leaves that were summed: `daysTaken` is their days in the year, and
the entitlement of 30 or 40 days is a constant of the employee), and for each
request the query it is about to make (`phase`) and what it has read (`before`,
`todo`, `snapshot`); `overlapped` records, as a history, that two requests were in
flight at once. `CheckDuplicate`, `CheckHajj`, `CheckUnpaid`, `Refuse` are
`validateLeaveRules`; `InsertRow`, `UpdateRow`, `DeleteRow`, `Review` the writes;
`RecalcReads`, `RecalcSaves` the loop of `recalculateAnnualLeaveBalances`. `Breaks` is any
query that fails, or the audit of `createLeave`, which is awaited between the commit and the
recalculation: `owing` records the years such a request had still to recalculate, until
somebody recalculates them. `RulesAreKept` holds the four rules of `validateLeaveRules`: no
two leaves of one period (`Doubled`), one Hajj (`HajjTwice`), the days without pay of a year
(`OverUnpaid`) and the days of an exceptional leave (`Overlong`). Forms refused before any query (dates reversed, a missing reason), the check that a
declarer updates his own rows, and the summary rows `deleteLeave` removes are
left out.

### PresumedAbsences
One day. `active`, `excuse`, `punch`, `matched`, `plan`, `summarised` are the facts other
services change; `absence` and `presence` the two cases an employee can have (the
unique key leaves one of each type); `work` the pass of each handler: which one, what
it has read and has still to handle, and, as a history, the facts of each employee that
changed since they were last read (`stirred`). A detection runs the passes *inactive*
(automatic rejections), *planned* (the daily report), *rest* and *guess* (no assignment); a
list runs the rejections *inactive*, *justified* and *punched*. `...Reads` are the queries a
pass starts with, `Checks`/`Writes` the awaits of its loop, `FindsAbsence`,
`FindsPresence`, `Rejects` the upserts and updates.

The punches of an employee are of the *eve*, the *day* or the *morrow*, since the queries
look for them in three windows. The report matches them with the planned shift from the eve
to the morning after, where a night ends (`matched`); the evidence against a case
(`Evidence`) is a punch of the day, or of the eve too for a case found without planning, or a
summary record; the guess counts those of the eve and of the day, up to when the detection
began (`Counted`: `later` holds the employees all of whose punches of the day came after
it). So a case may stay pending although the exit of a night is matched, and a detection
may open one of an employee who punched while it ran; the properties say as much.

### ManualDeclarations
The other declarations of one employee: `row` (overtime, compensations, reversals, sick
leaves, by identifier) and `manual` (absences, unique by day); `punched`, `absent`,
`onLeave` are the facts they are declared on, `announced` the pending ones of which the
approvers were notified, `lost` (a history) those whose request failed before. `BeginsDeclaring`
and `BeginsManual` are the guards of the creations, `Asks` each query of a manual absence
(main list, punches, leaves, sick leaves, the row itself) and `Refuses` what it answers,
`WritesRow`/`WritesManual`, `Announces` the writes, `BeginsEdit`, `Deletes`, `Reviews` the
other requests. `since` records that what a request read has changed.

### Organisation
`group` holds the columns of a group with what was submitted of it (`pendingName`,
`pendingDelete`), `member` the group of each employee, `change` the membership changes,
`planned` the groups whose planning has approved rows (the condition under which a
move needs an approver). `work` is what each request has read and, as a history, what
changed since (`since`). `CreateGroup`, `BeginsEdit`/`WritesEdit`,
`BeginsDelete`/`WritesDelete`, `BeginsDrop`/`Drops` (a sub-unit or a unit),
`Approves`, `Rejects`, `BeginsMove` ... `Submits` or `Moves`,
`BeginsDecision`/`Decides` are the handlers; a decision goes on with the refresh of
the two groups it names (`ReadsGroup`, `CountsPending`, `Refreshes`, `SkipsGroup`).
Names of units and sub-units and notifications are left out; the planning a move
inherits is in ShiftPlanning.

### ShiftMatching and AttendanceSummaries
`ShiftMatching` is `matchDailyAttendance` as operators, with the hours of the shift
definitions the migrations insert: `Window`, `Inferred` (a day without planning),
`Selected` (entry and exit, the late evening included) and `Services`, the fold over
the days in which the entry of a service, and the exit of a night, are used up.
`AttendanceSummaries` is `generateForPeriod` over it: `facts` is what planning,
terminals, contracts and declarations say, `records` the table, `gen` what each
generation has read. `ReadEmployees`, `ReadPointages`, `ReadScope`, `ReadDeclarations`
are its queries, `Deletes`, `Commits` its transaction (`Locks`: the second delete of a
row waits for the first), `RowRecord` and `Written` the records it computes. Hours
worked are the pair of punches they follow from.

`EmployeeCalendar` and `AttendanceReports` extend it with the views of the same facts, as
operators of a state: `Calendar` is `employeeMonthlyCalendar` (its matching accepts an exit
on the day of the entry without a planning: the last argument of `Services`), `AbsenceOf`
the rows of `dailyAbsences` (which match one day alone, `ServiceOfDate`), `DashboardKpis`
the dashboard (which reads no declaration), `SummaryRow` the counts of the report. They
disagree with the records where they read less; `CalendarAgrees` and `ReportsAgree` list
these cases and hold the views to agreement in all others.

### SapDirectory
`rows`, `link`, `newest` are the directory, `confirmed`, `latest` the confirmed
mappings, `matricule` the column of the employees. An employee's records, and a
record's mappings, come in the order of their stamps, of which the queries use the last
one only: the model keeps the last one, and lets any other take its place when it goes.
`RefreshReads`, `RefreshReadsMappings`, `RefreshUpserts`, `RefreshReconciles`,
`RefreshNames`, `RefreshEnds` are `refresh` with `reconcileLocalMatricules`;
`LinkManually` is one transaction; `ConfirmReads`/`ConfirmMaps`/`MatchNames`,
`RelinkReads`/`RelinkCommits`, `Reject`, `AutoReads`/`AutoMaps`/`AutoEnds` are the
matching service. `Keys` are the codes an employee may be known by: those of BioTime
(`Codes`: `zktecoId`, `biotimeCode`, `employeeCode`), and the matricules, which are
identifiers of SAP or anything the staff typed. `refresh` puts them all in one map, in which
the last employee read wins: `Holders` are those who have a code, `Owners` the maps that may
result, and a record is looked up by the code SAP gives it (`Badge`), then by its own
identifier, then by its name (`Designated`). `Named`, `Alike`, `Partly` say what the
comparisons of names and phones answer. A pending or refused mapping has no effect on links and is no
mapping here; spellings of one code and the age of the cache are left out.

### PayrollControl
The import of one period of the payroll, over and over: `lines` are the committed bulletin
lines, `mapping` the rubrics, `request` what each import has upserted (rows it holds locked
until it commits: `Held`), seen and deleted. `AsksLines` (SAP answers), `Upserts`, `Deletes`,
`Commits`, `ImportFails` are `importPeriod`; `UpdateRubric`, `Confirm`, `Restore` the edits.
`Amounts` and `Shown` are the rows of the control, `Operational` the fold that joins the
records of one person, by matricule and by his own code.

### AdvancedTreatment
The advance on salary of a period: `known` are punches, declarations and account of an
employee, `confirmation` and `frozen` the two tables, `treatment` what each request has read.
`Reads` is one query of it (`QueriesOf`), `ConfirmsRow`, `UnconfirmsRow`, `FreezeDeletes`/`Freezes`,
`Unfreezes` the writes, `Pays` the transfer file. `RowOf` is `computeRows`, `Calendar` the
calendar of the employee.

### ResignationDecisions
`counter` is the last number of a unit and a year, `decisions` the committed rows, `pdfs`
the files; `demand` says where each request is. `Asks`/`Checks` look for the decision
there is, `Waits`/`Numbers` draw a number under the lock of the counter row,
`PrintsDocument`, `Creates`, `Undoes` are the file and the end of the transaction.

### DocumentArchive
`generatePdf` over the rows (`row`) and the files of one version: `Writes` the temporary
file, `Renames` it to the path its hash names, `Inserts` the row under the unique key,
`Records` the audit, `Unlinks` and `FindsOther` when another request was first, and
`FileFails`, `InsertFails`, `InsertIsLost`, `Crash` in between. `broken` and `clash` are
the two ways the file can be lost: an error after the insert went through, and two
requests whose documents have the same bytes.

### UserAccounts
`account` is `users.is_active`, `grants` the three lists (roles of a user, permissions of a
role, sub-units of a user), `session` the sessions, with `ended` (a history) those that
should answer no more. `BeginsLogin`/`OpensSession`/`SignsSession`, `Logout`, `Expires`,
`BeginsDeactivation`/`Deactivates`/`Revokes`, `CreatesUser`, `BeginsGrant`/`Deletes`/
`Commits` (a transaction that deletes the rows its statement saw, waiting for those
another one holds, and inserts those asked for), `BeginsSeed`/`Empties`/`Seeds` (without a
transaction) are the requests; `Answers` is the session guard, `Permitted` the permission
guard, checked once when a request begins.

### Messaging
`conversation` holds the participants and what each has read (a date), `message` and
`notice` the messages and their notifications, `clock` the clock. Dates are issued and rows
written apart: `BeginsSend`/`Inserts`/`Marks`/`Notifies`, `BeginsMark`/`Dates`/`Marks`,
`BeginsDirect`/`CreatesDirect`, `CreatesGroup`, `Restarts` (the administrators added at
start-up). `caught` and `twins` are histories: messages in flight when a reader dated his
reading, and direct conversations created beside one another.

### JobDescriptions and DocumentCircuit
One description: `fiche`, `current`, `version`, `text`, `approval` are the columns
of the three tables, `round` the identity of the approval rows, which every
submission deletes and makes anew. `call`, `on`, `step`, `ident`, `copy` hold what
each request in flight has read and is about to write. Each handler is a `...Reads`
and a `...Commits` (`EditWrites` for the single update): `findFirst` with its
includes is taken as one read (Prisma issues a SELECT for each table, between which
another request may commit: a simplification), the transaction as one write, and nothing is checked again
inside it; `Reads` therefore carries the guards, the commits only what an update
by identifier needs (`Found`, the unique number of a version). `RollsBack` is any
query that fails. What a request found decides its call: *approve* or *validate*
(was there a next step), *archive* or *discard* (was the version a draft). Role
checks, required blocks, inactive or absent circuits, notifications and templates are
left out; the PDF is in DocumentArchive.

`DocumentCircuit` is what the circuit promises of a version, every step atomic.
`JobDescriptions` maps `version` to `status`, `text` to `content`, and the steps
approved to `passed`. It does not implement it outright, as the handlers do not
look twice: `CircuitUnlessLate` is the refinement up to the `LateStep` of a request
that another one has `Overtaken`, and says exactly which steps need a lock.

### WebPages
The hook every listing loads with (`useApi`) and what thirty-five pages and parts of pages do around it, one
record each: which handlers they have, whether a request is about a row that is shown,
about the choice (filters, selection) or about both, whether it is followed by a reload
or by another choice. Pages of one `Shape` behave alike. `shown`, `loading`, `failed` are
the state of the hook, `load` and `act` the requests in flight, `version` how often the
server's rows of a choice have changed. `Chooses` is a change of filters with the effect it
causes, whose cleanup drops the answer of the load before (`Cancelled`); `Reloads` and
`Returns` call the `reload` of their render, which nothing cancels; `Arrives`, `LoadFails`
and `ActFails` are the answers, `Lists`, `Executes` and `OthersChange` the server. When
there is no path `loading` stays as it was: the effect returns before it is set. `own` and
`crossed` are histories: the changes the page knows it has made, and whether a reload was
in flight beside another load, or may still come from a handler of an earlier choice, when
the last load was started. Loads of the effect never count as crossed: that they are
cancelled in time is what the property relies on.
The days of the summary report are not reloaded after a new generation (`SummaryDays`).

## 3. Runs

| Run | Instance | What it shows |
|---|---|---|
| `blocks` | 2 blocks, the first of any window and the second ending last, 1 cancel request, queries that fail (1 block dropped at a time), clock to 2, timers to 1, 1 crash | `BlocksAreTimely` (`NeverEarly`, `ScheduledIsWatched`), `ClosedIsFinal`; under fairness `BlocksMoveOn` |
| `sync_runs` | 2 calls of any kind, 1 crash; or 2 requests of the client, 2 rows of 1 page, 2 login endpoints of which 1 is accepted, 1 expiry, 1 lapse | `RunsAreHeld` (`FlagsFollowHolder`, `RunningRowHasOwner`), `VerdictStands`; `CallsAreSound` (`WriteIsMadeOnce`, `ListingIsWhole`); under fairness `EverythingEnds` |
| `sync_data` | 2 employees, 1 pull, 1 staff request, 2 changes in BioTime; or 2 employees with a punch each, 1 change of an employee and 1 run or import, or no change and 2 of them, clock to 3 | `FullRunAgrees`, `NothingIsSkipped` (`CursorSkipsNothing`, `ResignationIsHeard`); `UploadsAreReached` |
| `planning_safety` | 2 employees on a day, 1 assign, 2 batches, 2 reviewers; or 1 batch beside 1 inherited planning | `BatchHolds` (`BatchIsWhole`, `BatchApprovalFits`), `DayIsNotLost` |
| `leaves` | 2 leaves of all kinds, 2 requests (fewer leaves once they overlap, or after one that broke), queries that fail, 2 years; or any page, 2 choices, 2 loads, 2 handlers (1 once loads have crossed), 1 change of each choice | `BalanceIsRight`, `ChangeIsRecalculated`, `RulesAreKept`; `PagesAreTrue` (`ShowsTheChosen`, `ActsAreMeant`) |
| `absences` | 1 employee in nearly any state (`PlainDay`), 2 handlers, 1 change of the facts; or 2 days, 1 row, 3 actors, 2 requests (manual absences on the first day), 1 change | `PassIsComplete`, `DecisionStands`, `CaseIsFounded`; `PendingIsAnnounced`, `DeclarationIsFounded` |
| `organisation` | 2 groups in any stage, 1 sub-unit, 1 employee, 2 changes, 2 requests, 2 events; or 2 users, 2 sessions, 1 area, 3 permissions, 2 roles, 2 requests; or 3 users, 2 conversations, 1 message, 2 requests, clock to 2 | `DecidedOnce`, `ChangesAreEntitled` (`MovesAreEntitled`, `SubmissionsAreReviewed`, `DeletionIsAsked`); `EndedForGood`, `GrantsAreWhole`; `ChatIsKept` |
| `summaries` | 2 days: every planning with up to 4 of 6 punches, every declaration of a day, 2 overlapping generations | `OwnPunches`, `SummaryIsRight`, `ViewsAgree` (`CalendarAgrees`, `ReportsAgree`) |
| `sap_directory` | 2 employees of whom 1 has a code and 1 at most a matricule to begin with, 2 records, any directory, 2 handlers, 2 requests; or 2 imports of 3 answers, 3 employees; or 1 worker, 2 handlers, a week, 2 states of what is known | `RefreshSettles`, `LinkStands`, `DoubleIsOvertaken`; `ImportIsWhole`, `LinesAreCounted`; `AdvanceIsSound` (`PayIsGranted`, `RowIsFounded`) |
| `job_safety` | 2 versions, 3 steps, 2 requests, 1 new content; or 3 generations and 3 prints; or 3 demands in 2 years | `ReviewIsSound` (`InReviewIsOrdered`, `SomeoneIsNext`, `ValidatedIsReviewed`), `CircuitUnlessLate`, `AgreementLasts`; `ArchiveIsKept`; `DecisionsAreWhole` |

Where a run has several parts, the modules share nothing that one request reads or
writes. The `MC` module then has a variable `part`, chosen at the start, that says which one
acts while the others stand still in a fixed state: the run explores the sum of the
instances. The `MC` module extends all the modules it explores, which therefore have
names of their own (`PayInit`, `ManualNext`, ...): what it checks is what the proofs are about.

The properties that name an exception (`StaleReading`, `Overtaken`, `stirred`,
`since`, `crossed`, ...) say which step the code does not protect: take the exception away and
TLC shows the interleaving. Two runs are violations, where the code departs from what
it says of itself:

| Run | Says | Does |
|---|---|---|
| `token_retry` | "on ré-authentifie une seule fois puis on relance" (biotime-client.service.ts:226) | the page refused is already among the pages visited: the call authenticates anew, then throws instead of asking again |
| `job_validated` | "Une étape précédente doit être validée d'abord." (job-descriptions.service.ts:596) | a refusal commits between the read and the commit of the last approval: validated over a refused step |

`TypeOK` is not listed: where it is proved it needs no run, and elsewhere an ill-typed
value stops TLC in the actions that use it.

**Bounds.** `MaxTime` and `TimerMax` bound the clock and the timers, `InOrder` the windows and the order
of the blocks (they are numbered as they are created, later ones end last), `MaxCrashes` the crashes, `Calls`, `Requests`, `Reviewers`,
`AccountRequests`, `ChatRequests`, `AdvanceRequests`, `MaxChatCalls`, `Generations`, `Demands`, `Imports`, `Movers` the handlers, overlapping or in all,
`MaxEvents`, `MaxChanges`, `MaxAltered`, `MaxExpiries`, `MaxLapses` what happens around them, `Rows` the
pages of a listing, `PunchesEach`, `Syncs`, `MaxTicks`, `MaxMoves` the punches, their pulls and the clock (`FewRuns`: two
pulls only while the employees stay as they are), `CrowdLeaves` and its kin the leaves that overlapping requests touch,
`PlainDay` and `FewMatricules` the initial states of a day and of a directory (the requests reach the others),
`Loads`, `Acts` and `MaxVersions` what a page has in flight and what changes beneath it (`FewActs`), `IdIsLeft`
the rows created, `Days`/`Periods` the calendar (two years,
periods inside each and across), `Versions` the revisions. Two steps of a
circuit cannot go out of order without validating it, so it has three. Every
race found needs two handlers and one row; two rows show what a loop does to a
row it has not reached. Instances with three calls or two more blocks add no new
kind of step, and the invariants are proved for all sizes.

**Deadlock** is not checked where the system may stop: the clock, the crashes and
the calls are bounded, and users owe no request.

**Fairness.** Blocks: time passes, timers that are due fire, issued queries are
answered, with a result or an error. Nothing is assumed of users, nor of whoever starts a
process that is down: nothing in the repository does it by itself (the control panel has a
*Start API* button, `rh-control-panel.ps1:99`). So `BlocksMoveOn` is conditional: **if** the
process is up or starting infinitely often, every block moves on. Sync: the same for
queries, plus the cron of every minute, the timeout of `withSyncTimeout` and the ageing of
rows; that a RUNNING row is closed is likewise asked only of a process that is up infinitely
often. BioTime is **not** assumed to answer: in the client every request of a call
that has begun is answered or times out (the timeout given to axios), and nothing is
assumed of who begins a call.

## 4. Theorems

All proofs are checked by TLAPS for every value of the constants, under the
assumptions named in the component modules (bounds are natural numbers, sentinels
are none of the ids, the calendar is monotone).

* **AttendanceBlocks.** `IInv` adds to `ScheduledIsWatched` what each handler
  knows at its await (an armed timer belongs to an open row, a row the replay
  holds has no other handler), for the blocks no failed query has `dropped`.
  `NeverForgotten`, `ReplayIsFresh`, `ClosedForGood` follow. `NeverAheadOfWindow` needs the further invariant that a timer never
  fires before its bound, save an instant further away than `setTimeout` honours,
  which the property excepts: such a timer fires at once. What counts is the delay when the
  timer was registered (`hurried`), not the instant itself.
* **SyncRuns.** `IInv` = `NumberInv` (calls in flight hold different numbers, none
  above `runSequence`), `RowInv` (what the program counter says of the log row),
  `DownInv`, and the two invariants themselves. `VerdictsStand` is an action
  property that follows from it.
* **BioTimeClient** (in SyncRuns_proofs). `ClientTypeCorrect` includes the nesting of
  `authenticate`: a reactivation does not cause another, so two frames are enough. `WriteInv`
  says that a write is `executed` only by the request that ends its call, whatever is
  answered, so that no retry follows it (`WritesAreMadeOnce`). `ListInv` says of a listing
  under way which rows it has read: those of the first pages of `stock`, in order, while
  the rows keep their pages (`ListingsAreWhole`); `CallsSound` joins them. They assume that the row BioTime adds is none
  of those it holds (`ClientAssumption`).
* **SyncData.** `FullRunsAgree` and `SkipsNothing` share `IInv`: nothing is dated later than
  now (`TimeInv`), nobody has read what BioTime does not say yet (`RevInv`), one run at most
  owns the cursor, which is the one it read (`OwnedInv`), what has not changed since a list
  was asked for is on it (`ListsInv`), what the loop has been over is known here
  (`LoadedInv`), and phase by phase what a full run has established of an employee nobody
  else wrote (`FullInv`, where `Progress` is the invariant of its loops). That the cursor is
  the latest stamp needs a greatest element of a finite set of numbers (`MaxExists`).
* **PunchPulls** (in SyncData_proofs). `PunchInv` adds to the types that a punch is made
  before it is uploaded, and that a pull has `Taken` (stored, dropped, or still to write)
  every punch that was uploaded before it began and that it `WentBackTo`. So what a run that
  closes leaves out of reach it did not go back to, dropped, or passed by more than the
  overlap (`PunchesStayInReach`).
* **ShiftPlanning.** `BatchDecidedWhole` needs that a submission owns cells only
  after it was sent, that what a copy is about to write was sent too (`CopiesAreRows`),
  and that a decided batch gains a pending cell only as `split`; `BatchFits` relates what a
  review read to what is still pending or has `joined` since. `BatchesHold` joins them.
* **Organisation** (in ShiftPlanning_proofs, as its moves inherit plannings; its `OrgInit`,
  `OrgNext`, `OrgSpec` have names of their own for that). `OrgIInv` adds to `OrgTypeOK` that
  what a request has read is still so but for the rows in its `since` (`OrgKnows`: where the
  employees are, which groups need an approver, the row of the group, the change pending).
  `KnowsLasts` proves it once for all requests that wait, from the rows each step changes
  (`OnlyChanges`); the step of each request then has its own part to show. That a change
  asked for is about somebody (`Asked`) is needed for the types. `ChangesAreDecidedOnce` and
  `ChangesHaveTitles` (its three parts) follow from who can write each row
  (`ChangeWriters`, `MemberWriters`, `GroupWriters`).
* **UserAccounts** (in ShiftPlanning_proofs, as the users of both). `SessionInv` says that an
  ended session is over and was somebody's; `InHand` what each request has: the session it has
  inserted, the list it may write, the rows of it that it deletes unless another request has
  written them since (`mixed`). `SessionsEndForGood` and `GrantsStayWhole` follow.
* **Messaging** (in ShiftPlanning_proofs). That messages count as unread (`ChatsAreKept`) needs
  `MessageInv`: who has not caught a message had read its conversation before it was dated;
  `InChat` carries that through the await between a date and its row, with the message
  a request sends, which is its own, and the direct conversation it has not found.
  `InChatLasts` and `SameDirect` say once what other requests cannot take back.
* **LeaveDeclarations.** `ChangesRecalculated` is an action property over
  `TypeOK`; `BalancesRight` uses `BInv`: as long as no two requests have overlapped,
  the one in flight says which years may differ (those still in `todo`, and the one
  in `snapshot`), beside those a request that broke is `owing`. Afterwards the sums may be saved in the wrong order. `RulesKept`
  (`RInv`, `Validated`): what `validateLeaveRules` found, of each of its four rules, still
  holds when the row is written, as long as no other request wrote in between; the days
  without pay are counted, so that leaves and days are assumed finite.
* **WebPages** (in LeaveDeclarations_proofs). `EffectIsOne` shows that one load at most is
  not a reload, and that it is of the choice, as the cleanup of the effect comes before the
  next one (`FollowsEffect`). `WebInd` adds to the two parts of
  `PagesAreTrue` that, unless reloads have crossed, what is in flight is one load, of the
  choice, whose answer is no older than what the page has made (`LoadIsMeant`), that nobody
  knows of more changes than there were (`KnownIsDone`), and that a failed page is blank
  (`FailureIsBlank`). `StartedAlone` and `FollowedAlone` say once, for reloads and for
  choices, why a load that is started beside no other is one of these. `PagesKeptTrue` is
  then for any number of loads, handlers and choices, and for every page.
* **PresumedAbsences.** `IInv` adds to `TypeOK` what a pass has read of an employee, fact by
  fact: it stays true until that fact is `stirred`. `PassesAreComplete`,
  `DecisionsStand` and `CasesAreFounded` follow.
* **SapDirectory.** `IInv` adds to `TypeOK` what a handler has read of a record
  (`Readings`), which holds until somebody stirs it, and how far a refresh nobody
  disturbed has got towards what `Settled` asks (`Settling`). Of a record that a code of
  BioTime names, `RefreshesSettle` says that it is linked to somebody: when several hold
  the code, as a matricule or as their own, the source does not decide to whom.
* **ManualDeclarations** (in PresumedAbsences_proofs). `ManualInv` says what each request
  has in hand (`Has`): a declaration still founded, queries that would still not refuse,
  until it notes a change in `since`. `HasLasts` and `SameFacts` show once that no other
  request takes it back; `PendingAreAnnounced` and `DeclarationsAreFounded` follow.
* **PayrollControl** (in SapDirectory_proofs). `PayInv`: two open imports hold different
  rubrics (`Apart`, the row locks), the lines are those of whole answers (`Whole`), and from
  its delete on an import has seen every line that shares a rubric with it (`Replaces`), so
  that its commit leaves no line of another (`ImportsAreWhole`).
* **AdvancedTreatment** (in SapDirectory_proofs). `AdvanceInv`: a confirmation is granted or
  was written beneath a freeze, and so is what an export has read or paid unless it was
  granted since it began (`Due`). `RowsAreFounded` needs no state: it is arithmetic on the
  days of a period, of which the cardinalities are added up (`DaysAreFinite`).
* **DocumentArchive** (in JobDescriptions_proofs). `ArchiveInv` says of each await where
  the file of the request is; `ArchiveKept` follows.
* **ResignationDecisions** (in JobDescriptions_proofs). `Stands` says of each demand under
  way that what it has read is committed, that it alone holds the next number of its series,
  and that it read no decision like the one it makes unless it asks again; with `OneEach` (a
  demand makes one decision, its last act) `DecisionsKept` follows.
* **JobDescriptions.** `IInv` = `TypeOK`, `NothingYet` (no request before the
  description exists), `Knows` (what a request read and no other step can take
  back: its version exists, the steps before its own were decided as long as its
  round lasts) and the three invariants of the circuit. The crux is that decisions
  stay (`DecisionsStay`): a refusal cancels pending steps only, and a submission
  changes the round. `AgreementIsKept` and `CircuitIsFollowed` are step-by-step
  refinement proofs, for any circuit and any number of requests;
  `AloneImplements` is the refinement without exception, `Circuit!Spec`, when there is
  one request at a time.

**Only model-checked.** `BlocksMoveOn` and `EverythingEnds` are liveness under fairness.
`OwnPunches`, `SummaryIsRight` and `ViewsAgree` are about folds over days and punches, and
`LinesAreCounted` about a fold over records, where a proof needs an induction over data.

## 5. Not modelled

* **Web client: what is drawn**, the login, the forms of the job descriptions and of the
  BioTime employees, the lists of reference data, and the forms that edit a row of a listing
  with filters.
* **Schema, tools.** Declarations and scripts. Unique keys are modelled where
  a handler relies on one.
* **Aggregation, spreadsheets, PDF layout** (`overtime-summary`, `payroll-summary-editor`,
  the monthly and yearly tables of `reports`, exports): they read and format what the
  modelled tables hold, one query after another, and keep nothing.
* **Terminals of a pull, flags**: a terminal is one upsert; the only caller of
  `recordMatchedPunch` passes `UNMATCHED`, so no flag is opened.
* **The shift engine** (`shifts/shift-engine.service.ts`) pairs punches for two reports
  and keeps nothing; its pairing is not that of the summaries.
* **Templates and circuits of job descriptions, forms of employees, units**: plain
  writes of reference data.
* **Audit, devices**: independent inserts and reads. Role checks are guards
  that change nothing and are left out of every module, save where a role changes what a
  handler does (`by` in Organisation and ManualDeclarations, `Permitted` in UserAccounts).
* **Failing queries** are modelled where they leave something half done: after the timers
  of a block are cleared or its row inserted (`CancelFails`, `CreateFails`), between a write
  and what follows it (`Breaks`, the `lost` notice of a declaration), in a loop of single writes
  (`Fails` of PresumedAbsences, `ImportFails`, the pages that fail in a pull), around a file
  (`FileFails`, `InsertFails`, `InsertIsLost`, `Undoes`) and in transactions (`RollsBack`).
  Elsewhere a query that fails ends a request that has written nothing yet, which is the
  request not having been made.
* **Transactions** run at READ COMMITTED, so that another commit may land between two of
  their statements. They are one step here, save where that matters to a property: the row
  locks of PayrollControl, of the summaries and of the lists of grants, the counter of the
  resignation decisions, the freeze of an advance. In ShiftPlanning a review is one step: the
  commit of a directly approved row between its `deleteMany` and its `updateMany` makes it
  roll back, as `ReviewRollsBack` may at any time; the other commits there are taken to come
  before the transaction or after it.
* **Smaller steps that are merged.** `Closes` of SyncData takes the last look at the run, the
  queries of `computeCursor` and the update of the row together. `EditWrites` of
  JobDescriptions leaves out the snapshots of the job and of the employee, which it reads,
  merges and writes back.
