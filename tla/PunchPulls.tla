----------------------------- MODULE PunchPulls -----------------------------
(***************************************************************************)
(* How punches reach the table attendance_punches (src/apps/api/src/sync/  *)
(* sync.service.ts: the transactions of pullAll, transactionSyncFrom, the  *)
(* rolling backfill, the sweep of the employees and the two imports asked  *)
(* for by hand), and the cursor punchesSince that says where the next run  *)
(* starts.                                                                 *)
(*                                                                         *)
(* A punch is made at a terminal and uploaded to BioTime later, perhaps    *)
(* much later.  Runs ask for what was uploaded since the cursor; backfills *)
(* and sweeps ask for what was made in a window.  A step is one answer of  *)
(* BioTime or of the database with the code up to the next await.  Time is *)
(* in ticks of which the minute the code adds to "now" is a fraction.      *)
(***************************************************************************)
EXTENDS Integers, FiniteSets, FiniteSetsExt

CONSTANTS
    Persons,      \* employees of BioTime
    PunchesEach,  \* bound on the punches of each
    Syncs,        \* runs and imports
    MaxTicks,     \* bound on the clock
    MaxMoves,     \* bound on the changes of employees
    Overlap,      \* BIOTIME_UPLOAD_CURSOR_OVERLAP_HOURS
    Lookback,     \* BIOTIME_TRANSACTIONS_LOOKBACK_DAYS
    Fallback,     \* BIOTIME_PUNCH_FALLBACK_LOOKBACK_HOURS
    Window        \* BIOTIME_PUNCH_BACKFILL_DAYS, and the one of the sweep

ASSUME PunchAssumption ==
    /\ MaxMoves \in Nat
    /\ IsFiniteSet(Syncs)
    /\ {PunchesEach, MaxTicks, Overlap, Lookback} \subseteq Nat \ {0}
    /\ {Fallback, Window} \subseteq Nat \ {0}

VARIABLES
    clock,
    made,     \* BioTime: punch_time of each punch
    sent,     \* BioTime: upload_time of each punch
    held,     \* attendance_punches
    person,   \* employees: what is known here of each
    moves,    \* changes of it so far
    mark,     \* the latest SUCCESS row: its rank, and its punchesSince
    sync      \* local state of each run and import

punchVars == <<clock, made, sent, held, person, moves, mark, sync>>

-----------------------------------------------------------------------------
\* Times start at 1: Nothing is earlier than all of them.
Nothing == 0
Ticks == 1 .. MaxTicks
Marks == Ticks \cup {Nothing}

Punches == Persons \X (1 .. PunchesEach)
Owner(k) == k[1]

RunsOf == {"scheduled", "full"}
Imports == {"backfill", "sweep"}

Stages == {"idle", "asking", "falling", "storing", "filling", "filled",
           "sweeping", "swept", "closing", "astray", "done"}
\* Stages at which rows are being written.
Writing == {"storing", "filled", "swept"}
UnderWay == Stages \ {"idle", "done"}

Sync == [stage : Stages,
         does : RunsOf \cup Imports,
         rank : Nat,
         owned : BOOLEAN,             \* its row is RUNNING
         began : Marks,               \* transactionsTo
         answer : {"none", "upload", "fallback"},  \* to the first listing
         from : Marks,                \* where that listing starts
         low : Marks, high : Marks,   \* the window of a backfill or sweep
         refill : Marks \cup {MaxTicks + 1},  \* where its backfill started
         rows : SUBSET Punches,       \* rows to write
         queue : SUBSET Persons,      \* employees to sweep
         dropped : SUBSET Punches]    \* rows of unknown employees

Unbegun == [stage |-> "idle", does |-> "scheduled", rank |-> 0, owned |-> FALSE,
            began |-> Nothing, answer |-> "none", from |-> Nothing,
            low |-> Nothing, high |-> Nothing, refill |-> MaxTicks + 1,
            rows |-> {}, queue |-> {}, dropped |-> {}]

Finished == [Unbegun EXCEPT !.stage = "done"]

PunchTypeOK ==
    /\ clock \in Ticks
    /\ made \in [Punches -> Marks]
    /\ sent \in [Punches -> Marks]
    /\ held \in SUBSET Punches
    /\ person \in [Persons -> {"unknown", "ACTIVE", "RESIGNED"}]
    /\ moves \in 0 .. MaxMoves
    /\ mark \in [rank : Nat, since : Marks]
    /\ sync \in [Syncs -> Sync]

PunchInit ==
    /\ clock = 1
    /\ made = [k \in Punches |-> Nothing]
    /\ sent = [k \in Punches |-> Nothing]
    /\ held = {}
    /\ person \in [Persons -> {"unknown", "ACTIVE"}]
    /\ moves = 0
    /\ mark = [rank |-> 0, since |-> Nothing]
    /\ sync = [p \in Syncs |-> Unbegun]

-----------------------------------------------------------------------------
(* Terminals, BioTime, and the employees                                   *)

TimePasses ==
    /\ clock < MaxTicks
    /\ clock' = clock + 1
    /\ UNCHANGED <<made, sent, held, person, moves, mark, sync>>

\* A punch is uploaded, at once or when the terminal is on line again.
Upload(k) ==
    /\ sent[k] = Nothing
    /\ made' \in {[made EXCEPT ![k] = t] : t \in 1 .. clock}
    /\ sent' = [sent EXCEPT ![k] = clock]
    /\ UNCHANGED <<clock, held, person, moves, mark, sync>>

\* An employee becomes known, resigns or is reinstated, by a run or a request
\* (SyncData says how).
PersonChanges(e) ==
    /\ moves < MaxMoves /\ moves' = moves + 1
    /\ person' \in {[person EXCEPT ![e] = s] : s \in {"ACTIVE", "RESIGNED"} \ {person[e]}}
    /\ UNCHANGED <<clock, made, sent, held, mark, sync>>

-----------------------------------------------------------------------------
(* Runs                                                                    *)

\* The time `span` before t, or the beginning.
Back(t, span) == IF t > span THEN t - span ELSE Nothing

Later(s, t) == IF s > t THEN s ELSE t

\* Mutant of AskFrom: no overlap.
MutAskFrom(since, t) == Later(since, Back(t, Lookback))

\* transactionSyncFrom: the cursor less the overlap, within the lookback.
AskFrom(since, t) == Later(Back(since, Overlap), Back(t, Lookback))

\* Punches of BioTime made in a window.
MadeIn(low, high) == {k \in Punches : sent[k] # Nothing /\ made[k] \in low .. high}

Set(p, s) == sync' = [sync EXCEPT ![p] = s]

\* Nobody else is in charge.
Begins(p, does, stage) ==
    /\ sync[p].stage = "idle"
    /\ \A q \in Syncs : ~sync[q].owned
    /\ \E low \in Marks :
        /\ does \in RunsOf => low = Nothing
        /\ Set(p, [Unbegun EXCEPT
                !.stage = stage, !.does = does, !.owned = TRUE,
                !.rank = Cardinality({q \in Syncs : sync[q].stage # "idle"}) + 1,
                !.began = clock,
                !.from = IF does \in RunsOf THEN AskFrom(mark.since, clock) ELSE @,
                !.low = low, !.high = IF does \in RunsOf THEN @ ELSE clock])
    /\ UNCHANGED <<clock, made, sent, held, person, moves, mark>>

\* run: the cursor of the latest SUCCESS row says where to ask from.
BeginsRun(p, full) == Begins(p, IF full THEN "full" ELSE "scheduled", "asking")

\* backfillPunches and employeePunchSweep: from any time, up to now (what ends
\* earlier stores less).
BeginsImport(p) ==
    Begins(p, "backfill", "filling") \/ Begins(p, "sweep", "sweeping")

\* listTransactionsUploadedAfter.
ListsUploaded(p) ==
    /\ sync[p].stage = "asking"
    /\ Set(p, [sync[p] EXCEPT
            !.stage = "storing", !.answer = "upload",
            !.rows = {k \in Punches :
                        sent[k] # Nothing /\ sent[k] \in sync[p].from .. sync[p].began}])
    /\ UNCHANGED <<clock, made, sent, held, person, moves, mark>>

\* An error, or more pages than BIOTIME_UPLOAD_SYNC_MAX_PAGES.
UploadedFails(p) ==
    /\ sync[p].stage = "asking"
    /\ Set(p, [sync[p] EXCEPT !.stage = "falling", !.from = Back(clock, Fallback)])
    /\ UNCHANGED <<clock, made, sent, held, person, moves, mark>>

FallsBack(p) ==
    /\ sync[p].stage = "falling"
    /\ Set(p, [sync[p] EXCEPT !.stage = "storing", !.answer = "fallback",
                              !.rows = MadeIn(sync[p].from, sync[p].began)])
    /\ UNCHANGED <<clock, made, sent, held, person, moves, mark>>

\* The failure is logged, and the run goes on without the transactions.
FallbackFails(p) ==
    /\ sync[p].stage = "falling"
    /\ Set(p, [sync[p] EXCEPT !.stage = "storing"])
    /\ UNCHANGED <<clock, made, sent, held, person, moves, mark>>

\* recordMatchedPunch: the row of a punch is written once or again.
Recorded(k) == held \cup {k}

\* upsertTransaction: the row of an unknown employee is dropped.
Stores(p, k) ==
    LET known == person[Owner(k)] # "unknown"
    IN  /\ sync[p].stage \in Writing /\ k \in sync[p].rows
        /\ held' = IF known THEN Recorded(k) ELSE held
        /\ Set(p, [sync[p] EXCEPT
                !.rows = @ \ {k}, !.dropped = IF known THEN @ ELSE @ \cup {k}])
        /\ UNCHANGED <<clock, made, sent, person, moves, mark>>

\* The intervals between two backfills and two sweeps are shorter than a tick:
\* whether they are due is left open, but a full run has both.
Optional(p) == IF sync[p].does = "full" THEN {TRUE} ELSE BOOLEAN

\* A backfill or a sweep of the last days comes next.
Toward(p, stage) ==
    [sync[p] EXCEPT !.stage = stage, !.low = Back(clock, Window), !.high = clock]

Ends(p) == [sync[p] EXCEPT !.stage = "closing"]

\* pullAll after the backfill, or without one.
ThenSweeps(p) == {IF due THEN Toward(p, "sweeping") ELSE Ends(p) : due \in Optional(p)}

RowsStored(p) ==
    /\ sync[p].stage = "storing" /\ sync[p].rows = {}
    /\ \/ Set(p, Toward(p, "filling"))
       \/ FALSE \in Optional(p) /\ \E s \in ThenSweeps(p) : Set(p, s)
    /\ UNCHANGED <<clock, made, sent, held, person, moves, mark>>

\* pullRollingPunchBackfill, and the listing of backfillPunches.
Fills(p) ==
    /\ sync[p].stage = "filling"
    /\ Set(p, [sync[p] EXCEPT !.stage = "filled", !.refill = sync[p].low,
                              !.rows = MadeIn(sync[p].low, sync[p].high)])
    /\ UNCHANGED <<clock, made, sent, held, person, moves, mark>>

FillStored(p) ==
    /\ sync[p].stage = "filled" /\ sync[p].rows = {}
    /\ \E s \in IF sync[p].does = "backfill" THEN {Ends(p)} ELSE ThenSweeps(p) :
        Set(p, s)
    /\ UNCHANGED <<clock, made, sent, held, person, moves, mark>>

\* pullEmployeePunchSweep: the ACTIVE employees, one by one.
SweepReads(p) ==
    /\ sync[p].stage = "sweeping"
    /\ Set(p, [sync[p] EXCEPT !.stage = "swept",
                              !.queue = {e \in Persons : person[e] = "ACTIVE"}])
    /\ UNCHANGED <<clock, made, sent, held, person, moves, mark>>

Sweeps(p, e) ==
    /\ sync[p].stage = "swept" /\ sync[p].rows = {} /\ e \in sync[p].queue
    /\ Set(p, [sync[p] EXCEPT
            !.queue = @ \ {e},
            !.rows = {k \in MadeIn(sync[p].low, sync[p].high) : Owner(k) = e}])
    /\ UNCHANGED <<clock, made, sent, held, person, moves, mark>>

SweepStored(p) ==
    /\ sync[p].stage = "swept" /\ sync[p].rows = {} /\ sync[p].queue = {}
    /\ Set(p, Ends(p))
    /\ UNCHANGED <<clock, made, sent, held, person, moves, mark>>

\* computeCursor: the latest upload among the rows of the table.
NextMark == Max({Nothing} \cup {sent[k] : k \in held})

\* A row that is closed SUCCESS: a run has the cursor in it, an import has
\* none.  lastCursor takes the SUCCESS row that started last.
Succeeds(p) ==
    /\ mark' = IF sync[p].rank < mark.rank THEN mark
               ELSE [rank |-> sync[p].rank,
                     since |-> IF sync[p].does \in RunsOf THEN NextMark ELSE Nothing]
    /\ Set(p, Finished)
    /\ UNCHANGED <<clock, made, sent, held, person, moves>>

Closing(p) == sync[p].stage = "closing" /\ Succeeds(p)

\* A listing of employees, of a backfill or of a sweep, or a write, fails.
Breaks(p) ==
    /\ sync[p].stage \in UnderWay
    /\ Set(p, Finished)
    /\ UNCHANGED <<clock, made, sent, held, person, moves, mark>>

\* Interrupted or timed out: its row is FAILED, and its pull goes on.
IsGivenUp(p) ==
    /\ sync[p].owned
    /\ Set(p, [Unbegun EXCEPT !.stage = "astray", !.does = sync[p].does,
                              !.rank = sync[p].rank])
    /\ UNCHANGED <<clock, made, sent, held, person, moves, mark>>

\* What a pull that was given up stores is left open.
StoresAstray(p, k) ==
    /\ sync[p].stage = "astray"
    /\ sent[k] # Nothing /\ person[Owner(k)] # "unknown"
    /\ held' = Recorded(k)
    /\ UNCHANGED <<clock, made, sent, person, moves, mark, sync>>

\* At its end an import closes its row SUCCESS, whatever it has become; a run
\* looks at its row first, and Breaks stands for the one that leaves it.
ClosesAstray(p) ==
    /\ sync[p].stage = "astray" /\ sync[p].does \in Imports
    /\ Succeeds(p)

\* The process dies.
Dies ==
    /\ \E p \in Syncs : sync[p].stage \in UnderWay
    /\ sync' = [p \in Syncs |-> IF sync[p].stage = "idle" THEN Unbegun ELSE Finished]
    /\ UNCHANGED <<clock, made, sent, held, person, moves, mark>>

PunchNext ==
    \/ TimePasses
    \/ \E k \in Punches : Upload(k)
    \/ \E e \in Persons : PersonChanges(e)
    \/ \E p \in Syncs, full \in BOOLEAN : BeginsRun(p, full)
    \/ \E p \in Syncs : BeginsImport(p)
    \/ \E p \in Syncs : ListsUploaded(p) \/ UploadedFails(p)
    \/ \E p \in Syncs : FallsBack(p) \/ FallbackFails(p)
    \/ \E p \in Syncs, k \in Punches : Stores(p, k)
    \/ \E p \in Syncs : RowsStored(p) \/ Fills(p) \/ FillStored(p)
    \/ \E p \in Syncs, e \in Persons : Sweeps(p, e)
    \/ \E p \in Syncs : SweepReads(p) \/ SweepStored(p)
    \/ \E p \in Syncs : Closing(p) \/ Breaks(p) \/ IsGivenUp(p) \/ ClosesAstray(p)
    \/ \E p \in Syncs, k \in Punches : StoresAstray(p, k)
    \/ Dies

PunchSpec == PunchInit /\ [][PunchNext]_punchVars

-----------------------------------------------------------------------------
\* The next run asks for k.
Reached(k) == sent[k] # Nothing /\ sent[k] >= AskFrom(mark.since, clock)

\* The first listing of p, or its backfill, went back to k.
WentBackTo(p, k) ==
    \/ sync[p].answer = "upload" /\ sent[k] >= sync[p].from
    \/ sync[p].answer = "fallback" /\ made[k] >= sync[p].from
    \/ made[k] >= sync[p].refill

\* p took longer than the overlap: the table has an upload that much later.
IsSlow(p) == NextMark > sync[p].began + Overlap

\* An uploaded punch that is not in the table is beyond the reach of the next
\* run only when the lookback passed, or when the run that closed did not go
\* back to it (its listing failed, the terminal was offline for too long), did
\* not know the employee, or took longer than the overlap (transactionSyncFrom,
\* pullAll, computeCursor).
UploadsAreReached ==
    [][\A k \in Punches :
        Reached(k) =>
            \/ (Reached(k) \/ k \in held)'
            \/ sent[k] < Back(clock', Lookback)
            \/ \E p \in Syncs :
                  /\ Closing(p)
                  /\ ~WentBackTo(p, k) \/ k \in sync[p].dropped \/ IsSlow(p)]_punchVars
=============================================================================
