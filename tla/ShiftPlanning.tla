---------------------------- MODULE ShiftPlanning ----------------------------
(***************************************************************************)
(* ShiftPlanningService (src/apps/api/src/attendance/                      *)
(* shift-planning.service.ts): the rows of employee_shift_assignments, the *)
(* two ways of submitting them, and the approval and the rejection of a    *)
(* submission.                                                             *)
(*                                                                         *)
(* The table is unique on (employee, date, status): a cell (an employee on *)
(* a day) holds at most one APPROVED, one PENDING_APPROVAL and one         *)
(* REJECTED row.  What a row says is who wrote it last: a submission, or a *)
(* direct write of an actor who needs no approval.  An interactive         *)
(* transaction is one step that commits or rolls back; every other         *)
(* database call is a step of its own.                                     *)
(*                                                                         *)
(* The other writer of the table is inheritGroupPlanning (src/apps/api/    *)
(* src/org/org.service.ts): it copies the rows of a group, submission id    *)
(* included, for the employees who join it.  Whether a row was written for  *)
(* a group or for one employee is not kept: any row may be copied.          *)
(***************************************************************************)
EXTENDS Naturals, FiniteSets

CONSTANTS
    Employees,
    Days,
    Assigns,    \* submission ids of calls of assign() that need approval
    Batches,    \* submission ids of calls of batchAssign() that need approval
    Reviewers,  \* approvePlanning / rejectPlanning requests in flight at once
    Movers,     \* calls of inheritGroupPlanning
    Direct,     \* submissionId null: written by Admin, DRH, GRH or HR
    NoRow       \* no row in this status

Cells == Employees \X Days
Submissions == Assigns \cup Batches

ASSUME NamesAssumption ==
    /\ Assigns \cap Batches = {}
    /\ Direct \notin Submissions
    /\ NoRow \notin Submissions
    /\ NoRow # Direct
    /\ NoRow \notin Movers

VARIABLES
    approved,  \* submissionId of the APPROVED row of a cell
    pending,   \* submissionId of its PENDING_APPROVAL row
    pendingId, \* id of that row, named after the request that created it
    rejected,  \* id of its REJECTED row
    refused,   \* submissionId of its REJECTED row
    sent,      \* submissions whose request has started
    todo,      \* cells an assign() has still to upsert
    moved,     \* calls of inheritGroupPlanning that have started
    active,    \* APPROVED rows such a call has still to write, by cell
    waiting,   \* PENDING_APPROVAL rows it has still to write
    split,     \* history: submissions decided when a pending copy was written
    verdict,   \* what a review is about to decide, "none" when idle
    subject,   \* the submission it reads
    read,      \* id of the pending row it read in a cell
    joined     \* history: cells where copies became pending since

table == <<approved, pending, pendingId, rejected, refused>>
moves == <<moved, active, waiting, split>>
requests == <<sent, todo, moves>>
reviews == <<verdict, subject, read, joined>>
vars == <<table, requests, reviews>>

-----------------------------------------------------------------------------
Owners == Submissions \cup {Direct, NoRow}
Ids == Submissions \cup Movers \cup {NoRow}
Pendings == Submissions \cup {NoRow}

\* Cells a review has read a pending row of.
Read(r) == {c \in Cells : read[r][c] # NoRow}

\* Cells where submission s is pending.
PendingOf(s) == {c \in Cells : pending[c] = s}

TypeOK ==
    /\ approved \in [Cells -> Owners]
    /\ pending \in [Cells -> Pendings]
    /\ pendingId \in [Cells -> Ids]
    /\ rejected \in [Cells -> Ids]
    /\ refused \in [Cells -> Pendings]
    /\ sent \in SUBSET Submissions
    /\ todo \in [Assigns -> SUBSET Cells]
    /\ moved \in SUBSET Movers
    /\ active \in [Movers -> [Cells -> Owners]]
    /\ waiting \in [Movers -> [Cells -> Pendings]]
    /\ split \in SUBSET Submissions
    /\ verdict \in [Reviewers -> {"none", "approve", "reject"}]
    /\ subject \in [Reviewers -> Pendings]
    /\ read \in [Reviewers -> [Cells -> Ids]]
    /\ joined \in [Reviewers -> SUBSET Cells]

Init ==
    /\ approved = [c \in Cells |-> NoRow]
    /\ pending = [c \in Cells |-> NoRow]
    /\ pendingId = [c \in Cells |-> NoRow]
    /\ rejected = [c \in Cells |-> NoRow]
    /\ refused = [c \in Cells |-> NoRow]
    /\ sent = {}
    /\ todo = [s \in Assigns |-> {}]
    /\ moved = {}
    /\ active = [m \in Movers |-> [c \in Cells |-> NoRow]]
    /\ waiting = [m \in Movers |-> [c \in Cells |-> NoRow]]
    /\ split = {}
    /\ verdict = [r \in Reviewers |-> "none"]
    /\ subject = [r \in Reviewers |-> NoRow]
    /\ read = [r \in Reviewers |-> [c \in Cells |-> NoRow]]
    /\ joined = [r \in Reviewers |-> {}]

-----------------------------------------------------------------------------
(* Writing the planning                                                    *)

\* Effect on the PENDING_APPROVAL rows: submission s takes over the cells of
\* `write` (an existing row is updated in place and keeps its id), and the
\* cells of `clear` lose their row.
WritePending(s, write, clear) ==
    /\ pending' = [c \in Cells |-> IF c \in write THEN s
                                   ELSE IF c \in clear THEN NoRow
                                   ELSE pending[c]]
    /\ pendingId' = [c \in Cells |->
                        IF c \in write /\ pendingId[c] = NoRow THEN s
                        ELSE IF c \in clear THEN NoRow
                        ELSE pendingId[c]]

\* Effect on the APPROVED rows of a direct write.
WriteApproved(write, clear) ==
    approved' = [c \in Cells |-> IF c \in write THEN Direct
                                ELSE IF c \in clear THEN NoRow
                                ELSE approved[c]]

\* assign() by an actor who needs approval: the employees and the dates are
\* known, and the loop of upserts starts.
Assign(s) ==
    /\ s \in Assigns \ sent
    /\ \E cells \in (SUBSET Cells) \ {{}} : todo' = [todo EXCEPT ![s] = cells]
    /\ sent' = sent \cup {s}
    /\ UNCHANGED <<table, moves, reviews>>

\* One upsert of that loop: no transaction surrounds them.
AssignUpserts(s, c) ==
    /\ c \in todo[s]
    /\ todo' = [todo EXCEPT ![s] = @ \ {c}]
    /\ WritePending(s, {c}, {})
    /\ UNCHANGED <<approved, rejected, refused, sent, moves, reviews>>

\* One upsert of assign() by an actor who needs none: its upserts are
\* independent of each other and of what the cell holds.
AssignDirect(c) ==
    /\ WriteApproved({c}, {})
    /\ UNCHANGED <<pending, pendingId, rejected, refused, requests, reviews>>

\* Mutant of BatchAssign: no transaction, the request writes cell after cell.
MutBatchAssign(s, write, clear) ==
    /\ s \in Batches
    /\ Cardinality(write \cup clear) = 1
    /\ write \cap clear = {}
    /\ sent' = sent \cup {s}
    /\ WritePending(s, write, clear)
    /\ approved' = [c \in Cells |-> IF c \in clear THEN NoRow ELSE approved[c]]
    /\ UNCHANGED <<rejected, refused, todo, moves, reviews>>

\* batchAssign() by an actor who needs approval: one transaction writes its
\* cells and empties the erased ones, in both statuses.
BatchAssign(s, write, clear) ==
    /\ s \in Batches \ sent
    /\ write \cap clear = {}
    /\ write \cup clear # {}
    /\ sent' = sent \cup {s}
    /\ WritePending(s, write, clear)
    /\ approved' = [c \in Cells |-> IF c \in clear THEN NoRow ELSE approved[c]]
    /\ UNCHANGED <<rejected, refused, todo, moves, reviews>>

\* batchAssign() by an actor who needs none.
BatchDirect(write, clear) ==
    /\ write \cap clear = {}
    /\ write \cup clear # {}
    /\ WriteApproved(write, clear)
    /\ WritePending(NoRow, {}, clear)
    /\ UNCHANGED <<rejected, refused, requests, reviews>>

-----------------------------------------------------------------------------
(* Reviewing a submission                                                  *)

\* approvePlanning and rejectPlanning: the findMany outside the transaction.
ReviewReads(r, v, s) ==
    /\ verdict[r] = "none"
    /\ PendingOf(s) # {}
    /\ verdict' = [verdict EXCEPT ![r] = v]
    /\ subject' = [subject EXCEPT ![r] = s]
    /\ read' = [read EXCEPT ![r] =
                  [c \in Cells |-> IF pending[c] = s THEN pendingId[c] ELSE NoRow]]
    /\ joined' = [joined EXCEPT ![r] = {}]
    /\ UNCHANGED <<table, requests>>

\* The request is over: its notification and its answer are sent.
Finish(r) ==
    /\ verdict' = [verdict EXCEPT ![r] = "none"]
    /\ subject' = [subject EXCEPT ![r] = NoRow]
    /\ read' = [read EXCEPT ![r] = [c \in Cells |-> NoRow]]
    /\ joined' = [joined EXCEPT ![r] = {}]

\* The updateMany of either transaction takes every pending row of s.
TakePending(s) ==
    /\ pending' = [c \in Cells |-> IF pending[c] = s THEN NoRow ELSE pending[c]]
    /\ pendingId' = [c \in Cells |-> IF pending[c] = s THEN NoRow ELSE pendingId[c]]

\* The APPROVED rows that outlive the deletions of approvePlanning.
OutliveApproval(r) == {c \in Cells \ Read(r) : approved[c] # NoRow}

\* Mutant of ApproveCommits: the deletion forgets the status, so that it takes
\* the rows it is about to approve with the others.
MutApproveCommits(r) ==
    LET s == subject[r] IN
    /\ verdict[r] = "approve"
    /\ PendingOf(s) \cap OutliveApproval(r) = {}
    /\ approved' = [c \in Cells |->
                      IF c \in Read(r) THEN NoRow
                      ELSE IF pending[c] = s THEN s ELSE approved[c]]
    /\ TakePending(s)
    /\ Finish(r)
    /\ UNCHANGED <<rejected, refused, requests>>

\* The transaction of approvePlanning: delete the APPROVED rows of the cells
\* read, then approve the rows of s still pending, which breaks the unique key
\* where an APPROVED row is left.
ApproveCommits(r) ==
    LET s == subject[r] IN
    /\ verdict[r] = "approve"
    /\ PendingOf(s) \cap OutliveApproval(r) = {}
    /\ approved' = [c \in Cells |->
                      IF pending[c] = s THEN s
                      ELSE IF c \in Read(r) THEN NoRow ELSE approved[c]]
    /\ TakePending(s)
    /\ Finish(r)
    /\ UNCHANGED <<rejected, refused, requests>>

\* The REJECTED rows that outlive the deletions of rejectPlanning: those of
\* other cells, and the very row that was read.
OutliveRejection(r) ==
    {c \in Cells : rejected[c] # NoRow
                     /\ (c \in Read(r) => rejected[c] = read[r][c])}

\* The transaction of rejectPlanning.
RejectCommits(r) ==
    LET s == subject[r] IN
    /\ verdict[r] = "reject"
    /\ PendingOf(s) \cap OutliveRejection(r) = {}
    /\ rejected' = [c \in Cells |->
                      IF pending[c] = s THEN pendingId[c]
                      ELSE IF c \in OutliveRejection(r) THEN rejected[c] ELSE NoRow]
    /\ refused' = [c \in Cells |->
                     IF pending[c] = s THEN s
                     ELSE IF c \in OutliveRejection(r) THEN refused[c] ELSE NoRow]
    /\ TakePending(s)
    /\ Finish(r)
    /\ UNCHANGED <<approved, requests>>

\* The transaction rolls back: in a cell the submission is pending in a row has
\* outlived the deletions, or another request has committed one since, and the
\* update breaks the unique key; or a query fails.
ReviewRollsBack(r) ==
    /\ verdict[r] # "none"
    /\ Finish(r)
    /\ UNCHANGED <<table, requests>>

-----------------------------------------------------------------------------
(* inheritGroupPlanning: employees who join a group take over its planning *)

\* What a column may hold on a day, in the rows of the group.
Templates(column, d) == {column[c] : c \in {b \in Cells : b[2] = d}} \cup {NoRow}

\* The rows of the group are read: one is kept for each day and status, to be
\* written for each employee who joins.
InheritReads(m, who) ==
    /\ m \notin moved /\ who # {}
    /\ moved' = moved \cup {m}
    /\ \E a \in [Days -> Owners], p \in [Days -> Pendings] :
         /\ \E d \in Days : a[d] # NoRow \/ p[d] # NoRow
         /\ \A d \in Days : a[d] \in Templates(approved, d) /\ p[d] \in Templates(pending, d)
         /\ active' = [active EXCEPT ![m] =
                         [c \in Cells |-> IF c[1] \in who THEN a[c[2]] ELSE NoRow]]
         /\ waiting' = [waiting EXCEPT ![m] =
                          [c \in Cells |-> IF c[1] \in who THEN p[c[2]] ELSE NoRow]]
    /\ UNCHANGED <<table, sent, todo, split, reviews>>

\* One upsert of an APPROVED row.
InheritApproved(m, c) ==
    /\ active[m][c] # NoRow
    /\ approved' = [approved EXCEPT ![c] = active[m][c]]
    /\ active' = [active EXCEPT ![m][c] = NoRow]
    /\ UNCHANGED <<pending, pendingId, rejected, refused, sent, todo, moved, waiting,
                   split, reviews>>

\* One upsert of a PENDING_APPROVAL row.
InheritPending(m, c) ==
    LET s == waiting[m][c] IN
    /\ s # NoRow
    /\ pending' = [pending EXCEPT ![c] = s]
    /\ pendingId' = [pendingId EXCEPT ![c] = IF @ = NoRow THEN m ELSE @]
    /\ waiting' = [waiting EXCEPT ![m][c] = NoRow]
    /\ split' = IF PendingOf(s) = {} THEN split \cup {s} ELSE split
    /\ joined' = [r \in Reviewers |-> joined[r] \cup {c}]
    /\ UNCHANGED <<approved, rejected, refused, sent, todo, moved, active,
                   verdict, subject, read>>

-----------------------------------------------------------------------------
Next ==
    \/ \E s \in Assigns : Assign(s)
    \/ \E s \in Assigns, c \in Cells : AssignUpserts(s, c)
    \/ \E c \in Cells : AssignDirect(c)
    \/ \E s \in Batches, write, clear \in SUBSET Cells : BatchAssign(s, write, clear)
    \/ \E write, clear \in SUBSET Cells : BatchDirect(write, clear)
    \/ \E r \in Reviewers, v \in {"approve", "reject"}, s \in Submissions :
            ReviewReads(r, v, s)
    \/ \E r \in Reviewers : ApproveCommits(r)
    \/ \E r \in Reviewers : RejectCommits(r)
    \/ \E r \in Reviewers : ReviewRollsBack(r)
    \/ \E m \in Movers, who \in SUBSET Employees : InheritReads(m, who)
    \/ \E m \in Movers, c \in Cells : InheritApproved(m, c)
    \/ \E m \in Movers, c \in Cells : InheritPending(m, c)

Spec == Init /\ [][Next]_vars

-----------------------------------------------------------------------------
(* Properties                                                              *)

\* A batch is decided as a whole: its rows are all waiting, all active or all
\* refused, whatever reviews, erasures and other submissions interleave.
\* batchAssign writes them in one transaction, and approvePlanning and
\* rejectPlanning decide by the submission id, not by the rows they read. Copies an
\* employee inherits are rows of it too, and split it only when they are written as
\* pending after its review (inheritGroupPlanning).
BatchIsWhole ==
    \A s \in Batches \ split, c, d \in Cells :
        /\ pending[c] = s => approved[d] # s /\ refused[d] # s
        /\ approved[c] = s => refused[d] # s

\* The approval of a batch breaks the unique key only over rows inherited since its
\* reading: any other row still pending when the transaction runs is one the review
\* has read, so that the deletions have made room for it (approvePlanning).
BatchApprovalFits ==
    \A r \in Reviewers :
        subject[r] \in Batches => PendingOf(subject[r]) \subseteq Read(r) \cup joined[r]

\* A batch holds together: before, during and after its review.
BatchHolds == BatchIsWhole /\ BatchApprovalFits

\* A cell is emptied by a step that is no review: "Effacer".
Erased(c) == pending'[c] = NoRow /\ UNCHANGED reviews

\* A review is about to approve a row it read in cell c and that has since
\* been decided, erased or taken over.
StaleOn(r, c) ==
    /\ verdict[r] = "approve"
    /\ c \in Read(r)
    /\ pending[c] # subject[r]

\* An active day is lost only when it is erased, or when an approval commits
\* on what it read before someone else dealt with that day (approvePlanning
\* deletes the APPROVED row of every cell it read).
DayIsNotLost ==
    [][\A c \in Cells :
         approved[c] # NoRow /\ approved'[c] = NoRow
           => Erased(c) \/ \E r \in Reviewers : StaleOn(r, c)]_vars
=============================================================================
