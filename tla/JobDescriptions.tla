--------------------------- MODULE JobDescriptions ---------------------------
(***************************************************************************)
(* JobDescriptionsService (src/apps/api/src/job-descriptions/              *)
(* job-descriptions.service.ts): one job description, its versions, the    *)
(* approvals of each version and the requests that edit, submit, review,   *)
(* revise and archive it.                                                  *)
(*                                                                         *)
(* Every request reads what it decides on, with the included rows in one   *)
(* read, and then writes it in one transaction (updateDescriptionDraft: in *)
(* one update), without looking again.  A version is named by its number   *)
(* <<major, minor>>, which is unique in a description.                     *)
(***************************************************************************)
EXTENDS Naturals

CONSTANTS
    Versions,  \* numbers a version may take (bound on the revisions)
    N,         \* number of steps of the circuit, in the order of stepOrder
    Texts,     \* contents a request writes
    Blank,     \* content of the template
    Handlers   \* requests in flight at once

First == <<1, 0>>

ASSUME CircuitAssumption ==
    /\ Versions \subseteq (Nat \X Nat)
    /\ First \in Versions
    /\ N \in Nat \ {0}

VARIABLES
    fiche,     \* status of the description, "ABSENT" before it is created
    current,   \* currentVersionId
    version,   \* status of each version
    text,      \* content of each version
    approval,  \* status of its approvals, step by step
    round,     \* identifies these rows: a submission makes new ones
    call,      \* what a request is about to write, "idle" when there is none
    on,        \* the version it has read
    step,      \* the step of the circuit it reviews
    ident,     \* the round of the approval it has read
    copy       \* the content it is about to write

table == <<fiche, current, version, text, approval, round>>
requests == <<call, on, step, ident, copy>>
vars == <<table, requests>>

-----------------------------------------------------------------------------
Steps == 1..N
Contents == Texts \cup {Blank}
Status == {"DRAFT", "PENDING_APPROVAL", "VALIDATED", "REJECTED", "ARCHIVED"}
Verdicts == {"approve", "validate", "reject"}
Bumps == {"major", "minor"}
Calls == Verdicts \cup Bumps \cup {"idle", "edit", "submit", "discard", "archive"}

TypeOK ==
    /\ fiche \in Status \cup {"ABSENT"}
    /\ current \in Versions
    /\ version \in [Versions -> Status \cup {"ABSENT"}]
    /\ text \in [Versions -> Contents]
    /\ approval \in [Versions -> [Steps ->
                        {"NONE", "PENDING", "APPROVED", "REJECTED", "CANCELLED"}]]
    /\ round \in [Versions -> Nat]
    /\ call \in [Handlers -> Calls]
    /\ on \in [Handlers -> Versions]
    /\ step \in [Handlers -> Steps]
    /\ ident \in [Handlers -> Nat]
    /\ copy \in [Handlers -> Contents]

Init ==
    /\ fiche = "ABSENT"
    /\ current = First
    /\ version = [v \in Versions |-> "ABSENT"]
    /\ text = [v \in Versions |-> Blank]
    /\ approval = [v \in Versions |-> [k \in Steps |-> "NONE"]]
    /\ round = [v \in Versions |-> 0]
    /\ call = [h \in Handlers |-> "idle"]
    /\ on = [h \in Handlers |-> First]
    /\ step = [h \in Handlers |-> 1]
    /\ ident = [h \in Handlers |-> 0]
    /\ copy = [h \in Handlers |-> Blank]

-----------------------------------------------------------------------------
(* Requests                                                                *)

\* A request has read version v, its content t and, for a review, the
\* approval of step k in its round i.
Reads(h, c, v, k, i, t) ==
    /\ call[h] = "idle"
    /\ call' = [call EXCEPT ![h] = c]
    /\ on' = [on EXCEPT ![h] = v]
    /\ step' = [step EXCEPT ![h] = k]
    /\ ident' = [ident EXCEPT ![h] = i]
    /\ copy' = [copy EXCEPT ![h] = t]
    /\ UNCHANGED table

Finish(h) ==
    /\ call' = [call EXCEPT ![h] = "idle"]
    /\ on' = [on EXCEPT ![h] = First]
    /\ step' = [step EXCEPT ![h] = 1]
    /\ ident' = [ident EXCEPT ![h] = 0]
    /\ copy' = [copy EXCEPT ![h] = Blank]

\* A query of the request fails, or its transaction is rolled back: the
\* approval it updates is gone, the number of its version is taken.
RollsBack(h) ==
    /\ call[h] # "idle"
    /\ Finish(h)
    /\ UNCHANGED table

\* createDescription: one transaction; the content is the template's.
CreateDescription ==
    /\ fiche = "ABSENT"
    /\ fiche' = "DRAFT"
    /\ version' = [version EXCEPT ![First] = "DRAFT"]
    /\ UNCHANGED <<current, text, approval, round, requests>>

-----------------------------------------------------------------------------
(* Drafts                                                                  *)

\* Mutant of IsDraft: the status of the version is not looked at.
MutIsDraft(v) == version[v] # "ABSENT"

\* currentVersion.status === DRAFT, in updateDescriptionDraft and submit.
IsDraft(v) == version[v] = "DRAFT"

EditReads(h, t) ==
    /\ IsDraft(current)
    /\ Reads(h, "edit", current, 1, 0, t)

\* The update of the version by its id, whatever it has become.
EditWrites(h) ==
    /\ call[h] = "edit"
    /\ text' = [text EXCEPT ![on[h]] = copy[h]]
    /\ Finish(h)
    /\ UNCHANGED <<fiche, current, version, approval, round>>

SubmitReads(h) ==
    /\ IsDraft(current)
    /\ Reads(h, "submit", current, 1, 0, Blank)

\* deleteMany and createMany of the approvals of v.
NewRound(v) ==
    /\ approval' = [approval EXCEPT ![v] = [k \in Steps |-> "PENDING"]]
    /\ round' = [round EXCEPT ![v] = @ + 1]

SubmitCommits(h) ==
    /\ call[h] = "submit"
    /\ NewRound(on[h])
    /\ version' = [version EXCEPT ![on[h]] = "PENDING_APPROVAL"]
    /\ fiche' = "PENDING_APPROVAL"
    /\ Finish(h)
    /\ UNCHANGED <<current, text>>

-----------------------------------------------------------------------------
(* Reviews                                                                 *)

Pending(v, k) == approval[v][k] = "PENDING"

\* Mutant of IsTurn: the previous steps are not looked at.
MutIsTurn(v, k) ==
    /\ version[v] = "PENDING_APPROVAL"
    /\ Pending(v, k)

\* assertReviewAllowed: the version is in review, and step k is the first one
\* still pending (isCurrentApproval).
IsTurn(v, k) ==
    /\ version[v] = "PENDING_APPROVAL"
    /\ Pending(v, k)
    /\ \A j \in 1..(k - 1) : ~Pending(v, j)

\* approveDescription finds no next step pending.
IsLast(v, k) == \A j \in (k + 1)..N : ~Pending(v, j)

\* loadApproval, for an approval and for a rejection: any version may be
\* reviewed, whether it is the current one or not.
ApproveReads(h, v, k) ==
    /\ IsTurn(v, k)
    /\ Reads(h, IF IsLast(v, k) THEN "validate" ELSE "approve", v, k, round[v], Blank)

RejectReads(h, v, k) ==
    /\ IsTurn(v, k)
    /\ Reads(h, "reject", v, k, round[v], Blank)

\* The approval that was read is still there.
Found(h) == ident[h] = round[on[h]]

ApproveCommits(h) ==
    /\ call[h] = "approve"
    /\ Found(h)
    /\ approval' = [approval EXCEPT ![on[h]][step[h]] = "APPROVED"]
    /\ Finish(h)
    /\ UNCHANGED <<fiche, current, version, text, round>>

ValidateCommits(h) ==
    /\ call[h] = "validate"
    /\ Found(h)
    /\ approval' = [approval EXCEPT ![on[h]][step[h]] = "APPROVED"]
    /\ version' = [version EXCEPT ![on[h]] = "VALIDATED"]
    /\ fiche' = "VALIDATED"
    /\ Finish(h)
    /\ UNCHANGED <<current, text, round>>

\* The approvals of v once its step k is refused.
Refused(v, k) ==
    [j \in Steps |-> IF j = k THEN "REJECTED"
                     ELSE IF Pending(v, j) THEN "CANCELLED" ELSE approval[v][j]]

RejectCommits(h) ==
    /\ call[h] = "reject"
    /\ Found(h)
    /\ approval' = [approval EXCEPT ![on[h]] = Refused(on[h], step[h])]
    /\ version' = [version EXCEPT ![on[h]] = "REJECTED"]
    /\ fiche' = "REJECTED"
    /\ Finish(h)
    /\ UNCHANGED <<current, text, round>>

-----------------------------------------------------------------------------
(* Revisions and archives                                                  *)

\* The number of the revision of v.
Bumped(v, bump) ==
    IF bump = "major" THEN <<v[1] + 1, 0>> ELSE <<v[1], v[2] + 1>>

\* Mutant of IsValidated: a version out of draft may be revised.
MutIsValidated(v) == version[v] \in {"VALIDATED", "PENDING_APPROVAL"}

\* current.status === VALIDATED, in reviseDescription.
IsValidated(v) == version[v] = "VALIDATED"

ReviseReads(h, bump) ==
    /\ IsValidated(current)
    /\ Bumped(current, bump) \in Versions
    /\ Reads(h, bump, current, 1, 0, text[current])

ReviseCommits(h) ==
    LET new == Bumped(on[h], call[h]) IN
    /\ call[h] \in Bumps
    /\ version[new] = "ABSENT"
    /\ version' = [version EXCEPT ![new] = "DRAFT"]
    /\ text' = [text EXCEPT ![new] = copy[h]]
    /\ current' = new
    /\ fiche' = "DRAFT"
    /\ Finish(h)
    /\ UNCHANGED <<approval, round>>

\* archiveDescription: a draft goes with the description.
ArchiveReads(h) ==
    /\ fiche \notin {"ABSENT", "ARCHIVED"}
    /\ Reads(h, IF IsDraft(current) THEN "discard" ELSE "archive", current, 1, 0, Blank)

Discard(v) == version' = [version EXCEPT ![v] = "ARCHIVED"]

ArchiveCommits(h) ==
    /\ \/ call[h] = "discard" /\ Discard(on[h])
       \/ call[h] = "archive" /\ UNCHANGED version
    /\ fiche' = "ARCHIVED"
    /\ Finish(h)
    /\ UNCHANGED <<current, text, approval, round>>

-----------------------------------------------------------------------------
Next ==
    \/ CreateDescription
    \/ \E h \in Handlers, t \in Texts : EditReads(h, t)
    \/ \E h \in Handlers : EditWrites(h)
    \/ \E h \in Handlers : SubmitReads(h)
    \/ \E h \in Handlers : SubmitCommits(h)
    \/ \E h \in Handlers, v \in Versions, k \in Steps : ApproveReads(h, v, k)
    \/ \E h \in Handlers, v \in Versions, k \in Steps : RejectReads(h, v, k)
    \/ \E h \in Handlers : ApproveCommits(h)
    \/ \E h \in Handlers : ValidateCommits(h)
    \/ \E h \in Handlers : RejectCommits(h)
    \/ \E h \in Handlers, bump \in Bumps : ReviseReads(h, bump)
    \/ \E h \in Handlers : ReviseCommits(h)
    \/ \E h \in Handlers : ArchiveReads(h)
    \/ \E h \in Handlers : ArchiveCommits(h)
    \/ \E h \in Handlers : RollsBack(h)

Spec == Init /\ [][Next]_vars

-----------------------------------------------------------------------------
(* Properties                                                              *)

\* While a version is in review its steps are approved in order and none is
\* refused, whatever late verdicts and submissions land on it
\* (assertReviewAllowed looks before the transaction only).
InReviewIsOrdered ==
    \A v \in Versions, k \in Steps :
        version[v] = "PENDING_APPROVAL" =>
            /\ approval[v][k] \in {"PENDING", "APPROVED"}
            /\ approval[v][k] = "APPROVED" =>
                  \A j \in 1..(k - 1) : approval[v][j] = "APPROVED"

\* A version in review always has a step somebody can decide: no sequence of
\* concurrent approvals leaves it waiting for nobody (approveDescription
\* validates it when the list it read has no next step).
SomeoneIsNext ==
    \A v \in Versions :
        version[v] = "PENDING_APPROVAL" => \E k \in Steps : IsTurn(v, k)

\* A version is validated only when every step of its circuit was decided by
\* a reviewer, and the last one approved it: the steps that a refusal cancels
\* never end up under a validated version (approveDescription,
\* rejectDescription).
ValidatedIsReviewed ==
    \A v \in Versions, k \in Steps :
        version[v] = "VALIDATED" =>
            /\ approval[v][k] \in {"APPROVED", "REJECTED"}
            /\ k = N => approval[v][k] = "APPROVED"

\* A review goes step by step, always has a next one, and ends on the last:
\* however its requests interleave, no step is jumped and none is left behind.
ReviewIsSound == InReviewIsOrdered /\ SomeoneIsNext /\ ValidatedIsReviewed

\* What a request read no longer allows what it is about to write.
Overtaken(h) ==
    LET v == on[h]
        k == step[h]
    IN \/ call[h] \in {"edit", "submit", "discard"} /\ ~(v = current /\ IsDraft(v))
       \/ call[h] \in Verdicts /\ ~IsTurn(v, k)
       \/ call[h] = "approve" /\ IsLast(v, k)
       \/ call[h] = "validate" /\ ~IsLast(v, k)
       \/ call[h] \in Bumps
            /\ ~(v = current /\ IsValidated(v) /\ text[v] = copy[h])

\* A step of a request that was overtaken.
LateStep == \E h \in Handlers : Overtaken(h) /\ call'[h] = "idle"

\* Steps of the circuit that version v has passed.
Passed(v) == {k \in Steps : approval[v][k] = "APPROVED"}

Circuit == INSTANCE DocumentCircuit WITH
    status <- version, content <- text, passed <- [v \in Versions |-> Passed(v)]

\* Every step implements a step of the circuit or leaves it alone, unless it
\* is the late step of a request that another one has overtaken.
CircuitUnlessLate ==
    /\ Circuit!Init
    /\ [][Circuit!Next \/ UNCHANGED Circuit!circuit \/ LateStep]_vars

\* The description shows the status of its current version, which is the only
\* one that may be in review; an archived description shows that it is.
Agree ==
    /\ fiche \in {version[current], "ARCHIVED"}
    /\ \A v \in Versions : version[v] = "PENDING_APPROVAL" => v = current

\* The description and its versions, which every handler updates separately,
\* come apart only by the late step of an overtaken request.
AgreementLasts == [][Agree => Agree' \/ LateStep]_vars

\* "Une étape précédente doit être validée d'abord.": a validated version has
\* all its steps approved.
ValidatedIsApproved ==
    \A v \in Versions : version[v] = "VALIDATED" => Passed(v) = Steps
=============================================================================
