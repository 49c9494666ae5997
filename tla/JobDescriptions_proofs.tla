------------------------ MODULE JobDescriptions_proofs ------------------------
(***************************************************************************)
(* Proofs about JobDescriptions, for any numbering of the versions, any    *)
(* length of the circuit and any number of requests at once, about         *)
(* DocumentArchive, for any number of generations and prints, and about    *)
(* ResignationDecisions, for any number of demands at once.                *)
(***************************************************************************)
EXTENDS JobDescriptions, DocumentArchive, ResignationDecisions, TLAPS

\* Before the description is created there is nothing to read.
NothingYet ==
    fiche = "ABSENT" =>
        /\ current = First
        /\ \A v \in Versions : version[v] = "ABSENT"
        /\ \A h \in Handlers : call[h] = "idle"

\* What a request knows of the table when it commits.
Knows(h) ==
    /\ call[h] \in Bumps => Bumped(on[h], call[h]) \in Versions
    /\ call[h] = "approve" => step[h] # N
    /\ call[h] = "validate" => step[h] = N
    /\ ident[h] <= round[on[h]]
    /\ call[h] \in Verdicts /\ Found(h) =>
          \A j \in 1..(step[h] - 1) : approval[on[h]][j] \in {"APPROVED", "REJECTED"}

IInv ==
    /\ TypeOK
    /\ NothingYet
    /\ \A h \in Handlers : Knows(h)
    /\ InReviewIsOrdered
    /\ SomeoneIsNext
    /\ ValidatedIsReviewed

\* The invariant holds of a description that does not exist yet.
LEMMA IInvInit == Init => IInv
<1> USE CircuitAssumption
<1> SUFFICES ASSUME Init PROVE IInv
    OBVIOUS
<1>1. TypeOK
    BY DEF Init, TypeOK, Status, Steps, Contents, Calls
<1>2. NothingYet /\ InReviewIsOrdered /\ SomeoneIsNext /\ ValidatedIsReviewed
    BY DEF Init, NothingYet, InReviewIsOrdered, SomeoneIsNext, ValidatedIsReviewed
<1>3. \A h \in Handlers : Knows(h)
    BY DEF Init, Knows, Found, Bumps, Verdicts
<1> QED
    BY <1>1, <1>2, <1>3 DEF IInv

-----------------------------------------------------------------------------
(* Type correctness                                                        *)

\* The local state of the requests is well typed.
RequestsTyped ==
    /\ call \in [Handlers -> Calls]
    /\ on \in [Handlers -> Versions]
    /\ step \in [Handlers -> Steps]
    /\ ident \in [Handlers -> Nat]
    /\ copy \in [Handlers -> Contents]

\* The end of a request keeps it so.
LEMMA FinishTyped ==
    ASSUME TypeOK, NEW h \in Handlers, Finish(h)
    PROVE  RequestsTyped'
BY CircuitAssumption DEF TypeOK, Finish, RequestsTyped, Calls, Steps, Contents

\* So does the start of one.
LEMMA ReadsTyped ==
    ASSUME TypeOK, NEW h \in Handlers, NEW c \in Calls, NEW v \in Versions,
           NEW k \in Steps, NEW i \in Nat, NEW t \in Contents, Reads(h, c, v, k, i, t)
    PROVE  TypeOK'
<1>1. RequestsTyped'
    BY DEF TypeOK, Reads, RequestsTyped
<1> QED
    BY <1>1 DEF TypeOK, Reads, RequestsTyped, table

\* Every step keeps the types.
LEMMA TypeStep == IInv /\ [Next]_vars => TypeOK'
<1> USE CircuitAssumption
<1> SUFFICES ASSUME IInv, [Next]_vars PROVE TypeOK'
    OBVIOUS
<1>0. TypeOK
    BY DEF IInv
<1> USE DEF TypeOK, Status, Steps, Contents, Calls, Verdicts, Bumps
<1>1. CASE CreateDescription
    BY <1>0, <1>1 DEF CreateDescription, requests
<1>2. ASSUME NEW h \in Handlers, NEW t \in Texts, EditReads(h, t) PROVE TypeOK'
    BY <1>0, <1>2 DEF EditReads, Reads, table
<1>3. ASSUME NEW h \in Handlers, EditWrites(h) PROVE TypeOK'
    BY <1>0, <1>3, FinishTyped DEF EditWrites, RequestsTyped
<1>4. ASSUME NEW h \in Handlers, SubmitReads(h) PROVE TypeOK'
    BY <1>0, <1>4 DEF SubmitReads, Reads, table
<1>5. ASSUME NEW h \in Handlers, SubmitCommits(h) PROVE TypeOK'
  <2>1. RequestsTyped'
    BY <1>0, <1>5, FinishTyped DEF SubmitCommits
  <2>2. on[h] \in Versions
    BY <1>0
  <2>3. approval' = [approval EXCEPT ![on[h]] = [k \in Steps |-> "PENDING"]]
    BY <1>5 DEF SubmitCommits, NewRound
  <2>4. approval' \in [Versions -> [Steps ->
                         {"NONE", "PENDING", "APPROVED", "REJECTED", "CANCELLED"}]]
    BY <1>0, <2>2, <2>3
  <2>5. round' \in [Versions -> Nat] /\ version' \in [Versions -> Status \cup {"ABSENT"}]
    BY <1>0, <1>5, <2>2 DEF SubmitCommits, NewRound
  <2>6. fiche' \in Status /\ UNCHANGED <<current, text>>
    BY <1>5 DEF SubmitCommits
  <2> QED
    BY <1>0, <2>1, <2>4, <2>5, <2>6 DEF RequestsTyped
<1>6. ASSUME NEW h \in Handlers, NEW v \in Versions, NEW k \in Steps,
             ApproveReads(h, v, k) \/ RejectReads(h, v, k)
      PROVE  TypeOK'
  <2>1. round[v] \in Nat /\ Blank \in Contents
    BY <1>0
  <2>2. CASE ApproveReads(h, v, k)
    <3>1. PICK c \in {"validate", "approve"} : Reads(h, c, v, k, round[v], Blank)
      BY <2>2 DEF ApproveReads
    <3>2. c \in Calls
      BY <3>1
    <3> HIDE DEF TypeOK, Calls, Steps, Contents
    <3> QED
      BY <1>0, <2>1, <3>1, <3>2, ReadsTyped
  <2>3. CASE RejectReads(h, v, k)
    <3>1. "reject" \in Calls
      OBVIOUS
    <3>2. Reads(h, "reject", v, k, round[v], Blank)
      BY <2>3 DEF RejectReads
    <3> HIDE DEF TypeOK, Calls, Steps, Contents
    <3> QED
      BY <1>0, <2>1, <3>1, <3>2, ReadsTyped
  <2> QED
    BY <1>6, <2>2, <2>3
<1>7. ASSUME NEW h \in Handlers, ApproveCommits(h) PROVE TypeOK'
    BY <1>0, <1>7, FinishTyped DEF ApproveCommits, RequestsTyped
<1>8. ASSUME NEW h \in Handlers, ValidateCommits(h) PROVE TypeOK'
    BY <1>0, <1>8, FinishTyped DEF ValidateCommits, RequestsTyped
<1>9. ASSUME NEW h \in Handlers, RejectCommits(h) PROVE TypeOK'
    BY <1>0, <1>9, FinishTyped DEF RejectCommits, Refused, Pending, RequestsTyped
<1>10. ASSUME NEW h \in Handlers, NEW bump \in Bumps, ReviseReads(h, bump) PROVE TypeOK'
  <2>1. /\ bump \in Calls
        /\ current \in Versions
        /\ 1 \in Steps
        /\ 0 \in Nat
        /\ text[current] \in Contents
    BY <1>0
  <2>2. Reads(h, bump, current, 1, 0, text[current])
    BY <1>10 DEF ReviseReads
  <2> HIDE DEF TypeOK, Calls, Steps, Contents
  <2> QED
    BY <1>0, <2>1, <2>2, ReadsTyped
<1>11. ASSUME NEW h \in Handlers, ReviseCommits(h) PROVE TypeOK'
  <2>1. Bumped(on[h], call[h]) \in Versions
    BY <1>11 DEF IInv, Knows, ReviseCommits
  <2> QED
    BY <1>0, <1>11, <2>1, FinishTyped DEF ReviseCommits, RequestsTyped
<1>12. ASSUME NEW h \in Handlers, ArchiveReads(h) PROVE TypeOK'
    BY <1>0, <1>12 DEF ArchiveReads, Reads, table
<1>13. ASSUME NEW h \in Handlers, ArchiveCommits(h) PROVE TypeOK'
    BY <1>0, <1>13, FinishTyped DEF ArchiveCommits, Discard, RequestsTyped
<1>14. ASSUME NEW h \in Handlers, RollsBack(h) PROVE TypeOK'
    BY <1>0, <1>14, FinishTyped DEF RollsBack, RequestsTyped, table
<1>15. CASE UNCHANGED vars
    BY <1>0, <1>15 DEF vars, table, requests
<1> QED
    BY <1>1, <1>2, <1>3, <1>4, <1>5, <1>6, <1>7, <1>8, <1>9, <1>10, <1>11, <1>12,
       <1>13, <1>14, <1>15 DEF Next

-----------------------------------------------------------------------------
(* The circuit                                                             *)

\* A step that leaves the approvals alone and starts no review.
NoReview ==
    /\ UNCHANGED approval
    /\ \A v \in Versions : version'[v] \in {version[v], "DRAFT", "ARCHIVED"}

\* The steps that do, and the other ones.
LEMMA ReviewOrNot ==
    ASSUME IInv, [Next]_vars
    PROVE  \/ NoReview
           \/ \E h \in Handlers : SubmitCommits(h) \/ ApproveCommits(h)
                                  \/ ValidateCommits(h) \/ RejectCommits(h)
<1>0. TypeOK
    BY DEF IInv
<1> USE DEF NoReview
<1>1. CASE CreateDescription
    BY <1>0, <1>1 DEF CreateDescription, TypeOK
<1>2. ASSUME NEW h \in Handlers, EditWrites(h) PROVE NoReview
    BY <1>2 DEF EditWrites
<1>3. ASSUME NEW h \in Handlers, ReviseCommits(h) PROVE NoReview
    BY <1>0, <1>3 DEF ReviseCommits, TypeOK
<1>4. ASSUME NEW h \in Handlers, ArchiveCommits(h) PROVE NoReview
    BY <1>0, <1>4 DEF ArchiveCommits, Discard, TypeOK
<1>5. CASE UNCHANGED table
    BY <1>5 DEF table
<1>6. ASSUME NEW h \in Handlers,
             \/ \E t \in Texts : EditReads(h, t)
             \/ SubmitReads(h)
             \/ \E v \in Versions, k \in Steps :
                    ApproveReads(h, v, k) \/ RejectReads(h, v, k)
             \/ \E bump \in Bumps : ReviseReads(h, bump)
             \/ ArchiveReads(h)
             \/ RollsBack(h)
      PROVE  UNCHANGED table
    BY <1>6 DEF EditReads, SubmitReads, ApproveReads, RejectReads, ReviseReads,
                ArchiveReads, RollsBack, Reads
<1>7. CASE UNCHANGED vars
    BY <1>5, <1>7 DEF vars
<1> QED
    BY <1>1, <1>2, <1>3, <1>4, <1>5, <1>6, <1>7 DEF Next

\* In review: the steps before the turn are approved, the others pending.
LEMMA AtTurn ==
    ASSUME TypeOK, InReviewIsOrdered, NEW v \in Versions, NEW t \in Steps, IsTurn(v, t)
    PROVE  /\ \A j \in 1..(t - 1) : approval[v][j] = "APPROVED"
           /\ \A j \in t..N : approval[v][j] = "PENDING"
BY CircuitAssumption DEF InReviewIsOrdered, IsTurn, Pending, Steps

\* A reviewer who still finds his approval in a version in review is not
\* ahead of the turn.
LEMMA NotAhead ==
    ASSUME IInv, NEW h \in Handlers, call[h] \in Verdicts, Found(h),
           version[on[h]] = "PENDING_APPROVAL", NEW t \in Steps, IsTurn(on[h], t)
    PROVE  step[h] <= t
<1>1. on[h] \in Versions /\ step[h] \in Steps
    BY DEF IInv, TypeOK
<1>2. \A j \in 1..(step[h] - 1) : approval[on[h]][j] # "PENDING"
    BY DEF IInv, Knows
<1> QED
    BY <1>1, <1>2, CircuitAssumption DEF IsTurn, Pending, Steps

\* approval' after the approval of one step.
LEMMA OneApproved ==
    ASSUME TypeOK, NEW u \in Versions, NEW s \in Steps,
           approval' = [approval EXCEPT ![u][s] = "APPROVED"]
    PROVE  \A v \in Versions, k \in Steps :
               approval'[v][k] = IF v = u /\ k = s THEN "APPROVED" ELSE approval[v][k]
BY DEF TypeOK

\* approval' after a refusal.
LEMMA OneRefused ==
    ASSUME TypeOK, NEW u \in Versions, NEW s \in Steps,
           approval' = [approval EXCEPT ![u] = Refused(u, s)]
    PROVE  \A v \in Versions, k \in Steps :
               approval'[v][k] = IF v # u THEN approval[v][k]
                                 ELSE IF k = s THEN "REJECTED"
                                 ELSE IF approval[u][k] = "PENDING" THEN "CANCELLED"
                                 ELSE approval[u][k]
BY DEF TypeOK, Refused, Pending

\* approval' after a submission.
LEMMA AllPending ==
    ASSUME TypeOK, NEW u \in Versions, NewRound(u)
    PROVE  /\ \A v \in Versions, k \in Steps :
                  approval'[v][k] = IF v = u THEN "PENDING" ELSE approval[v][k]
           /\ \A v \in Versions : round'[v] = IF v = u THEN round[v] + 1 ELSE round[v]
<1>1. approval' = [approval EXCEPT ![u] = [k \in Steps |-> "PENDING"]]
    BY DEF NewRound
<1>2. round' = [round EXCEPT ![u] = @ + 1]
    BY DEF NewRound
<1> QED
    BY <1>1, <1>2 DEF TypeOK

\* An approval, of the request that makes it.
LEMMA ApprovedBy ==
    ASSUME TypeOK, NEW h \in Handlers, NEW u \in Versions, NEW s \in Steps,
           u = on[h], s = step[h], ApproveCommits(h) \/ ValidateCommits(h)
    PROVE  \A v \in Versions, k \in Steps :
               approval'[v][k] = IF v = u /\ k = s THEN "APPROVED" ELSE approval[v][k]
<1>1. approval' = [approval EXCEPT ![u][s] = "APPROVED"]
    BY DEF ApproveCommits, ValidateCommits
<1> QED
    BY <1>1, OneApproved

\* A refusal, of the request that makes it.
LEMMA RefusedBy ==
    ASSUME TypeOK, NEW h \in Handlers, NEW u \in Versions, NEW s \in Steps,
           u = on[h], s = step[h], RejectCommits(h)
    PROVE  \A v \in Versions, k \in Steps :
               approval'[v][k] = IF v # u THEN approval[v][k]
                                 ELSE IF k = s THEN "REJECTED"
                                 ELSE IF approval[u][k] = "PENDING" THEN "CANCELLED"
                                 ELSE approval[u][k]
<1>1. approval' = [approval EXCEPT ![u] = Refused(u, s)]
    BY DEF RejectCommits
<1> QED
    BY <1>1, OneRefused

\* A submission, of the request that makes it.
LEMMA SubmittedBy ==
    ASSUME TypeOK, NEW h \in Handlers, NEW u \in Versions, u = on[h], SubmitCommits(h)
    PROVE  /\ \A v \in Versions, k \in Steps :
                  approval'[v][k] = IF v = u THEN "PENDING" ELSE approval[v][k]
           /\ \A v \in Versions : round'[v] = IF v = u THEN round[v] + 1 ELSE round[v]
<1>1. NewRound(u)
    BY DEF SubmitCommits
<1> QED
    BY <1>1, AllPending

\* The invariants of the circuit hold after every step.
LEMMA CircuitStep ==
    ASSUME IInv, [Next]_vars
    PROVE  InReviewIsOrdered' /\ SomeoneIsNext' /\ ValidatedIsReviewed'
<1> USE CircuitAssumption
<1>0. TypeOK /\ TypeOK' /\ InReviewIsOrdered /\ SomeoneIsNext /\ ValidatedIsReviewed
    BY TypeStep DEF IInv
<1>1. CASE NoReview
    BY <1>0, <1>1 DEF NoReview, InReviewIsOrdered, SomeoneIsNext, ValidatedIsReviewed,
                      IsTurn, Pending
<1>2. ASSUME NEW h \in Handlers, SubmitCommits(h)
      PROVE  InReviewIsOrdered' /\ SomeoneIsNext' /\ ValidatedIsReviewed'
  <2>1. PICK u \in Versions : u = on[h]
    BY <1>0 DEF TypeOK
  <2>2. \A v \in Versions, k \in Steps :
            approval'[v][k] = IF v = u THEN "PENDING" ELSE approval[v][k]
    BY <1>0, <1>2, <2>1, SubmittedBy
  <2>3. \A v \in Versions :
            version'[v] = IF v = u THEN "PENDING_APPROVAL" ELSE version[v]
    BY <1>0, <1>2, <2>1 DEF SubmitCommits, TypeOK
  <2>4. IsTurn(u, 1)'
    BY <2>1, <2>2, <2>3 DEF IsTurn, Pending, Steps
  <2> QED
    BY <1>0, <2>1, <2>2, <2>3, <2>4
       DEF InReviewIsOrdered, SomeoneIsNext, ValidatedIsReviewed, IsTurn, Pending, Steps
<1>3. ASSUME NEW h \in Handlers, ApproveCommits(h)
      PROVE  InReviewIsOrdered' /\ SomeoneIsNext' /\ ValidatedIsReviewed'
  <2>0. PICK u \in Versions : u = on[h]
    BY <1>0 DEF TypeOK
  <2>1. PICK s \in Steps : s = step[h]
    BY <1>0 DEF TypeOK
  <2>2. \A v \in Versions, k \in Steps :
            approval'[v][k] = IF v = u /\ k = s THEN "APPROVED" ELSE approval[v][k]
    BY <1>0, <1>3, <2>0, <2>1, ApprovedBy
  <2>3. version' = version /\ s # N /\ call[h] \in Verdicts /\ Found(h)
    BY <1>3, <2>1 DEF ApproveCommits, IInv, Knows, Verdicts
  <2>4. ASSUME NEW t \in Steps, IsTurn(u, t)
        PROVE  /\ s <= t
               /\ \A j \in 1..(t - 1) : approval[u][j] = "APPROVED"
               /\ \A j \in t..N : approval[u][j] = "PENDING"
    <3>1. version[on[h]] = "PENDING_APPROVAL" /\ IsTurn(on[h], t)
      BY <2>0, <2>4 DEF IsTurn
    <3>2. s <= t
      BY <2>1, <2>3, <3>1, NotAhead
    <3> QED
      BY <1>0, <2>4, <3>2, AtTurn
  <2>5. InReviewIsOrdered'
    <3>1. ASSUME version[u] = "PENDING_APPROVAL"
          PROVE  \A j \in 1..(s - 1) : approval[u][j] = "APPROVED"
      <4>1. PICK t \in Steps : IsTurn(u, t)
        BY <1>0, <3>1 DEF SomeoneIsNext
      <4> QED
        BY <2>4, <4>1 DEF Steps
    <3> QED
      BY <1>0, <2>2, <2>3, <3>1 DEF InReviewIsOrdered, Steps
  <2>6. SomeoneIsNext'
    <3> SUFFICES ASSUME NEW v \in Versions, version[v] = "PENDING_APPROVAL"
                 PROVE  \E k \in Steps : IsTurn(v, k)'
      BY <2>3 DEF SomeoneIsNext
    <3>1. PICK t \in Steps : IsTurn(v, t)
      BY <1>0 DEF SomeoneIsNext
    <3>2. CASE v = u /\ s = t
      <4>1. s + 1 \in Steps
        BY <2>3 DEF Steps
      <4>2. IsTurn(u, s + 1)'
        BY <2>2, <2>3, <2>4, <3>1, <3>2, <4>1 DEF IsTurn, Pending, Steps
      <4> QED
        BY <3>2, <4>1, <4>2
    <3>3. CASE ~(v = u /\ s = t)
      <4>1. IsTurn(v, t)'
        BY <2>2, <2>3, <2>4, <3>1, <3>3 DEF IsTurn, Pending, Steps
      <4> QED
        BY <4>1
    <3> QED
      BY <3>2, <3>3
  <2>7. ValidatedIsReviewed'
    BY <1>0, <2>2, <2>3 DEF ValidatedIsReviewed
  <2> QED
    BY <2>5, <2>6, <2>7
<1>4. ASSUME NEW h \in Handlers, ValidateCommits(h)
      PROVE  InReviewIsOrdered' /\ SomeoneIsNext' /\ ValidatedIsReviewed'
  <2>1. on[h] \in Versions /\ step[h] \in Steps
    BY <1>0 DEF TypeOK
  <2>2. \A v \in Versions, k \in Steps :
            approval'[v][k] = IF v = on[h] /\ k = step[h] THEN "APPROVED"
                              ELSE approval[v][k]
    BY <1>0, <1>4, <2>1, ApprovedBy
  <2>3. \A v \in Versions :
            version'[v] = IF v = on[h] THEN "VALIDATED" ELSE version[v]
    BY <1>0, <1>4, <2>1 DEF ValidateCommits, TypeOK
  <2>4. step[h] = N
    BY <1>4 DEF ValidateCommits, IInv, Knows
  <2>5. \A j \in 1..(N - 1) : approval[on[h]][j] \in {"APPROVED", "REJECTED"}
    BY <1>4, <2>4 DEF ValidateCommits, IInv, Knows, Verdicts
  <2> QED
    BY <1>0, <2>1, <2>2, <2>3, <2>4, <2>5
       DEF InReviewIsOrdered, SomeoneIsNext, ValidatedIsReviewed, IsTurn, Pending, Steps
<1>5. ASSUME NEW h \in Handlers, RejectCommits(h)
      PROVE  InReviewIsOrdered' /\ SomeoneIsNext' /\ ValidatedIsReviewed'
  <2>1. on[h] \in Versions /\ step[h] \in Steps
    BY <1>0 DEF TypeOK
  <2>2. \A v \in Versions, k \in Steps : v # on[h] => approval'[v][k] = approval[v][k]
    BY <1>0, <1>5, <2>1, RefusedBy
  <2>3. \A v \in Versions :
            version'[v] = IF v = on[h] THEN "REJECTED" ELSE version[v]
    BY <1>0, <1>5, <2>1 DEF RejectCommits, TypeOK
  <2> QED
    BY <1>0, <2>1, <2>2, <2>3
       DEF InReviewIsOrdered, SomeoneIsNext, ValidatedIsReviewed, IsTurn, Pending, Steps
<1> QED
    BY <1>1, <1>2, <1>3, <1>4, <1>5, ReviewOrNot

-----------------------------------------------------------------------------
(* What the requests know                                                  *)

\* Within a round, a decision on a step is never withdrawn.
DecisionsStay ==
    \A v \in Versions :
        /\ round[v] <= round'[v]
        /\ round[v] = round'[v] =>
              \A k \in Steps : approval[v][k] \in {"APPROVED", "REJECTED"}
                                => approval'[v][k] \in {"APPROVED", "REJECTED"}

\* No step withdraws a decision: a refusal cancels pending steps only.
LEMMA DecisionsStep == ASSUME IInv, [Next]_vars PROVE DecisionsStay
<1>0. TypeOK
    BY DEF IInv
<1>1. CASE UNCHANGED <<approval, round>>
    BY <1>0, <1>1 DEF DecisionsStay, TypeOK
<1>2. ASSUME NEW h \in Handlers, SubmitCommits(h) PROVE DecisionsStay
  <2>1. PICK u \in Versions : u = on[h]
    BY <1>0 DEF TypeOK
  <2>2. /\ \A v \in Versions, k \in Steps :
               approval'[v][k] = IF v = u THEN "PENDING" ELSE approval[v][k]
        /\ \A v \in Versions : round'[v] = IF v = u THEN round[v] + 1 ELSE round[v]
    BY <1>0, <1>2, <2>1, SubmittedBy
  <2> QED
    BY <1>0, <2>2 DEF DecisionsStay, TypeOK
<1>3. ASSUME NEW h \in Handlers, ApproveCommits(h) \/ ValidateCommits(h)
      PROVE  DecisionsStay
  <2>1. PICK u \in Versions, s \in Steps : u = on[h] /\ s = step[h]
    BY <1>0 DEF TypeOK
  <2>2. \A v \in Versions, k \in Steps :
            approval'[v][k] = IF v = u /\ k = s THEN "APPROVED" ELSE approval[v][k]
    BY <1>0, <1>3, <2>1, ApprovedBy
  <2>3. round' = round
    BY <1>3 DEF ApproveCommits, ValidateCommits
  <2> QED
    BY <1>0, <2>2, <2>3 DEF DecisionsStay, TypeOK
<1>4. ASSUME NEW h \in Handlers, RejectCommits(h) PROVE DecisionsStay
  <2>1. PICK u \in Versions, s \in Steps : u = on[h] /\ s = step[h]
    BY <1>0 DEF TypeOK
  <2>2. \A v \in Versions, k \in Steps :
            approval'[v][k] = IF v # u THEN approval[v][k]
                              ELSE IF k = s THEN "REJECTED"
                              ELSE IF approval[u][k] = "PENDING" THEN "CANCELLED"
                              ELSE approval[u][k]
    BY <1>0, <1>4, <2>1, RefusedBy
  <2>3. \A v \in Versions, k \in Steps :
            approval[v][k] \in {"APPROVED", "REJECTED"}
              => approval'[v][k] \in {"APPROVED", "REJECTED"}
    BY <2>2
  <2>4. round' = round
    BY <1>4 DEF RejectCommits
  <2> QED
    BY <1>0, <2>3, <2>4 DEF DecisionsStay, TypeOK
<1>5. ASSUME NEW h \in Handlers,
             \/ \E t \in Texts : EditReads(h, t)
             \/ EditWrites(h)
             \/ SubmitReads(h)
             \/ \E v \in Versions, k \in Steps :
                    ApproveReads(h, v, k) \/ RejectReads(h, v, k)
             \/ \E bump \in Bumps : ReviseReads(h, bump)
             \/ ReviseCommits(h)
             \/ ArchiveReads(h)
             \/ ArchiveCommits(h)
             \/ RollsBack(h)
      PROVE  UNCHANGED <<approval, round>>
    BY <1>5 DEF EditReads, EditWrites, SubmitReads, ApproveReads, RejectReads, ReviseReads,
                ReviseCommits, ArchiveReads, ArchiveCommits, RollsBack, Reads, table
<1>6. CASE CreateDescription \/ UNCHANGED vars
    BY <1>1, <1>6 DEF CreateDescription, vars, table
<1> QED
    BY <1>1, <1>2, <1>3, <1>4, <1>5, <1>6 DEF Next

\* The steps of the other requests leave a request what it knows.
LEMMA StillKnows ==
    ASSUME IInv, [Next]_vars, NEW g \in Handlers,
           call'[g] = call[g], on'[g] = on[g], step'[g] = step[g], ident'[g] = ident[g]
    PROVE  Knows(g)'
<1>1. /\ on[g] \in Versions
      /\ step[g] \in 1..N
      /\ round[on[g]] \in Nat
      /\ round'[on[g]] \in Nat
      /\ ident[g] \in Nat
    BY TypeStep DEF IInv, TypeOK, Steps
<1>2. DecisionsStay /\ Knows(g)
    BY DecisionsStep DEF IInv
<1>3. ident'[g] <= round'[on'[g]]
    BY <1>1, <1>2 DEF DecisionsStay, Knows
<1>4. ASSUME call'[g] \in Verdicts, Found(g)'
      PROVE  \A j \in 1..(step'[g] - 1) : approval'[on'[g]][j] \in {"APPROVED", "REJECTED"}
  <2>1. round'[on[g]] = round[on[g]] /\ Found(g)
    BY <1>1, <1>2, <1>4 DEF Found, DecisionsStay, Knows
  <2>2. \A j \in 1..(step[g] - 1) :
            j \in Steps /\ approval[on[g]][j] \in {"APPROVED", "REJECTED"}
    BY <1>1, <1>2, <1>4, <2>1, CircuitAssumption DEF Knows, Steps
  <2> QED
    BY <1>1, <1>2, <2>1, <2>2 DEF DecisionsStay
<1> QED
    BY <1>2, <1>3, <1>4 DEF Knows

\* A request that reads knows what it has read.
LEMMA ReviewerKnows ==
    ASSUME IInv, NEW h \in Handlers, NEW v \in Versions, NEW k \in Steps,
           ApproveReads(h, v, k) \/ RejectReads(h, v, k)
    PROVE  Knows(h)'
<1>0. TypeOK /\ InReviewIsOrdered
    BY DEF IInv
<1>1. IsTurn(v, k)
    BY DEF ApproveReads, RejectReads
<1>2. /\ \A j \in 1..(k - 1) : approval[v][j] = "APPROVED"
      /\ \A j \in k..N : approval[v][j] = "PENDING"
    BY <1>0, <1>1, AtTurn
<1>3. PICK c \in Verdicts :
        /\ Reads(h, c, v, k, round[v], Blank)
        /\ c = "approve" => ~IsLast(v, k)
        /\ c = "validate" => IsLast(v, k)
    BY DEF ApproveReads, RejectReads, Verdicts
<1>4. /\ call'[h] = c
      /\ on'[h] = v
      /\ step'[h] = k
      /\ ident'[h] = round[v]
      /\ round' = round
      /\ approval' = approval
    BY <1>0, <1>3 DEF Reads, TypeOK, table
<1>5. /\ c = "approve" => k # N
      /\ c = "validate" => k = N
    BY <1>2, <1>3, CircuitAssumption DEF IsLast, Pending, Steps
<1>6. round[v] \in Nat
    BY <1>0 DEF TypeOK
<1> QED
    BY <1>2, <1>4, <1>5, <1>6 DEF Knows, Bumps, Verdicts

\* Every request knows what it needs after every step.
LEMMA KnowsStep ==
    ASSUME IInv, [Next]_vars
    PROVE  \A h \in Handlers : Knows(h)'
<1>0. TypeOK /\ TypeOK'
    BY TypeStep DEF IInv
<1>1. ASSUME NEW h \in Handlers, Finish(h)
      PROVE  \A g \in Handlers : Knows(g)'
  <2> SUFFICES ASSUME NEW g \in Handlers PROVE Knows(g)'
    OBVIOUS
  <2>1. CASE g = h
    <3>1. call'[g] = "idle" /\ ident'[g] = 0
      BY <1>0, <1>1, <2>1 DEF Finish, TypeOK
    <3>2. round'[on'[g]] \in Nat
      BY <1>0 DEF TypeOK
    <3> QED
      BY <3>1, <3>2 DEF Knows, Bumps, Verdicts
  <2>2. CASE g # h
    BY <1>0, <1>1, <2>2, StillKnows DEF Finish, TypeOK
  <2> QED
    BY <2>1, <2>2
<1>2. ASSUME NEW h \in Handlers, NEW c \in Calls, NEW v \in Versions, NEW k \in Steps,
             NEW i \in Nat, NEW t \in Contents, Reads(h, c, v, k, i, t), Knows(h)'
      PROVE  \A g \in Handlers : Knows(g)'
    BY <1>0, <1>2, StillKnows DEF Reads, TypeOK
<1>3. ASSUME NEW h \in Handlers, NEW c \in Calls, NEW t \in Contents,
             Reads(h, c, current, 1, 0, t),
             c \notin Verdicts, c \in Bumps => Bumped(current, c) \in Versions
      PROVE  \A g \in Handlers : Knows(g)'
  <2>1. current \in Versions /\ 1 \in Steps /\ 0 \in Nat
    BY <1>0, CircuitAssumption DEF TypeOK, Steps
  <2>2. call'[h] = c /\ on'[h] = current /\ ident'[h] = 0 /\ round'[current] \in Nat
    BY <1>0, <1>3, <2>1 DEF Reads, TypeOK, table
  <2>3. Knows(h)'
    BY <1>3, <2>2 DEF Knows, Verdicts
  <2> QED
    BY <1>2, <1>3, <2>1, <2>3
<1>4. CASE UNCHANGED requests
    BY <1>4, StillKnows DEF requests
<1>5. ASSUME NEW h \in Handlers, NEW t \in Texts, EditReads(h, t)
      PROVE  \A g \in Handlers : Knows(g)'
    BY <1>3, <1>5 DEF EditReads, Calls, Contents, Verdicts, Bumps
<1>6. ASSUME NEW h \in Handlers, SubmitReads(h)
      PROVE  \A g \in Handlers : Knows(g)'
    BY <1>3, <1>6 DEF SubmitReads, Calls, Contents, Verdicts, Bumps
<1>7. ASSUME NEW h \in Handlers, NEW v \in Versions, NEW k \in Steps,
             ApproveReads(h, v, k) \/ RejectReads(h, v, k)
      PROVE  \A g \in Handlers : Knows(g)'
  <2>1. Knows(h)'
    BY <1>7, ReviewerKnows
  <2>2. PICK c \in Calls : Reads(h, c, v, k, round[v], Blank)
    BY <1>7 DEF ApproveReads, RejectReads, Calls, Verdicts
  <2> QED
    BY <1>0, <1>2, <2>1, <2>2 DEF TypeOK, Contents
<1>8. ASSUME NEW h \in Handlers, NEW bump \in Bumps, ReviseReads(h, bump)
      PROVE  \A g \in Handlers : Knows(g)'
  <2>1. text[current] \in Contents
    BY <1>0 DEF TypeOK
  <2> QED
    BY <1>3, <1>8, <2>1 DEF ReviseReads, Calls, Verdicts, Bumps
<1>9. ASSUME NEW h \in Handlers, ArchiveReads(h)
      PROVE  \A g \in Handlers : Knows(g)'
  <2>1. PICK c \in {"discard", "archive"} : Reads(h, c, current, 1, 0, Blank)
    BY <1>9 DEF ArchiveReads
  <2> QED
    BY <1>3, <2>1 DEF Calls, Contents, Verdicts, Bumps
<1>10. ASSUME NEW h \in Handlers,
              \/ EditWrites(h) \/ SubmitCommits(h) \/ ApproveCommits(h)
              \/ ValidateCommits(h) \/ RejectCommits(h) \/ ReviseCommits(h)
              \/ ArchiveCommits(h) \/ RollsBack(h)
       PROVE  Finish(h)
    BY <1>10 DEF EditWrites, SubmitCommits, ApproveCommits, ValidateCommits, RejectCommits,
                 ReviseCommits, ArchiveCommits, RollsBack
<1>11. CASE CreateDescription \/ UNCHANGED vars
    BY <1>4, <1>11 DEF CreateDescription, vars
<1> QED
    BY <1>1, <1>5, <1>6, <1>7, <1>8, <1>9, <1>10, <1>11 DEF Next

\* Requests find nothing to read before the description exists.
LEMMA NothingStep == ASSUME IInv, [Next]_vars PROVE NothingYet'
<1>0. TypeOK /\ NothingYet
    BY DEF IInv
<1>1. CASE fiche' # "ABSENT"
    BY <1>1 DEF NothingYet
<1>2. ASSUME fiche' = "ABSENT", NEW h \in Handlers,
             \/ EditWrites(h) \/ ApproveCommits(h) \/ RollsBack(h)
             \/ SubmitCommits(h) \/ ValidateCommits(h) \/ RejectCommits(h)
             \/ ReviseCommits(h) \/ ArchiveCommits(h)
      PROVE  FALSE
    BY <1>0, <1>2 DEF EditWrites, ApproveCommits, RollsBack, SubmitCommits, ValidateCommits,
                      RejectCommits, ReviseCommits, ArchiveCommits, NothingYet, table, Bumps
<1>3. ASSUME fiche' = "ABSENT", NEW h \in Handlers,
             \/ \E t \in Texts : EditReads(h, t)
             \/ SubmitReads(h)
             \/ \E v \in Versions, k \in Steps :
                    ApproveReads(h, v, k) \/ RejectReads(h, v, k)
             \/ \E bump \in Bumps : ReviseReads(h, bump)
             \/ ArchiveReads(h)
      PROVE  FALSE
  <2>1. fiche = "ABSENT"
    BY <1>3 DEF EditReads, SubmitReads, ApproveReads, RejectReads, ReviseReads, ArchiveReads,
                Reads, table
  <2>2. current \in Versions /\ \A v \in Versions : version[v] = "ABSENT"
    BY <1>0, <2>1 DEF NothingYet, TypeOK
  <2> QED
    BY <1>3, <2>1, <2>2 DEF EditReads, SubmitReads, ApproveReads, RejectReads, ReviseReads,
                            ArchiveReads, IsDraft, IsTurn, IsValidated
<1>4. CASE UNCHANGED vars
    BY <1>0, <1>4 DEF NothingYet, vars, table, requests
<1>5. CASE CreateDescription
    BY <1>1, <1>5 DEF CreateDescription
<1> QED
    BY <1>1, <1>2, <1>3, <1>4, <1>5 DEF Next

\* The invariant is inductive.
LEMMA IInvStep == IInv /\ [Next]_vars => IInv'
BY TypeStep, NothingStep, KnowsStep, CircuitStep DEF IInv

\* It holds in every behaviour.
LEMMA IInvAlways == Spec => []IInv
BY IInvInit, IInvStep, PTL DEF Spec

\* The description, its versions, their approvals and the requests are well
\* typed.
THEOREM TypeCorrect == Spec => []TypeOK
<1>1. IInv => TypeOK
    BY DEF IInv
<1> QED
    BY <1>1, IInvAlways, PTL

\* In review, steps are approved in order and none is refused.
THEOREM ReviewIsOrdered == Spec => []InReviewIsOrdered
<1>1. IInv => InReviewIsOrdered
    BY DEF IInv
<1> QED
    BY <1>1, IInvAlways, PTL

\* A version in review never waits for nobody.
THEOREM NeverStranded == Spec => []SomeoneIsNext
<1>1. IInv => SomeoneIsNext
    BY DEF IInv
<1> QED
    BY <1>1, IInvAlways, PTL

\* A validated version was decided step by step, the last one approving it.
THEOREM ValidationIsReviewed == Spec => []ValidatedIsReviewed
<1>1. IInv => ValidatedIsReviewed
    BY DEF IInv
<1> QED
    BY <1>1, IInvAlways, PTL

\* A review is sound, however long its circuit and however its requests overlap.
THEOREM ReviewsAreSound == Spec => []ReviewIsSound
<1>1. InReviewIsOrdered /\ SomeoneIsNext /\ ValidatedIsReviewed => ReviewIsSound
    BY DEF ReviewIsSound
<1> QED
    BY <1>1, ReviewIsOrdered, NeverStranded, ValidationIsReviewed, PTL

-----------------------------------------------------------------------------
(* The description and its current version                                 *)

\* A step of a request that was not overtaken keeps the statuses together.
LEMMA AgreeStep ==
    ASSUME IInv, [Next]_vars, Agree, ~LateStep
    PROVE  Agree'
<1>0. TypeOK /\ NothingYet
    BY DEF IInv
<1>1. CASE CreateDescription
  <2>1. current = First /\ \A v \in Versions : version[v] = "ABSENT"
    BY <1>0, <1>1 DEF CreateDescription, NothingYet
  <2> QED
    BY <1>0, <1>1, <2>1, CircuitAssumption DEF CreateDescription, Agree, TypeOK
<1>2. CASE UNCHANGED <<fiche, current, version>>
    BY <1>2 DEF Agree
<1>3. ASSUME NEW h \in Handlers, Finish(h) PROVE ~Overtaken(h)
    BY <1>0, <1>3 DEF LateStep, Finish, TypeOK
<1>4. ASSUME NEW h \in Handlers, SubmitCommits(h) PROVE Agree'
  <2>1. on[h] = current /\ current \in Versions
    BY <1>0, <1>3, <1>4 DEF SubmitCommits, Overtaken, TypeOK
  <2> QED
    BY <1>0, <1>4, <2>1 DEF SubmitCommits, Agree, TypeOK
<1>5. ASSUME NEW h \in Handlers, ValidateCommits(h) \/ RejectCommits(h) PROVE Agree'
  <2>1. version[on[h]] = "PENDING_APPROVAL" /\ on[h] \in Versions /\ current \in Versions
    BY <1>0, <1>3, <1>5 DEF ValidateCommits, RejectCommits, Overtaken, Verdicts, IsTurn, TypeOK
  <2>2. on[h] = current
    BY <2>1 DEF Agree
  <2> QED
    BY <1>0, <1>5, <2>1, <2>2 DEF ValidateCommits, RejectCommits, Agree, TypeOK
<1>6. ASSUME NEW h \in Handlers, ReviseCommits(h) PROVE Agree'
  <2>1. /\ version[current] = "VALIDATED"
        /\ Bumped(on[h], call[h]) \in Versions
        /\ current \in Versions
    BY <1>0, <1>3, <1>6 DEF ReviseCommits, Overtaken, IsValidated, TypeOK, IInv, Knows
  <2> QED
    BY <1>0, <1>6, <2>1 DEF ReviseCommits, Agree, TypeOK
<1>7. ASSUME NEW h \in Handlers, ArchiveCommits(h) PROVE Agree'
    BY <1>0, <1>7 DEF ArchiveCommits, Discard, Agree, TypeOK
<1>8. ASSUME NEW h \in Handlers,
             \/ \E t \in Texts : EditReads(h, t)
             \/ EditWrites(h)
             \/ SubmitReads(h)
             \/ \E v \in Versions, k \in Steps :
                    ApproveReads(h, v, k) \/ RejectReads(h, v, k)
             \/ ApproveCommits(h)
             \/ \E bump \in Bumps : ReviseReads(h, bump)
             \/ ArchiveReads(h)
             \/ RollsBack(h)
      PROVE  UNCHANGED <<fiche, current, version>>
    BY <1>8 DEF EditReads, EditWrites, SubmitReads, ApproveReads, RejectReads, ApproveCommits,
                ReviseReads, ArchiveReads, RollsBack, Reads, table
<1>9. ASSUME NEW h \in Handlers,
             SubmitCommits(h) \/ ValidateCommits(h) \/ RejectCommits(h) \/ ReviseCommits(h)
      PROVE  Finish(h)
    BY <1>9 DEF SubmitCommits, ValidateCommits, RejectCommits, ReviseCommits
<1>10. CASE UNCHANGED vars
    BY <1>2, <1>10 DEF vars, table
<1> QED
    BY <1>1, <1>2, <1>4, <1>5, <1>6, <1>7, <1>8, <1>10 DEF Next

\* The description and its current version come apart only by a late step.
THEOREM AgreementIsKept == Spec => AgreementLasts
<1>1. IInv /\ [Next]_vars => [Agree => Agree' \/ LateStep]_vars
    BY AgreeStep
<1> QED
    BY <1>1, IInvAlways, PTL DEF Spec, AgreementLasts

-----------------------------------------------------------------------------
(* The circuit implemented                                                 *)

\* The circuit as the table shows it.
passed == [v \in Versions |-> Passed(v)]

\* A description that does not exist yet shows an empty circuit.
LEMMA CircuitInit == Init => Circuit!Init
BY DEF Init, Circuit!Init, Passed, Contents

\* A step that changes neither approvals nor versions nor contents.
LEMMA CircuitUntouched ==
    ASSUME UNCHANGED <<version, text, approval>>
    PROVE  UNCHANGED Circuit!circuit
BY DEF Circuit!circuit, Passed

\* The review of the step whose turn it is passes it.
LEMMA Passes ==
    ASSUME IInv, NEW u \in Versions, NEW s \in Steps, IsTurn(u, s),
           approval' = [approval EXCEPT ![u][s] = "APPROVED"]
    PROVE  Circuit!Pass(u, s)
<1>0. TypeOK /\ InReviewIsOrdered
    BY DEF IInv
<1>1. \A v \in Versions, k \in Steps :
          approval'[v][k] = IF v = u /\ k = s THEN "APPROVED" ELSE approval[v][k]
    BY <1>0, OneApproved
<1>2. /\ \A j \in 1..(s - 1) : approval[u][j] = "APPROVED"
      /\ \A j \in s..N : approval[u][j] = "PENDING"
    BY <1>0, AtTurn
<1>3. Passed(u) = 1..(s - 1)
    BY <1>2, CircuitAssumption DEF Passed, Steps
<1>4. Passed(u)' = 1..s
    BY <1>1, <1>2, CircuitAssumption DEF Passed, Steps
<1>5. \A v \in Versions \ {u} : Passed(v)' = Passed(v)
    BY <1>1 DEF Passed
<1>6. passed[u] = 1..(s - 1)
    BY <1>3 DEF passed
<1>7. passed' = [passed EXCEPT ![u] = 1..s]
    BY <1>4, <1>5 DEF passed
<1> QED
    BY <1>6, <1>7 DEF Circuit!Pass, passed

\* A step that is not late implements a step of the circuit, or none.
LEMMA Simulation ==
    ASSUME IInv, [Next]_vars, ~LateStep
    PROVE  Circuit!Next \/ UNCHANGED Circuit!circuit
<1>0. TypeOK /\ NothingYet
    BY DEF IInv
<1>1. ASSUME NEW h \in Handlers, Finish(h) PROVE ~Overtaken(h)
    BY <1>0, <1>1 DEF LateStep, Finish, TypeOK
<1>2. CASE UNCHANGED <<version, text, approval>>
    BY <1>2, CircuitUntouched
<1>3. CASE CreateDescription
  <2>1. version[First] = "ABSENT" /\ text[First] \in Contents
    BY <1>0, <1>3, CircuitAssumption DEF CreateDescription, NothingYet, TypeOK
  <2>2. text = [text EXCEPT ![First] = text[First]]
    BY <1>0 DEF TypeOK
  <2>3. Circuit!Create(text[First])
    BY <1>3, <2>1, <2>2 DEF CreateDescription, Circuit!Create, Circuit!Becomes, Passed
  <2> QED
    BY <2>1, <2>3 DEF Circuit!Next
<1>4. ASSUME NEW h \in Handlers, EditWrites(h) PROVE Circuit!Next
  <2>1. on[h] \in Versions /\ copy[h] \in Contents /\ version[on[h]] = "DRAFT"
    BY <1>0, <1>1, <1>4 DEF EditWrites, Overtaken, IsDraft, TypeOK
  <2>2. Circuit!Edit(on[h], copy[h])
    BY <1>4, <2>1 DEF EditWrites, Circuit!Edit, Passed
  <2> QED
    BY <2>1, <2>2 DEF Circuit!Next
<1>5. ASSUME NEW h \in Handlers, SubmitCommits(h) PROVE Circuit!Next
  <2>1. PICK u \in Versions : u = on[h]
    BY <1>0 DEF TypeOK
  <2>2. version[u] = "DRAFT"
    BY <1>1, <1>5, <2>1 DEF SubmitCommits, Overtaken, IsDraft
  <2>3. \A v \in Versions, k \in Steps :
            approval'[v][k] = IF v = u THEN "PENDING" ELSE approval[v][k]
    BY <1>0, <1>5, <2>1, SubmittedBy
  <2>4. \A v \in Versions : Passed(v)' = IF v = u THEN {} ELSE Passed(v)
    BY <2>3 DEF Passed
  <2>5. passed' = [passed EXCEPT ![u] = {}]
    BY <2>4 DEF passed
  <2>6. Circuit!Submit(u)
    BY <1>5, <2>1, <2>2, <2>5 DEF SubmitCommits, Circuit!Submit, Circuit!Becomes, passed
  <2> QED
    BY <2>6 DEF Circuit!Next
<1>6. ASSUME NEW h \in Handlers, ApproveCommits(h) PROVE Circuit!Next
  <2>1. PICK u \in Versions, s \in Steps : u = on[h] /\ s = step[h]
    BY <1>0 DEF TypeOK
  <2>2. IsTurn(u, s) /\ s # N
    BY <1>1, <1>6, <2>1 DEF ApproveCommits, Overtaken, Verdicts, IInv, Knows
  <2>3. Circuit!Pass(u, s)
    BY <1>6, <2>1, <2>2, Passes DEF ApproveCommits
  <2>4. s < N /\ version[u] = "PENDING_APPROVAL"
    BY <2>2, CircuitAssumption DEF Steps, IsTurn
  <2>5. Circuit!Approve(u, s)
    BY <1>6, <2>3, <2>4 DEF ApproveCommits, Circuit!Approve
  <2> QED
    BY <2>5 DEF Circuit!Next, Steps
<1>7. ASSUME NEW h \in Handlers, ValidateCommits(h) PROVE Circuit!Next
  <2>1. PICK u \in Versions, s \in Steps : u = on[h] /\ s = step[h]
    BY <1>0 DEF TypeOK
  <2>2. IsTurn(u, s) /\ s = N
    BY <1>1, <1>7, <2>1 DEF ValidateCommits, Overtaken, Verdicts, IInv, Knows
  <2>3. Circuit!Pass(u, N)
    BY <1>7, <2>1, <2>2, Passes DEF ValidateCommits
  <2>4. Circuit!Validate(u)
    BY <1>7, <2>1, <2>2, <2>3 DEF ValidateCommits, Circuit!Validate, Circuit!Becomes, IsTurn
  <2> QED
    BY <2>4 DEF Circuit!Next
<1>8. ASSUME NEW h \in Handlers, RejectCommits(h) PROVE Circuit!Next
  <2>1. PICK u \in Versions, s \in Steps : u = on[h] /\ s = step[h]
    BY <1>0 DEF TypeOK
  <2>2. IsTurn(u, s)
    BY <1>1, <1>8, <2>1 DEF RejectCommits, Overtaken, Verdicts
  <2>3. \A v \in Versions, k \in Steps :
            approval'[v][k] = IF v # u THEN approval[v][k]
                              ELSE IF k = s THEN "REJECTED"
                              ELSE IF approval[u][k] = "PENDING" THEN "CANCELLED"
                              ELSE approval[u][k]
    BY <1>0, <1>8, <2>1, RefusedBy
  <2>4. \A v \in Versions : Passed(v)' = Passed(v)
    BY <2>2, <2>3 DEF Passed, IsTurn, Pending
  <2>5. passed' = passed
    BY <2>4 DEF passed
  <2>6. Circuit!Reject(u)
    BY <1>8, <2>1, <2>2, <2>5
       DEF RejectCommits, Circuit!Reject, Circuit!Becomes, IsTurn, passed
  <2> QED
    BY <2>6 DEF Circuit!Next
<1>9. ASSUME NEW h \in Handlers, ReviseCommits(h) PROVE Circuit!Next
  <2>1. PICK u \in Versions, w \in Versions : u = on[h] /\ w = Bumped(on[h], call[h])
    BY <1>0, <1>9 DEF ReviseCommits, IInv, Knows, TypeOK
  <2>2. version[u] = "VALIDATED" /\ text[u] = copy[h]
    BY <1>1, <1>9, <2>1 DEF ReviseCommits, Overtaken, IsValidated
  <2>3. Circuit!Revise(u, w)
    BY <1>9, <2>1, <2>2 DEF ReviseCommits, Circuit!Revise, Circuit!Becomes, Passed
  <2> QED
    BY <2>3 DEF Circuit!Next
<1>10. ASSUME NEW h \in Handlers, ArchiveCommits(h)
       PROVE  Circuit!Next \/ UNCHANGED Circuit!circuit
  <2>1. CASE call[h] = "archive"
    BY <1>2, <1>10, <2>1 DEF ArchiveCommits
  <2>2. CASE call[h] = "discard"
    <3>1. on[h] \in Versions /\ version[on[h]] = "DRAFT"
      BY <1>0, <1>1, <1>10, <2>2 DEF ArchiveCommits, Overtaken, IsDraft, TypeOK
    <3>2. Circuit!Discard(on[h])
      BY <1>10, <2>2, <3>1
         DEF ArchiveCommits, Discard, Circuit!Discard, Circuit!Becomes, Passed
    <3> QED
      BY <3>1, <3>2 DEF Circuit!Next
  <2> QED
    BY <1>10, <2>1, <2>2 DEF ArchiveCommits
<1>11. ASSUME NEW h \in Handlers,
              \/ \E t \in Texts : EditReads(h, t)
              \/ SubmitReads(h)
              \/ \E v \in Versions, k \in Steps :
                     ApproveReads(h, v, k) \/ RejectReads(h, v, k)
              \/ \E bump \in Bumps : ReviseReads(h, bump)
              \/ ArchiveReads(h)
              \/ RollsBack(h)
       PROVE  UNCHANGED <<version, text, approval>>
    BY <1>11 DEF EditReads, SubmitReads, ApproveReads, RejectReads, ReviseReads, ArchiveReads,
                 RollsBack, Reads, table
<1>12. CASE UNCHANGED vars
    BY <1>2, <1>12 DEF vars, table
<1> QED
    BY <1>2, <1>3, <1>4, <1>5, <1>6, <1>7, <1>8, <1>9, <1>10, <1>11, <1>12 DEF Next

\* Every step is one of the circuit, none at all, or late.
THEOREM CircuitIsFollowed == Spec => CircuitUnlessLate
<1>1. Init => Circuit!Init
    BY CircuitInit
<1>2. IInv /\ [Next]_vars
        => [Circuit!Next \/ UNCHANGED Circuit!circuit \/ LateStep]_vars
    BY Simulation
<1> QED
    BY <1>1, <1>2, IInvAlways, PTL DEF Spec, CircuitUnlessLate

\* No request is overtaken.
NoneOvertaken == \A h \in Handlers : ~Overtaken(h)

\* A request alone is not overtaken: what it reads is what it commits on.
LEMMA AloneStep ==
    ASSUME NEW h \in Handlers, Handlers = {h}, IInv, NoneOvertaken, [Next]_vars
    PROVE  NoneOvertaken'
<1>0. TypeOK /\ NothingYet
    BY DEF IInv
<1> USE DEF Verdicts, Bumps
<1>1. CASE call'[h] = "idle"
    BY <1>1 DEF NoneOvertaken, Overtaken
<1>2. ASSUME NEW c \in Calls, NEW t \in Contents, Reads(h, c, current, 1, 0, t),
             c \notin Verdicts,
             c \in {"edit", "submit", "discard"} => IsDraft(current),
             c \in Bumps => IsValidated(current) /\ text[current] = t
      PROVE  ~Overtaken(h)'
  <2>1. /\ call'[h] = c
        /\ on'[h] = current
        /\ copy'[h] = t
        /\ UNCHANGED <<current, version, text>>
    BY <1>0, <1>2 DEF Reads, TypeOK, table
  <2> QED
    BY <1>2, <2>1 DEF Overtaken, IsDraft, IsValidated
<1>3. ASSUME NEW t \in Texts, EditReads(h, t) PROVE ~Overtaken(h)'
    BY <1>2, <1>3 DEF EditReads, Calls, Contents
<1>4. CASE SubmitReads(h)
    BY <1>2, <1>4 DEF SubmitReads, Calls, Contents, NoneOvertaken
<1>5. ASSUME NEW v \in Versions, NEW k \in Steps, ApproveReads(h, v, k) \/ RejectReads(h, v, k)
      PROVE  ~Overtaken(h)'
  <2>1. PICK c \in Verdicts :
          /\ Reads(h, c, v, k, round[v], Blank)
          /\ c = "approve" => ~IsLast(v, k)
          /\ c = "validate" => IsLast(v, k)
    BY <1>5 DEF ApproveReads, RejectReads
  <2>2. /\ call'[h] = c
        /\ on'[h] = v
        /\ step'[h] = k
        /\ UNCHANGED <<version, approval>>
    BY <1>0, <2>1 DEF Reads, TypeOK, table
  <2>3. IsTurn(v, k)
    BY <1>5 DEF ApproveReads, RejectReads
  <2> QED
    BY <2>1, <2>2, <2>3 DEF Overtaken, IsTurn, IsLast, Pending
<1>6. ASSUME NEW bump \in Bumps, ReviseReads(h, bump) PROVE ~Overtaken(h)'
  <2>1. text[current] \in Contents
    BY <1>0 DEF TypeOK
  <2> QED
    BY <1>2, <1>6, <2>1 DEF ReviseReads, Calls
<1>7. CASE ArchiveReads(h)
  <2>1. CASE IsDraft(current)
    <3>1. Reads(h, "discard", current, 1, 0, Blank)
      BY <1>7, <2>1 DEF ArchiveReads
    <3> QED
      BY <1>2, <2>1, <3>1 DEF Calls, Contents, NoneOvertaken
  <2>2. CASE ~IsDraft(current)
    <3>1. Reads(h, "archive", current, 1, 0, Blank)
      BY <1>7, <2>2 DEF ArchiveReads
    <3> QED
      BY <1>2, <3>1 DEF Calls, Contents, NoneOvertaken
  <2> QED
    BY <2>1, <2>2
<1>8. ASSUME Finish(h) PROVE call'[h] = "idle"
    BY <1>0, <1>8 DEF Finish, TypeOK
<1>9. ASSUME \/ EditWrites(h) \/ SubmitCommits(h) \/ ApproveCommits(h)
             \/ ValidateCommits(h) \/ RejectCommits(h) \/ ReviseCommits(h)
             \/ ArchiveCommits(h) \/ RollsBack(h)
      PROVE  Finish(h)
    BY <1>9 DEF EditWrites, SubmitCommits, ApproveCommits, ValidateCommits, RejectCommits,
                ReviseCommits, ArchiveCommits, RollsBack
<1>10. CASE CreateDescription
  <2>1. call'[h] = "idle"
    BY <1>0, <1>10 DEF CreateDescription, NothingYet, requests
  <2> QED
    BY <1>1, <2>1
<1>11. CASE UNCHANGED vars
    BY <1>11 DEF NoneOvertaken, Overtaken, IsDraft, IsTurn, IsLast, IsValidated, Pending,
                 vars, table, requests
<1> QED
    BY <1>1, <1>3, <1>4, <1>5, <1>6, <1>7, <1>8, <1>9, <1>10, <1>11 DEF Next, NoneOvertaken

\* One request at a time, the service implements the circuit: each version is
\* edited in draft only, approved step by step, decided once, and what was
\* approved is what is validated.
THEOREM AloneImplements ==
    ASSUME NEW h \in Handlers, Handlers = {h}
    PROVE  Spec => Circuit!Spec
<1>1. Init => NoneOvertaken
    BY DEF Init, NoneOvertaken, Overtaken, Verdicts, Bumps
<1>2. IInv /\ NoneOvertaken /\ [Next]_vars => NoneOvertaken'
    BY AloneStep
<1>3. Init => Circuit!Init
    BY CircuitInit
<1>4. IInv /\ NoneOvertaken /\ [Next]_vars => [Circuit!Next]_(Circuit!circuit)
    BY Simulation DEF LateStep, NoneOvertaken
<1> QED
    BY <1>1, <1>2, <1>3, <1>4, IInvAlways, PTL DEF Spec, Circuit!Spec

-----------------------------------------------------------------------------
(* The PDF archive                                                         *)

\* Requests in flight hold different prints, unless two have met.
PrintsDiffer ==
    ~clash =>
        \A g, h \in Generations :
            g # h /\ pc[g] \in Holding /\ pc[h] \in Holding => print[g] # print[h]

\* A request about to insert its row has its file, which nobody else removes.
FileIsReady ==
    ~clash /\ ~broken =>
        \A g \in Generations : pc[g] = "inserting" => print[g] \in files

\* Only the request that made the row still holds its print.
RowIsForeign ==
    ~clash /\ ~broken =>
        \A g \in Generations : pc[g] \in Holding /\ pc[g] # "recording" => print[g] \notin row

ArchiveInv == ArchiveTypeOK /\ PrintsDiffer /\ FileIsReady /\ RowIsForeign /\ ArchiveIsKept

LEMMA ArchiveInvInit == ArchiveInit => ArchiveInv
BY DEF ArchiveInit, ArchiveInv, ArchiveTypeOK, PrintsDiffer, FileIsReady, RowIsForeign, ArchiveIsKept,
       Awaits, Holding

\* Every step keeps the types.
LEMMA ArchiveTypeStep == ArchiveTypeOK /\ [ArchiveNext]_archiveVars => ArchiveTypeOK'
<1> SUFFICES ASSUME ArchiveTypeOK, [ArchiveNext]_archiveVars PROVE ArchiveTypeOK'
    OBVIOUS
<1> USE DEF ArchiveTypeOK, Goes, Awaits, Holding, storage
<1>1. ASSUME NEW g \in Generations, Finds(g) \/ Renders(g) PROVE ArchiveTypeOK'
    BY <1>1 DEF Finds, Renders
<1>2. ASSUME NEW g \in Generations, Writes(g) \/ Renames(g) \/ FileFails(g) \/ Cleans(g)
      PROVE ArchiveTypeOK'
    BY <1>2 DEF Writes, Renames, FileFails, Cleans, Path
<1>3. ASSUME NEW g \in Generations, Inserts(g) \/ InsertFails(g) \/ InsertIsLost(g)
      PROVE ArchiveTypeOK'
    BY <1>3 DEF Inserts, InsertFails, InsertIsLost
<1>4. ASSUME NEW g \in Generations, Records(g) \/ Unlinks(g) \/ FindsOther(g)
      PROVE ArchiveTypeOK'
    BY <1>4 DEF Records, Unlinks, FindsOther, Path
<1>5. CASE Crash
    BY <1>5 DEF Crash
<1>6. CASE UNCHANGED archiveVars
    BY <1>6 DEF archiveVars
<1> QED
    BY <1>1, <1>2, <1>3, <1>4, <1>5, <1>6 DEF ArchiveNext

\* A step that only moves requests on, and takes none into an await it does not
\* come from, keeps what is said of prints, files and row.
LEMMA ArchiveInvStep == ArchiveInv /\ [ArchiveNext]_archiveVars => ArchiveInv'
<1> SUFFICES ASSUME ArchiveInv, [ArchiveNext]_archiveVars PROVE ArchiveInv'
    OBVIOUS
<1>t. ArchiveTypeOK'
    BY ArchiveTypeStep DEF ArchiveInv
<1> SUFFICES (PrintsDiffer /\ FileIsReady /\ RowIsForeign /\ ArchiveIsKept)'
    BY <1>t DEF ArchiveInv
<1> USE DEF ArchiveInv, ArchiveTypeOK, PrintsDiffer, FileIsReady, RowIsForeign,
        ArchiveIsKept, Goes, Holding, storage
<1>1. ASSUME NEW g \in Generations, Finds(g)
      PROVE (PrintsDiffer /\ FileIsReady /\ RowIsForeign /\ ArchiveIsKept)'
    BY <1>1 DEF Finds
<1>2. ASSUME NEW g \in Generations, Renders(g)
      PROVE (PrintsDiffer /\ FileIsReady /\ RowIsForeign /\ ArchiveIsKept)'
    BY <1>2 DEF Renders
<1>3. ASSUME NEW g \in Generations, Writes(g) \/ FileFails(g) \/ Cleans(g)
      PROVE (PrintsDiffer /\ FileIsReady /\ RowIsForeign /\ ArchiveIsKept)'
    BY <1>3 DEF Writes, FileFails, Cleans
<1>4. ASSUME NEW g \in Generations, Renames(g)
      PROVE (PrintsDiffer /\ FileIsReady /\ RowIsForeign /\ ArchiveIsKept)'
    BY <1>4 DEF Renames, Path
<1>5. ASSUME NEW g \in Generations, Inserts(g)
      PROVE (PrintsDiffer /\ FileIsReady /\ RowIsForeign /\ ArchiveIsKept)'
    BY <1>5 DEF Inserts
<1>6. ASSUME NEW g \in Generations, InsertFails(g) \/ InsertIsLost(g)
      PROVE (PrintsDiffer /\ FileIsReady /\ RowIsForeign /\ ArchiveIsKept)'
    BY <1>6 DEF InsertFails, InsertIsLost
<1>7. ASSUME NEW g \in Generations, Records(g) \/ FindsOther(g)
      PROVE (PrintsDiffer /\ FileIsReady /\ RowIsForeign /\ ArchiveIsKept)'
    BY <1>7 DEF Records, FindsOther
\* A removed file is that of a print only its request holds, and not the row's.
<1>8. ASSUME NEW g \in Generations, Unlinks(g)
      PROVE (PrintsDiffer /\ FileIsReady /\ RowIsForeign /\ ArchiveIsKept)'
    BY <1>8 DEF Unlinks, Path
<1>9. CASE Crash
    BY <1>9 DEF Crash
<1>10. CASE UNCHANGED archiveVars
    BY <1>10 DEF archiveVars
<1> QED
    BY <1>1, <1>2, <1>3, <1>4, <1>5, <1>6, <1>7, <1>8, <1>9, <1>10 DEF ArchiveNext

\* The invariant holds throughout.
LEMMA ArchiveInvHolds == ArchiveSpec => []ArchiveInv
BY ArchiveInvInit, ArchiveInvStep, PTL DEF ArchiveSpec

\* Type correctness of the archive and its requests (generatePdf).
THEOREM ArchiveTypeCorrect == ArchiveSpec => []ArchiveTypeOK
<1>1. ArchiveInv => ArchiveTypeOK
    BY DEF ArchiveInv
<1> QED
    BY <1>1, ArchiveInvHolds, PTL

\* The file of an archive row is never removed by another request than its own,
\* however many generate it at once and whenever the process dies (generatePdf).
THEOREM ArchiveKept == ArchiveSpec => []ArchiveIsKept
<1>1. ArchiveInv => ArchiveIsKept
    BY DEF ArchiveInv
<1> QED
    BY <1>1, ArchiveInvHolds, PTL

-----------------------------------------------------------------------------
(* ResignationDecisions: the numbers and the answers.                       *)

\* A demand is still open between its reading and its answer.
Open == {"checking", "entering", "waiting", "printing", "creating"}

\* What holds of a demand that stands at q: it has read what is committed, draws the next
\* number alone, has written its file when it creates the row, and read no decision like
\* the one it makes unless it asks again.
Stands(c, q) ==
    /\ q.before \subseteq Committed
    /\ q.at \in {"printing", "creating"} =>
         /\ q.number = counter[q.series] + 1
         /\ \A d \in Demands \ {c} : Holds(d) => demand[d].series # q.series
    /\ q.at = "creating" => c \in pdfs
    /\ q.at \in Open /\ ~q.again =>
         \A d \in decisions : d.by \in q.before => d.of # q.of \/ d.type # q.type

\* A demand makes one decision, its last act.
OneEach ==
    /\ \A d \in decisions : demand[d.by].at = "created"
    /\ \A d, x \in decisions : d.by = x.by => d = x

DecisionInv ==
    /\ DecisionTypeOK
    /\ \A c \in Demands : Stands(c, demand[c])
    /\ OneEach
    /\ DecisionsAreWhole

\* A demand that has not begun, or that ends without a decision, has a place.
LEMMA IdleTyped == Idle \in Demand /\ Ended \in Demand /\ Idle.at = "idle" /\ Ended.at = "ended"
                     /\ Idle.before = {} /\ Ended.before = {}
<1>1. (CHOOSE e \in Employees : TRUE) \in Employees /\ (CHOOSE s \in Series : TRUE) \in Series
  BY DecisionAssumption
<1> QED BY <1>1 DEF Idle, Ended, Demand, Types

\* Nothing is decided before the first demand.
LEMMA DecisionInvInit == DecisionInit => DecisionInv
<1> SUFFICES ASSUME DecisionInit PROVE DecisionInv
  OBVIOUS
<1>1. DecisionTypeOK
  BY IdleTyped DEF DecisionInit, DecisionTypeOK
<1>2. \A c \in Demands : demand[c] = Idle
  BY DEF DecisionInit
<1>3. \A c \in Demands : Stands(c, demand[c])
  BY <1>2, IdleTyped DEF Stands, Open
<1>4. OneEach /\ DecidedAgain
  BY DEF DecisionInit, OneEach, DecidedAgain
<1>5. NumbersAreWhole
  <2>1. \A s \in Series : 1..counter[s] = {}
    BY DEF DecisionInit
  <2> QED BY <2>1 DEF DecisionInit, NumbersAreWhole, Committed
<1> QED BY <1>1, <1>3, <1>4, <1>5 DEF DecisionInv, DecisionsAreWhole

\* A demand that moves on before its decision disturbs no other and no decision.
LEMMA OneDemand ==
    ASSUME DecisionInv, NEW c \in Demands, NEW q \in Demand,
           demand[c].at # "created", Stands(c, q)',
           demand' = [demand EXCEPT ![c] = q],
           q.at \in {"printing", "creating"} => \A d \in Demands \ {c} : Holds(d) => demand[d].series # q.series,
           UNCHANGED <<resigned, counter, decisions>>,
           pdfs \subseteq pdfs', pdfs' \subseteq Demands
    PROVE  DecisionInv'
<1>1. DecisionTypeOK'
  BY DEF DecisionInv, DecisionTypeOK
<1>2. demand'[c] = q /\ \A d \in Demands \ {c} : demand'[d] = demand[d]
  BY DEF DecisionInv, DecisionTypeOK
<1>3. Committed' = Committed
  BY DEF Committed
<1>4. ASSUME NEW d \in Demands PROVE Stands(d, demand[d])'
  <2>1. CASE d = c
    BY <1>2, <2>1
  <2>2. CASE d # c
    BY <1>2, <1>3, <2>2 DEF DecisionInv, Stands, Holds
  <2> QED BY <2>1, <2>2
<1>5. \A d \in decisions : d.by \in Demands /\ demand'[d.by] = demand[d.by]
  BY <1>2 DEF DecisionInv, OneEach, DecisionTypeOK, Decision
<1>6. OneEach' /\ DecidedAgain'
  BY <1>5 DEF DecisionInv, OneEach, DecisionsAreWhole, DecidedAgain
<1>7. NumbersAreWhole'
  BY <1>3 DEF DecisionInv, DecisionsAreWhole, NumbersAreWhole
<1> QED BY <1>1, <1>4, <1>6, <1>7 DEF DecisionInv, DecisionsAreWhole

\* Nor does a demand that ends without a decision.
LEMMA EndsWithout ==
    ASSUME DecisionInv, NEW c \in Demands, demand[c].at # "created",
           demand' = [demand EXCEPT ![c] = Ended],
           UNCHANGED <<resigned, counter, decisions, pdfs>>
    PROVE  DecisionInv'
<1>1. Stands(c, Ended)'
  BY IdleTyped DEF Stands, Open
<1>2. pdfs \subseteq pdfs' /\ pdfs' \subseteq Demands
  BY DEF DecisionInv, DecisionTypeOK
<1> QED BY <1>1, <1>2, IdleTyped, OneDemand

\* A demand begins with what is committed.
LEMMA AsksStep ==
    ASSUME DecisionInv, NEW c \in Demands, Asks(c)
    PROVE  DecisionInv'
<1>1. PICK e \in Employees, type \in Types, again \in BOOLEAN :
        Begins(c, e, type, again,
               {d \in decisions : d.of = e /\ d.type = type} # {} /\ ~again)
  BY DEF Asks
<1> DEFINE answered == {d \in decisions : d.of = e /\ d.type = type} # {} /\ ~again
<1>2. demand[c].at = "idle" /\ UNCHANGED <<resigned, counter, decisions, pdfs>>
  BY <1>1 DEF Begins
<1>3. CASE answered
  BY <1>1, <1>2, <1>3, EndsWithout DEF Begins
<1>4. CASE ~answered
  <2>1. Committed \in SUBSET Demands
    BY DEF Committed, DecisionInv, DecisionTypeOK, Decision
  <2>2. PICK q \in Demand :
          /\ demand' = [demand EXCEPT ![c] = q] /\ q.at = "checking" /\ q.before = Committed
          /\ q.of = e /\ q.type = type /\ q.again = again
    <3> DEFINE r == [Idle EXCEPT !.of = e, !.type = type, !.again = again,
                                 !.at = "checking", !.before = Committed]
    <3>1. demand' = [demand EXCEPT ![c] = r]
      BY <1>1, <1>4 DEF Begins
    <3>2. /\ r \in Demand /\ r.at = "checking" /\ r.before = Committed
          /\ r.of = e /\ r.type = type /\ r.again = again
      BY <2>1, IdleTyped DEF Demand
    <3> HIDE DEF r
    <3> QED BY <3>1, <3>2
  <2>3. ~again => \A d \in decisions : d.of # e \/ d.type # type
    BY <1>4
  <2>4. Committed' = Committed /\ decisions' = decisions
    BY <1>2 DEF Committed
  <2> HIDE DEF answered
  <2>5. Stands(c, q)'
    BY <2>2, <2>3, <2>4 DEF Stands
  <2>6. pdfs \subseteq pdfs' /\ pdfs' \subseteq Demands
    BY <1>2 DEF DecisionInv, DecisionTypeOK
  <2> QED BY <1>2, <2>2, <2>5, <2>6, OneDemand
<1> QED BY <1>3, <1>4

\* A demand that goes on keeps what it read.
LEMMA GoesOn ==
    ASSUME DecisionInv, NEW c \in Demands, NEW q \in Demand,
           demand[c].at \in Open, q.at \in Open,
           q.of = demand[c].of, q.type = demand[c].type, q.again = demand[c].again,
           q.before = demand[c].before,
           q.at \in {"printing", "creating"} =>
             /\ q.number = counter[q.series] + 1
             /\ \A d \in Demands \ {c} : Holds(d) => demand[d].series # q.series,
           q.at = "creating" => c \in pdfs',
           demand' = [demand EXCEPT ![c] = q],
           UNCHANGED <<resigned, counter, decisions>>,
           pdfs \subseteq pdfs', pdfs' \subseteq Demands
    PROVE  DecisionInv'
<1>1. \A d \in Demands \ {c} : demand'[d] = demand[d]
  BY DEF DecisionInv, DecisionTypeOK
<1>2. Stands(c, demand[c]) /\ Committed' = Committed
  BY DEF DecisionInv, Committed
<1>3. Stands(c, q)'
  BY <1>1, <1>2 DEF Stands, Holds
<1> QED BY <1>3, OneDemand DEF Open

\* A demand is refused, or takes the series of its unit and year.
LEMMA ChecksStep ==
    ASSUME DecisionInv, NEW c \in Demands, Checks(c)
    PROVE  DecisionInv'
<1>1. demand[c].at = "checking" /\ UNCHANGED <<resigned, counter, decisions, pdfs>>
  BY DEF Checks
<1>2. CASE demand' = [demand EXCEPT ![c] = Ended]
  BY <1>1, <1>2, EndsWithout
<1>3. ASSUME NEW s \in Series,
             demand' = [demand EXCEPT ![c].at = "entering", ![c].series = s]
      PROVE  DecisionInv'
  <2> DEFINE q == [demand[c] EXCEPT !.at = "entering", !.series = s]
  <2>1. demand' = [demand EXCEPT ![c] = q]
    BY <1>3 DEF DecisionInv, DecisionTypeOK
  <2>2. demand[c] \in Demand
    BY DEF DecisionInv, DecisionTypeOK
  <2>3. /\ q \in Demand /\ q.at = "entering" /\ q.of = demand[c].of /\ q.type = demand[c].type
        /\ q.again = demand[c].again /\ q.before = demand[c].before
    BY <2>2 DEF Demand
  <2> HIDE DEF q
  <2>4. pdfs \subseteq pdfs' /\ pdfs' \subseteq Demands
    BY <1>1 DEF DecisionInv, DecisionTypeOK
  <2> QED BY <1>1, <2>1, <2>3, <2>4, GoesOn DEF Open
<1> QED BY <1>2, <1>3 DEF Checks

\* A demand waits for the number another one holds.
LEMMA WaitsStep ==
    ASSUME DecisionInv, NEW c \in Demands, Waits(c)
    PROVE  DecisionInv'
<1> DEFINE q == [demand[c] EXCEPT !.at = "waiting"]
<1>1. /\ demand[c].at = "entering" /\ UNCHANGED <<resigned, counter, decisions, pdfs>>
      /\ demand' = [demand EXCEPT ![c] = q]
  BY DEF Waits, DecisionInv, DecisionTypeOK
<1>2. demand[c] \in Demand
  BY DEF DecisionInv, DecisionTypeOK
<1>3. /\ q \in Demand /\ q.at = "waiting" /\ q.of = demand[c].of /\ q.type = demand[c].type
      /\ q.again = demand[c].again /\ q.before = demand[c].before
  BY <1>2 DEF Demand
<1> HIDE DEF q
<1>4. pdfs \subseteq pdfs' /\ pdfs' \subseteq Demands
  BY <1>1 DEF DecisionInv, DecisionTypeOK
<1> QED BY <1>1, <1>3, <1>4, GoesOn DEF Open

\* A demand draws the next number of a series nobody holds.
LEMMA NumbersStep ==
    ASSUME DecisionInv, NEW c \in Demands, Numbers(c)
    PROVE  DecisionInv'
<1> DEFINE n == counter[demand[c].series] + 1
           q == [demand[c] EXCEPT !.at = "printing", !.number = n]
<1>1. /\ demand[c].at \in {"entering", "waiting"} /\ ~Held(c)
      /\ UNCHANGED <<resigned, counter, decisions, pdfs>>
      /\ demand' = [demand EXCEPT ![c] = q]
  BY DEF Numbers, DecisionInv, DecisionTypeOK
<1>2. demand[c] \in Demand
  BY DEF DecisionInv, DecisionTypeOK
<1>3. n \in Nat
  BY <1>2 DEF DecisionInv, DecisionTypeOK, Demand
<1>4. /\ q \in Demand /\ q.at = "printing" /\ q.of = demand[c].of /\ q.type = demand[c].type
      /\ q.again = demand[c].again /\ q.before = demand[c].before
      /\ q.series = demand[c].series /\ q.number = counter[q.series] + 1
  BY <1>2, <1>3 DEF Demand
<1>5. \A d \in Demands \ {c} : Holds(d) => demand[d].series # q.series
  BY <1>1, <1>4 DEF Held
<1> HIDE DEF q, n
<1>6. pdfs \subseteq pdfs' /\ pdfs' \subseteq Demands
  BY <1>1 DEF DecisionInv, DecisionTypeOK
<1> QED BY <1>1, <1>4, <1>5, <1>6, GoesOn DEF Open

\* The file is written under the number drawn.
LEMMA PrintsStep ==
    ASSUME DecisionInv, NEW c \in Demands, PrintsDocument(c)
    PROVE  DecisionInv'
<1> DEFINE q == [demand[c] EXCEPT !.at = "creating"]
<1>1. /\ demand[c].at = "printing" /\ UNCHANGED <<resigned, counter, decisions>>
      /\ pdfs' = pdfs \cup {c} /\ demand' = [demand EXCEPT ![c] = q]
  BY DEF PrintsDocument, DecisionInv, DecisionTypeOK
<1>2. demand[c] \in Demand /\ Stands(c, demand[c])
  BY DEF DecisionInv, DecisionTypeOK
<1>3. /\ q \in Demand /\ q.at = "creating" /\ q.of = demand[c].of /\ q.type = demand[c].type
      /\ q.again = demand[c].again /\ q.before = demand[c].before
      /\ q.series = demand[c].series /\ q.number = demand[c].number
  BY <1>2 DEF Demand
<1> HIDE DEF q
<1>4. /\ q.number = counter[q.series] + 1
      /\ \A d \in Demands \ {c} : Holds(d) => demand[d].series # q.series
  BY <1>1, <1>2, <1>3 DEF Stands
<1>5. pdfs \subseteq pdfs' /\ pdfs' \subseteq Demands
  BY <1>1 DEF DecisionInv, DecisionTypeOK
<1> QED BY <1>1, <1>3, <1>4, <1>5, GoesOn DEF Open

\* A decision takes the number drawn, which is the last of its series then.
LEMMA CreatesStep ==
    ASSUME DecisionInv, NEW c \in Demands, Creates(c)
    PROVE  DecisionInv'
<1> DEFINE q == demand[c]
           x == [of |-> q.of, type |-> q.type, series |-> q.series, number |-> q.number, by |-> c]
           end == [Idle EXCEPT !.at = "created", !.again = q.again, !.before = q.before]
<1>1. /\ q.at = "creating" /\ counter' = [counter EXCEPT ![q.series] = q.number]
      /\ decisions' = decisions \cup {x} /\ UNCHANGED <<resigned, pdfs>>
      /\ demand' = [d \in Demands |->
           IF d = c THEN end
           ELSE IF demand[d].at = "waiting" /\ demand[d].series = q.series
           THEN Ended ELSE demand[d]]
  BY DEF Creates
<1>2. q \in Demand /\ Stands(c, q) /\ DecisionTypeOK
  BY DEF DecisionInv, DecisionTypeOK
<1>3. /\ end \in Demand /\ end.at = "created" /\ end.again = q.again /\ end.before = q.before
  BY <1>2, IdleTyped DEF Demand
<1>4. /\ x \in Decision /\ x.of = q.of /\ x.type = q.type /\ x.series = q.series
      /\ x.number = q.number /\ x.by = c
  BY <1>2 DEF Demand, Decision
<1>5. /\ q.series \in Series /\ q.number = counter[q.series] + 1 /\ c \in pdfs
      /\ \A d \in Demands \ {c} : Holds(d) => demand[d].series # q.series
  BY <1>1, <1>2 DEF Stands, Demand
<1>6. /\ \A d \in decisions : d \in Decision /\ d.by \in Demands /\ demand[d.by].at = "created" /\ d.by # c
      /\ \A d, y \in decisions : d.by = y.by => d = y
      /\ q.before \subseteq Committed /\ c \notin Committed
  BY <1>1, <1>2 DEF DecisionInv, OneEach, DecisionTypeOK, Decision, Committed, Stands
<1>7. demand'[c] = end
  BY <1>1
<1>8. \A d \in Demands \ {c} :
        \/ demand'[d] = demand[d]
        \/ /\ demand'[d] = Ended
           /\ demand[d].at = "waiting"
  BY <1>1
<1>9. \A s \in Series : counter'[s] = IF s = q.series THEN q.number ELSE counter[s]
  BY <1>1, <1>5, <1>2 DEF DecisionTypeOK
<1>10. NumbersAreWhole /\ DecidedAgain
  BY DEF DecisionInv, DecisionsAreWhole
<1>11. \A s \in Series : counter[s] \in Nat
  BY <1>2 DEF DecisionTypeOK
<1> HIDE DEF x, end, q
<1>12. Committed' = Committed \cup {c}
  BY <1>1, <1>4 DEF Committed
<1>13. DecisionTypeOK'
  <2>1. demand' \in [Demands -> Demand]
    BY <1>1, <1>2, <1>3, IdleTyped DEF DecisionTypeOK
  <2>2. counter' \in [Series -> Nat]
    BY <1>1, <1>2, <1>5, <1>11 DEF DecisionTypeOK
  <2> QED BY <1>1, <1>2, <1>4, <2>1, <2>2 DEF DecisionTypeOK
<1>14. ASSUME NEW d \in Demands PROVE Stands(d, demand[d])'
  <2>1. CASE d = c
    BY <1>3, <1>6, <1>7, <1>12, <2>1 DEF Stands, Open
  <2>2. CASE d # c /\ demand'[d] = Ended
    BY <2>2, IdleTyped DEF Stands, Open
  <2>3. CASE d # c /\ demand'[d] = demand[d]
    <3>1. Stands(d, demand[d]) /\ demand[d] \in Demand
      BY <1>2 DEF DecisionInv, DecisionTypeOK
    <3>2. demand[d].before \subseteq Committed'
      BY <1>12, <3>1 DEF Stands
    <3>3. demand[d].at \in {"printing", "creating"} =>
            /\ demand[d].number = counter'[demand[d].series] + 1
            /\ \A h \in Demands \ {d} : Holds(h)' => demand'[h].series # demand[d].series
      <4>1. SUFFICES ASSUME demand[d].at \in {"printing", "creating"}
                     PROVE  /\ demand[d].number = counter'[demand[d].series] + 1
                            /\ \A h \in Demands \ {d} : Holds(h)' => demand'[h].series # demand[d].series
        OBVIOUS
      <4>2. demand[d].series # q.series /\ demand[d].series \in Series
        BY <1>5, <2>3, <3>1, <4>1 DEF Holds, Demand
      <4>3. \A h \in Demands : Holds(h)' => Holds(h) /\ demand'[h] = demand[h]
        BY <1>3, <1>7, <1>8, IdleTyped DEF Holds
      <4> QED BY <1>9, <3>1, <4>1, <4>2, <4>3 DEF Stands
    <3>4. demand[d].at = "creating" => d \in pdfs'
      BY <1>1, <3>1 DEF Stands
    <3>5. demand[d].at \in Open /\ ~demand[d].again =>
            \A y \in decisions' : y.by \in demand[d].before =>
                 y.of # demand[d].of \/ y.type # demand[d].type
      BY <1>1, <1>4, <1>6, <3>1 DEF Stands
    <3> QED BY <2>3, <3>2, <3>3, <3>4, <3>5 DEF Stands
  <2> QED BY <1>8, <2>1, <2>2, <2>3
<1>15. OneEach'
  BY <1>1, <1>3, <1>4, <1>6, <1>7, <1>8 DEF OneEach
<1>16. NumbersAreWhole'
  <2>1. ASSUME NEW s \in Series
        PROVE  {d.number : d \in {y \in decisions' : y.series = s}} = 1..counter'[s]
    <3>1. {d.number : d \in {y \in decisions : y.series = s}} = 1..counter[s]
      BY <1>10 DEF NumbersAreWhole
    <3>2. CASE s # q.series
      <4>1. {y \in decisions' : y.series = s} = {y \in decisions : y.series = s}
        BY <1>1, <1>4, <3>2
      <4> QED BY <1>9, <3>1, <3>2, <4>1
    <3>3. CASE s = q.series
      <4>1. {y \in decisions' : y.series = s} = {y \in decisions : y.series = s} \cup {x}
        BY <1>1, <1>4, <3>3
      <4>2. {d.number : d \in {y \in decisions' : y.series = s}} = (1..counter[s]) \cup {q.number}
        BY <1>4, <3>1, <4>1
      <4>3. 1..counter'[s] = (1..counter[s]) \cup {q.number}
        BY <1>5, <1>9, <1>11, <3>3
      <4> QED BY <4>2, <4>3
    <3> QED BY <3>2, <3>3
  <2>2. \A d \in decisions : d.series = q.series => d.number # q.number
    <3>1. ASSUME NEW d \in decisions, d.series = q.series PROVE d.number \in 1..counter[q.series]
      BY <1>5, <1>10, <3>1 DEF NumbersAreWhole
    <3> QED BY <1>5, <1>11, <3>1
  <2>3. \A d, y \in decisions' : d.series = y.series /\ d.number = y.number => d = y
    <3>1. \A d, y \in decisions : d.series = y.series /\ d.number = y.number => d = y
      BY <1>10 DEF NumbersAreWhole
    <3> QED BY <1>1, <1>4, <2>2, <3>1
  <2>4. Committed' \subseteq pdfs'
    BY <1>1, <1>5, <1>10, <1>12 DEF NumbersAreWhole
  <2> QED BY <2>1, <2>3, <2>4 DEF NumbersAreWhole
<1>17. DecidedAgain'
  <2>1. SUFFICES ASSUME NEW d \in decisions', NEW y \in decisions', d # y, d.of = y.of,
                        d.type = y.type, d.by \in demand'[y.by].before
                 PROVE  demand'[y.by].again
    BY DEF DecidedAgain
  <2>2. CASE y = x
    <3>1. y.by = c /\ d \in decisions /\ d.by \in q.before
      BY <1>1, <1>3, <1>4, <1>7, <2>1, <2>2
    <3>2. q.again
      BY <1>1, <1>2, <1>4, <2>1, <2>2, <3>1 DEF Stands, Open
    <3> QED BY <1>3, <1>7, <3>1, <3>2
  <2>3. CASE y # x
    <3>1. y \in decisions /\ demand'[y.by] = demand[y.by] /\ y.by \in Demands
      BY <1>1, <1>6, <1>8, <2>3
    <3>2. d \in decisions
      <4>1. demand[y.by].before \subseteq Committed
        BY <3>1 DEF DecisionInv, Stands
      <4> QED BY <1>1, <1>4, <1>6, <2>1, <3>1, <4>1
    <3> QED BY <1>10, <2>1, <3>1, <3>2 DEF DecidedAgain
  <2> QED BY <2>2, <2>3
<1> QED BY <1>13, <1>14, <1>15, <1>16, <1>17 DEF DecisionInv, DecisionsAreWhole

\* Every step keeps the invariant.
LEMMA DecisionInvStep == DecisionInv /\ [DecisionNext]_decisionVars => DecisionInv'
<1> SUFFICES ASSUME DecisionInv, [DecisionNext]_decisionVars PROVE DecisionInv'
  OBVIOUS
<1>1. ASSUME UNCHANGED <<counter, decisions, pdfs, demand>>, resigned' \subseteq Employees
      PROVE  DecisionInv'
  BY <1>1 DEF DecisionInv, DecisionTypeOK, Stands, Holds, Committed, OneEach,
              DecisionsAreWhole, NumbersAreWhole, DecidedAgain
<1>2. CASE UNCHANGED decisionVars
  BY <1>1, <1>2 DEF decisionVars, DecisionInv, DecisionTypeOK
<1>3. ASSUME NEW e \in Employees, StatusChanges(e) PROVE DecisionInv'
  BY <1>1, <1>3 DEF StatusChanges, DecisionInv, DecisionTypeOK
<1>4. ASSUME NEW c \in Demands, Undoes(c) PROVE DecisionInv'
  BY <1>4, EndsWithout DEF Undoes
<1> QED BY <1>2, <1>3, <1>4, AsksStep, ChecksStep, WaitsStep, NumbersStep, PrintsStep, CreatesStep
    DEF DecisionNext

\* The invariant always holds.
LEMMA DecisionInvHolds == DecisionSpec => []DecisionInv
BY DecisionInvInit, DecisionInvStep, PTL DEF DecisionSpec

\* Every field of a demand, every counter and every decision keeps its type (generate).
THEOREM DecisionTypeCorrect == DecisionSpec => []DecisionTypeOK
<1>1. DecisionInv => DecisionTypeOK
  BY DEF DecisionInv
<1> QED BY <1>1, DecisionInvHolds, PTL

\* For any number of demands at once, the numbers of a unit and a year have neither gap
\* nor double, every decision has its file, and a second one was asked for or overlapped
\* the first (generate).
THEOREM DecisionsKept == DecisionSpec => []DecisionsAreWhole
<1>1. DecisionInv => DecisionsAreWhole
  BY DEF DecisionInv
<1> QED BY <1>1, DecisionInvHolds, PTL
=============================================================================
