--------------------------- MODULE DocumentCircuit ---------------------------
(***************************************************************************)
(* What the approval circuit of a job description promises of each version *)
(* of it, with neither requests nor identifiers: a draft is edited, then   *)
(* submitted; the steps of its circuit pass one after the other; the last  *)
(* one validates it and any one may refuse it; nothing changes a version   *)
(* that is out of draft except the verdicts.  Every step is atomic.        *)
(***************************************************************************)
EXTENDS Naturals

CONSTANTS
    Versions,  \* versions of the document
    First,     \* the one it is created with
    N,         \* number of steps of the circuit
    Contents   \* contents of a version

VARIABLES
    status,    \* status of each version, "ABSENT" before it is created
    content,   \* content of each version
    passed     \* steps of the circuit it has passed

circuit == <<status, content, passed>>

Becomes(v, from, to) ==
    /\ status[v] = from
    /\ status' = [status EXCEPT ![v] = to]

Create(t) ==
    /\ Becomes(First, "ABSENT", "DRAFT")
    /\ content' = [content EXCEPT ![First] = t]
    /\ UNCHANGED passed

Edit(v, t) ==
    /\ status[v] = "DRAFT"
    /\ content' = [content EXCEPT ![v] = t]
    /\ UNCHANGED <<status, passed>>

Submit(v) ==
    /\ Becomes(v, "DRAFT", "PENDING_APPROVAL")
    /\ passed' = [passed EXCEPT ![v] = {}]
    /\ UNCHANGED content

\* Step k is the next one.
Pass(v, k) ==
    /\ passed[v] = 1..(k - 1)
    /\ passed' = [passed EXCEPT ![v] = 1..k]

Approve(v, k) ==
    /\ k < N
    /\ status[v] = "PENDING_APPROVAL"
    /\ Pass(v, k)
    /\ UNCHANGED <<status, content>>

Validate(v) ==
    /\ Becomes(v, "PENDING_APPROVAL", "VALIDATED")
    /\ Pass(v, N)
    /\ UNCHANGED content

Reject(v) ==
    /\ Becomes(v, "PENDING_APPROVAL", "REJECTED")
    /\ UNCHANGED <<content, passed>>

Discard(v) ==
    /\ Becomes(v, "DRAFT", "ARCHIVED")
    /\ UNCHANGED <<content, passed>>

\* A new draft w is made of the validated version v.
Revise(v, w) ==
    /\ status[v] = "VALIDATED"
    /\ Becomes(w, "ABSENT", "DRAFT")
    /\ content' = [content EXCEPT ![w] = content[v]]
    /\ UNCHANGED passed

Init ==
    /\ status = [v \in Versions |-> "ABSENT"]
    /\ content \in [Versions -> Contents]
    /\ passed = [v \in Versions |-> {}]

Next ==
    \/ \E t \in Contents : Create(t)
    \/ \E v \in Versions, t \in Contents : Edit(v, t)
    \/ \E v \in Versions : Submit(v)
    \/ \E v \in Versions, k \in 1..N : Approve(v, k)
    \/ \E v \in Versions : Validate(v)
    \/ \E v \in Versions : Reject(v)
    \/ \E v \in Versions : Discard(v)
    \/ \E v, w \in Versions : Revise(v, w)

Spec == Init /\ [][Next]_circuit
=============================================================================
