----------------------------- MODULE MCSyncRuns -----------------------------
(* Instances of SyncRuns and of BioTimeClient for TLC. A pull is, for the   *)
(* run control, work that ends or never does, so the two are explored one   *)
(* at a time: part says which one acts, and the other one stands still.     *)
EXTENDS SyncRuns, BioTimeClient, TLC

CONSTANTS h1, h2    \* the elements of Requests

VARIABLE part

mcVars == <<part, vars, clientVars>>

\* Two calls of a kind, or a listing beside anything.
Mixes == {<<"list", "list">>, <<"write", "write">>, <<"list", "write">>, <<"list", "asset">>}

MCInit ==
    /\ part \in {"runs", "client"}
    /\ Init /\ ClientInit
    /\ <<call[h1].kind, call[h2].kind>> \in Mixes
    /\ part = "runs" => licensed /\ \A c \in Requests : call[c].kind = "list"

RunsNext == part = "runs" /\ Next /\ UNCHANGED <<part, clientVars>>
ExchangesNext == part = "client" /\ ClientNext /\ UNCHANGED <<part, vars>>

\* The fairness of SyncRuns and that of BioTimeClient, each for its part.
MCFairness ==
    /\ WF_mcVars(part = "runs" /\ Poll /\ UNCHANGED <<part, clientVars>>)
    /\ \A c \in Calls :
        /\ WF_mcVars(part = "runs" /\ Step(c) /\ UNCHANGED <<part, clientVars>>)
        /\ WF_mcVars(part = "runs" /\ TimesOut(c) /\ UNCHANGED <<part, clientVars>>)
        /\ WF_mcVars(part = "runs" /\ Expire(c) /\ UNCHANGED <<part, clientVars>>)
    /\ \A c \in Requests :
        WF_mcVars(part = "client" /\ Exchange(c) /\ UNCHANGED <<part, vars>>)

MCSpec == MCInit /\ [][RunsNext \/ ExchangesNext]_mcVars /\ MCFairness

\* Runs and calls end, whatever BioTime answers or does not answer.
EverythingEnds == RunningRowCloses /\ CallsEnd
=============================================================================
