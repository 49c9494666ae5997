--------------------------- MODULE BioTimeClient ---------------------------
(* The HTTP client of BioTime: one token shared by all calls, renewed when  *)
(* BioTime answers 401, and the licence reactivated when it answers 403.    *)
(* Every wait for an answer is a step, so calls interleave at each of them. *)
EXTENDS Naturals, SequencesExt

CONSTANTS
    Requests,       \* the calls of the client, overlapping or not
    Purposes,       \* what they do: a subset of {"list", "write", "asset"}
    Rows,        \* 1..n, the rows BioTime lists at first, one to a page
    New,         \* the row it may list later
    MaxPages,    \* BIOTIME_MAX_PAGES_PER_REQUEST
    Candidates,  \* login endpoints, tried in order from 1
    Accepts,     \* those whose tokens BioTime accepts afterwards
    MaxExpiries, \* bound: how often BioTime forgets its tokens
    MaxLapses,   \* bound: how often the licence lapses
    None

ASSUME ClientAssumption ==
    /\ Cardinality(Rows) \in Nat /\ Rows = 1..Cardinality(Rows)
    /\ New \notin Rows
    /\ Candidates \in Nat \ {0}
    /\ MaxExpiries \in Nat /\ MaxLapses \in Nat

VARIABLES
    token,    \* the token held: the endpoint it is from and its epoch, or None
    epoch,    \* BioTime: tokens of earlier epochs are refused with 401
    licensed, \* BioTime: without a licence everything is refused with 403
    lapses,
    stock,    \* BioTime: the rows it lists, in order
    call,     \* the local state of each call
    executed  \* BioTime: how often it has carried out the write of each call

biotime == <<epoch, licensed, lapses, stock>>
clientVars == <<token, biotime, call, executed>>

NewCall(k) ==
    [kind |-> k, pc |-> "idle", page |-> 1, visited |-> {}, rows |-> <<>>,
     present |-> {}, shifted |-> FALSE, reauthenticated |-> FALSE, relicensed |-> FALSE, sent |-> None, frames |-> <<>>]

ClientInit ==
    /\ token = None
    /\ epoch = 0
    /\ licensed \in BOOLEAN
    /\ lapses = 0
    /\ stock = [i \in Rows |-> i]
    /\ call \in [Requests -> {NewCall(k) : k \in Purposes}]
    /\ executed = [c \in Requests |-> 0]

----------------------------------------------------------------------------
(* The request itself, with the token held at the moment it is sent.        *)

\* The call ends, and forgets all but what it returns.
Throws(r) == [NewCall(r.kind) EXCEPT !.pc = "thrown"]

Returned(r) ==
    [NewCall(r.kind) EXCEPT !.pc = "returned", !.rows = r.rows, !.present = r.present,
                            !.shifted = r.shifted]

\* A page is asked once only, and no page after the limit.
Blocked(r) ==
    /\ r.kind = "list"
    /\ r.page \in r.visited \/ r.page > MaxPages

Send(r, t) ==
    IF Blocked(r)
    THEN Throws(r)
    ELSE [r EXCEPT !.pc = "request", !.sent = t, !.visited = @ \cup {r.page},
                   !.frames = <<>>]

(* authenticate(): frames holds the calls of it on the stack, each with the *)
(* candidate it tries and whether it was made by a reactivation.            *)

\* A reactivation forgets that it was one, and the calls it nests in.
MutPush(r, once) ==
    [r EXCEPT !.pc = "login", !.frames = <<[cand |-> 1, once |-> FALSE]>>]

Push(r, once) == [r EXCEPT !.pc = "login", !.frames = Append(@, [cand |-> 1, once |-> once])]

\* A candidate failed. The loop goes on with the next one; an exhausted loop
\* throws, which fails the reactivation it was made by, and the loop around it,
\* if any, goes on with its next candidate.
NextCandidate(r) ==
    LET left == {i \in DOMAIN r.frames : r.frames[i].cand < Candidates}
        last == CHOOSE i \in left : \A j \in left : j <= i
    IN  IF left = {}
        THEN Throws(r)
        ELSE [r EXCEPT !.pc = "login",
                       !.frames = [i \in 1..last |->
                           IF i = last THEN [r.frames[i] EXCEPT !.cand = @ + 1]
                           ELSE r.frames[i]]]

Top(r) == r.frames[Len(r.frames)]

Goes(c, r) == call' = [call EXCEPT ![c] = r]

\* A call starts with authenticate(), which returns at once when a token is held.
Begin(c) ==
    /\ call[c].pc = "idle"
    /\ Goes(c, IF token = None THEN Push(call[c], FALSE) ELSE Send(call[c], token))
    /\ UNCHANGED <<token, biotime, executed>>

\* The endpoint answers with a token, or with none, or not at all.
Login(c) ==
    /\ call[c].pc = "login"
    /\ \/ Goes(c, [call[c] EXCEPT !.pc = "verify"])
       \/ Goes(c, NextCandidate(call[c]))
    /\ UNCHANGED <<token, biotime, executed>>

\* verifyToken(): a token is kept only after a real request has succeeded with it.
Verified(c) ==
    /\ call[c].pc = "verify" /\ licensed /\ Top(call[c]).cand \in Accepts
    /\ token' = [cand |-> Top(call[c]).cand, epoch |-> epoch]
    /\ Goes(c, Send(call[c], token'))
    /\ UNCHANGED <<biotime, executed>>

\* The verification fails, by 401, for lack of an answer, or by a second 403.
NotVerified(c) ==
    /\ call[c].pc = "verify"
    /\ Goes(c, NextCandidate(call[c]))
    /\ UNCHANGED <<token, biotime, executed>>

\* A first 403: the licence is reactivated, the frame stays on the stack.
Forbidden(c) ==
    /\ call[c].pc = "verify" /\ ~licensed /\ ~Top(call[c]).once
    /\ Goes(c, [call[c] EXCEPT !.pc = "licence"])
    /\ UNCHANGED <<token, biotime, executed>>

\* reactivateLicenseAfter403() is answered by what looks like a success, and
\* authenticates anew.
Reactivated(c) ==
    /\ call[c].pc = "licence"
    /\ licensed' \in {licensed, TRUE}
    /\ token' = None
    /\ Goes(c, Push(call[c], TRUE))
    /\ UNCHANGED <<epoch, lapses, stock, executed>>

\* It fails: before the activation, or after it, on the audit record.
NotReactivated(c) ==
    /\ call[c].pc = "licence"
    /\ licensed' \in {licensed, TRUE}
    /\ Goes(c, NextCandidate(call[c]))
    /\ UNCHANGED <<token, epoch, lapses, stock, executed>>

----------------------------------------------------------------------------
(* The answers to the request.                                              *)

Accepted(t) == licensed /\ t # None /\ t.epoch = epoch /\ t.cand \in Accepts

\* The end of the listing is taken for one page earlier.
MutReceive(r) ==
    LET read == [r EXCEPT !.rows = IF r.page <= Len(stock) THEN Append(@, stock[r.page]) ELSE @,
                          !.present = IF r.page = 1 THEN ToSet(stock) ELSE @,
                          !.page = @ + 1]
    IN  IF r.kind # "list" THEN Returned(r)
        ELSE IF r.page + 1 < Len(stock) THEN Send(read, token)
        ELSE Returned(read)

\* The response is read: the loop of a listing asks for the next page, if the
\* answer names one, with the token held by now, which another call may have dropped.
Receive(r) ==
    LET read == [r EXCEPT !.rows = IF r.page <= Len(stock) THEN Append(@, stock[r.page]) ELSE @,
                          !.present = IF r.page = 1 THEN ToSet(stock) ELSE @,
                          !.page = @ + 1]
    IN  IF r.kind # "list" THEN Returned(r)
        ELSE IF r.page < Len(stock) THEN Send(read, token)
        ELSE Returned(read)

Executes(c) ==
    executed' = [executed EXCEPT ![c] = IF call[c].kind = "write" THEN @ + 1 ELSE @]

Answered(c) ==
    /\ call[c].pc = "request" /\ Accepted(call[c].sent)
    /\ Executes(c)
    /\ Goes(c, Receive(call[c]))
    /\ UNCHANGED <<token, biotime>>

\* BioTime handles the request, but its answer is lost or comes too late.
AnswerLost(c) ==
    /\ call[c].pc = "request" /\ Accepted(call[c].sent)
    /\ Executes(c)
    /\ Goes(c, Throws(call[c]))
    /\ UNCHANGED <<token, biotime>>

\* The request never arrives.
RequestLost(c) ==
    /\ call[c].pc = "request"
    /\ Goes(c, Throws(call[c]))
    /\ UNCHANGED <<token, biotime, executed>>

\* 403: the licence is reactivated once. An image is fetched otherwise.
RefusedFor403(c) ==
    /\ call[c].pc = "request" /\ ~licensed
    /\ Goes(c, IF call[c].kind = "asset" THEN [call[c] EXCEPT !.pc = "web"]
               ELSE IF call[c].relicensed THEN Throws(call[c])
               ELSE [call[c] EXCEPT !.pc = "licence", !.relicensed = TRUE])
    /\ UNCHANGED <<token, biotime, executed>>

\* 401: the token is dropped, whoever set it, and the call authenticates once.
RefusedFor401(c) ==
    /\ call[c].pc = "request" /\ licensed /\ ~Accepted(call[c].sent)
    /\ \/ /\ call[c].kind = "asset"
          /\ Goes(c, [call[c] EXCEPT !.pc = "web"])
          /\ UNCHANGED token
       \/ /\ call[c].kind # "asset" /\ call[c].reauthenticated
          /\ Goes(c, Throws(call[c]))
          /\ UNCHANGED token
       \/ /\ call[c].kind # "asset" /\ ~call[c].reauthenticated
          /\ token' = None
          /\ Goes(c, Push([call[c] EXCEPT !.reauthenticated = TRUE], FALSE))
    /\ UNCHANGED <<biotime, executed>>

\* An image that comes as a page is fetched again with a web session, which logs
\* in by itself.
AnsweredByPage(c) ==
    /\ call[c].pc = "request" /\ call[c].kind = "asset"
    /\ Goes(c, [call[c] EXCEPT !.pc = "web"])
    /\ UNCHANGED <<token, biotime, executed>>

WebSession(c) ==
    /\ call[c].pc = "web"
    /\ \E end \in {Returned(call[c]), Throws(call[c])} : Goes(c, end)
    /\ UNCHANGED <<token, biotime, executed>>

----------------------------------------------------------------------------
(* BioTime, and the reactivation by cron.                                   *)

TokensExpire ==
    /\ epoch < MaxExpiries
    /\ epoch' = epoch + 1
    /\ UNCHANGED <<token, licensed, lapses, stock, call, executed>>

LicenceLapses ==
    /\ licensed /\ lapses < MaxLapses
    /\ licensed' = FALSE
    /\ lapses' = lapses + 1
    /\ UNCHANGED <<token, epoch, stock, call, executed>>

ScheduledReactivation ==
    /\ ~licensed
    /\ licensed' = TRUE
    /\ UNCHANGED <<token, epoch, lapses, stock, call, executed>>

\* BioTime changes under a listing (once, as a bound): a row comes last, or the
\* rows move to other pages.
Listing == {c \in Requests : call[c].present # {} /\ call[c].pc # "returned"}

Changes ==
    /\ Listing # {} /\ stock = [i \in Rows |-> i]
    /\ \/ /\ stock' = Append(stock, New)
          /\ UNCHANGED call
       \/ /\ \/ stock' = <<New>> \o stock
             \/ stock # <<>> /\ stock' = Tail(stock)
          /\ call' = [c \in Requests |-> [call[c] EXCEPT !.shifted = c \in Listing]]
    /\ UNCHANGED <<token, epoch, licensed, lapses, executed>>

\* What a call does once it has begun: every request is answered or times out.
Exchange(c) ==
    \/ Login(c) \/ Verified(c) \/ NotVerified(c) \/ Forbidden(c)
    \/ Reactivated(c) \/ NotReactivated(c)
    \/ Answered(c) \/ AnswerLost(c) \/ RequestLost(c)
    \/ RefusedFor403(c) \/ RefusedFor401(c)
    \/ AnsweredByPage(c) \/ WebSession(c)

ClientNext ==
    \/ \E c \in Requests : Begin(c) \/ Exchange(c)
    \/ TokensExpire \/ LicenceLapses \/ ScheduledReactivation \/ Changes

ClientFairness == \A c \in Requests : WF_clientVars(Exchange(c))

ClientSpec == ClientInit /\ [][ClientNext]_clientVars /\ ClientFairness

----------------------------------------------------------------------------
(* Properties.                                                              *)

Tokens == [cand : 1..Candidates, epoch : 0..MaxExpiries]

Frame == [cand : 1..Candidates, once : BOOLEAN]

Listed == Rows \cup {New}

Call ==
    [kind : Purposes,
     pc : {"idle", "login", "verify", "licence", "request", "web", "returned", "thrown"},
     page : Nat \ {0}, visited : SUBSET Nat,
     rows : Seq(Listed), present : SUBSET Listed, shifted : BOOLEAN,
     reauthenticated : BOOLEAN, relicensed : BOOLEAN, sent : {None} \cup Tokens,
     frames : Seq(Frame)]

\* A reactivation does not cause another one: at most two calls of authenticate() nest.
Nested(r) ==
    /\ Len(r.frames) <= 2
    /\ Len(r.frames) = 2 => r.frames[2].once
    /\ r.pc \in {"login", "verify"} => r.frames # <<>>
    /\ r.pc \in {"idle", "request", "web"} => r.frames = <<>>
    /\ r.pc = "licence" /\ r.frames # <<>> => Len(r.frames) = 1 /\ ~r.frames[1].once

ClientTypeOK ==
    /\ token \in {None} \cup Tokens
    /\ epoch \in 0..MaxExpiries
    /\ licensed \in BOOLEAN
    /\ lapses \in 0..MaxLapses
    /\ stock \in Seq(Listed)
    /\ call \in [Requests -> Call]
    /\ \A c \in Requests : Nested(call[c])
    /\ executed \in [Requests -> Nat]

\* A write is resent after a refusal only, never after BioTime may have carried it
\* out: whatever expires, lapses or is lost on the way, an employee is not created
\* and a resignation not entered twice, and a write that returned was made
\* (requestWithAuth, which rethrows everything but a first 401 and a first 403).
WriteIsMadeOnce ==
    \A c \in Requests :
        /\ executed[c] <= 1
        /\ call[c].kind = "write" /\ call[c].pc = "returned" => executed[c] = 1

\* A listing that returns holds every row that was there from its first page on,
\* each once, whatever was refused and renewed between two pages, by this call or by
\* another one, unless rows moved to other pages meanwhile: asked by their number,
\* the pages then skip or repeat a row (paginatedGet).
ListingIsWhole ==
    \A c \in Requests :
        call[c].kind = "list" /\ call[c].pc = "returned" /\ ~call[c].shifted =>
            /\ call[c].present \subseteq ToSet(call[c].rows)
            /\ IsInjective(call[c].rows)

\* Calls that share a token make their writes once and lose no row of their listings
\* (requestWithAuth, paginatedGet).
CallsAreSound == WriteIsMadeOnce /\ ListingIsWhole

Ended(c) == call[c].pc \in {"returned", "thrown"}

\* Every call that has begun ends: the renewals that calls cause each other, and the nested
\* reactivations, cannot go on for ever (retriedAfterAuthFailure,
\* retriedAfterLicenseActivation). Needs that requests are answered or time out.
CallsEnd == []<>(\A c \in Requests : call[c].pc = "idle" \/ Ended(c))

\* "Si le token est rejeté (expiré / invalide), on ré-authentifie une seule fois
\* puis on relance" (biotime-client.service.ts:226): once the token is renewed, the
\* refused request is sent again.
RefusedIsRelaunched ==
    [][\A c \in Requests :
         call[c].reauthenticated /\ Verified(c) => call'[c].pc = "request"]_clientVars
=============================================================================
