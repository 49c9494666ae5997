---------------------------- MODULE UserAccounts ----------------------------
(***************************************************************************)
(* The accounts (src/apps/api/src/users/users.service.ts), their sessions  *)
(* (src/apps/api/src/auth/auth.service.ts) and what they are granted: the  *)
(* roles of a user, the permissions of a role (src/apps/api/src/roles/     *)
(* roles.service.ts, src/apps/api/src/administration/                      *)
(* administration.service.ts) and the sub-units a user may see.            *)
(*                                                                         *)
(* A list of grants is replaced in a transaction that deletes the rows its *)
(* statement saw and inserts those asked for (read committed): a delete    *)
(* waits for the rows another one has locked, and does not see what that   *)
(* one inserts.  The defaults are seeded without a transaction.            *)
(***************************************************************************)
EXTENDS Naturals, FiniteSets

CONSTANTS
    Holders, Sessions,   \* ids of users and sessions, some in use at first
    RoleCodes,           \* roles
    Codes,               \* permissions, those of Required among them
    Areas,               \* sub-units
    Defaults,            \* DEFAULT_ROLES: what the seeding gives each role
    AccountRequests,     \* requests under way at once
    MaxRequests          \* bound on the requests

ASSUME AccountAssumption ==
    /\ "none" \notin Holders
    /\ Defaults \in [RoleCodes -> SUBSET Codes]
    /\ MaxRequests \in Nat

VARIABLES
    account,       \* [Holders -> unborn, active, inactive]: users.is_active
    grants,        \* user_roles, role_permissions, user_sub_unit_access
    session,       \* sessions
    ended,         \* sessions that should answer no more (a history)
    accountCalls,  \* requests so far
    accountWork    \* what each request has read and has to write

accountVars == <<account, grants, session, ended, accountCalls, accountWork>>

-----------------------------------------------------------------------------
Lists == ({"roles", "areas"} \X Holders) \cup ({"permissions"} \X RoleCodes)

Things(t) == CASE t[1] = "roles" -> RoleCodes
               [] t[1] = "areas" -> Areas
               [] t[1] = "permissions" -> Codes

NoList == <<"none", "none">>
NoSession == [of |-> "none", at |-> "free", over |-> FALSE]

\* A session is pending until the hash of its token is written.
Session == [of : Holders \cup {"none"}, at : {"free", "pending", "open"}, over : BOOLEAN]

AccountWork == [op : {"none", "login", "deactivate", "grant", "seed"},
                at : {"begun", "deleting", "creating", "signing", "revoking"},
                of : Holders \cup {"none"}, list : Lists \cup {NoList},
                wanted : SUBSET (RoleCodes \cup Codes \cup Areas),
                seen : SUBSET (RoleCodes \cup Codes \cup Areas),  \* the rows it deletes
                waits : SUBSET AccountRequests,                    \* for their locks
                enabled : {"kept", "active", "inactive"},          \* isActive asked for
                todo : SUBSET RoleCodes,                           \* roles left to seed
                session : Sessions \cup {"none"},
                mixed : BOOLEAN]    \* its list was written since it deletes (a history)

NoWork == [op |-> "none", at |-> "begun", of |-> "none", list |-> NoList,
    wanted |-> {}, seen |-> {}, waits |-> {}, enabled |-> "kept", todo |-> {},
    session |-> "none", mixed |-> FALSE]

AccountTypeOK ==
    /\ account \in [Holders -> {"unborn", "active", "inactive"}]
    /\ grants \in [Lists -> SUBSET (RoleCodes \cup Codes \cup Areas)]
    /\ \A t \in Lists : grants[t] \subseteq Things(t)
    /\ session \in [Sessions -> Session]
    /\ ended \in SUBSET Sessions
    /\ accountCalls \in 0 .. MaxRequests
    /\ accountWork \in [AccountRequests -> AccountWork]

\* Users of one role, sessions of theirs, after a seeding (prisma/seed.ts).
AccountInit ==
    /\ account \in [Holders -> {"unborn", "active", "inactive"}]
    /\ \E u \in Holders : account[u] = "active"
    /\ session \in [Sessions -> {NoSession} \cup
          {[of |-> u, at |-> "open", over |-> FALSE] :
              u \in {v \in Holders : account[v] = "active"}}]
    /\ \E r \in RoleCodes : grants = [t \in Lists |->
          CASE t[1] = "permissions" -> Defaults[t[2]]
            [] t[1] = "roles" -> IF account[t[2]] = "active" THEN {r} ELSE {}
            [] t[1] = "areas" -> {}]
    /\ ended = {} /\ accountCalls = 0
    /\ accountWork = [q \in AccountRequests |-> NoWork]

-----------------------------------------------------------------------------
(* Who is asking: JwtStrategy, validateSession, PermissionsGuard           *)

\* Mutant of Answers: the revocation of the session is not looked at.
MutAnswers(s) == session[s].at = "open" /\ account[session[s].of] = "active"

Answers(s) ==
    /\ session[s].at = "open" /\ ~session[s].over
    /\ account[session[s].of] = "active"

\* toRequestUser: the permissions of all its roles.
Permissions(u) == UNION {grants[<<"permissions", r>>] : r \in grants[<<"roles", u>>]}

Required == [deactivate |-> "users.manage", roles |-> "users.manage",
    areas |-> "users.manage", permissions |-> "roles.manage",
    seed |-> "administration.manage"]

Permitted(what) ==
    \E s \in Sessions : Answers(s) /\ Required[what] \in Permissions(session[s].of)

AccountBegins(q, w) ==
    /\ accountWork[q].op = "none"
    /\ accountCalls < MaxRequests /\ accountCalls' = accountCalls + 1
    /\ accountWork' = [accountWork EXCEPT ![q] = w]

AccountEnds(q) == accountWork' = [accountWork EXCEPT ![q] = NoWork]

\* A request that fails between two writes leaves what it has written; a
\* transaction, nothing.
AccountFails(q) ==
    /\ accountWork[q].op # "none"
    /\ AccountEnds(q)
    /\ UNCHANGED <<account, grants, session, ended, accountCalls>>

-----------------------------------------------------------------------------
(* Sessions                                                                *)

\* login: the user is read and the password verified.
BeginsLogin(q, u) ==
    /\ account[u] = "active"
    /\ AccountBegins(q, [NoWork EXCEPT !.op = "login", !.of = u])
    /\ UNCHANGED <<account, grants, session, ended>>

OpensSession(q, s) ==
    /\ accountWork[q].op = "login" /\ accountWork[q].at = "begun" /\ session[s].at = "free"
    /\ session' = [session EXCEPT ![s] =
          [of |-> accountWork[q].of, at |-> "pending", over |-> FALSE]]
    /\ accountWork' = [accountWork EXCEPT ![q].at = "signing", ![q].session = s]
    /\ UNCHANGED <<account, grants, ended, accountCalls>>

SignsSession(q) ==
    /\ accountWork[q].op = "login" /\ accountWork[q].at = "signing"
    /\ session' = [session EXCEPT ![accountWork[q].session].at = "open"]
    /\ AccountEnds(q)
    /\ UNCHANGED <<account, grants, ended, accountCalls>>

\* logout: updateMany of the session, once it has answered.
Logout(s) ==
    /\ Answers(s)
    /\ session' = [session EXCEPT ![s].over = TRUE]
    /\ ended' = ended \cup {s}
    /\ UNCHANGED <<account, grants, accountCalls, accountWork>>

\* expiresAt is over.
Expires(s) ==
    /\ session[s].at # "free" /\ ~session[s].over
    /\ session' = [session EXCEPT ![s].over = TRUE]
    /\ UNCHANGED <<account, grants, ended, accountCalls, accountWork>>

BeginsDeactivation(q, u) ==
    /\ AccountBegins(q, [NoWork EXCEPT !.op = "deactivate", !.of = u])
    /\ Permitted("deactivate") /\ account[u] # "unborn"
    /\ UNCHANGED <<account, grants, session, ended>>

Deactivates(q) ==
    /\ accountWork[q].op = "deactivate" /\ accountWork[q].at = "begun"
    /\ account' = [account EXCEPT ![accountWork[q].of] = "inactive"]
    /\ accountWork' = [accountWork EXCEPT ![q].at = "revoking"]
    /\ UNCHANGED <<grants, session, ended, accountCalls>>

SessionsOf(u) == {s \in Sessions : session[s].of = u}

Revokes(q) ==
    /\ accountWork[q].op = "deactivate" /\ accountWork[q].at = "revoking"
    /\ LET revoked == SessionsOf(accountWork[q].of) IN
        /\ session' = [s \in Sessions |-> IF s \in revoked
                          THEN [session[s] EXCEPT !.over = TRUE] ELSE session[s]]
        /\ ended' = ended \cup revoked
    /\ AccountEnds(q)
    /\ UNCHANGED <<account, grants, accountCalls>>

-----------------------------------------------------------------------------
(* Grants                                                                  *)

\* create: the user and its roles are inserted together.
CreatesUser(u, roles) ==
    /\ accountCalls < MaxRequests /\ accountCalls' = accountCalls + 1
    /\ Permitted("roles") /\ account[u] = "unborn"
    /\ account' = [account EXCEPT ![u] = "active"]
    /\ grants' = [grants EXCEPT ![<<"roles", u>>] = roles]
    /\ UNCHANGED <<session, ended, accountWork>>

Born(t) == t[1] # "permissions" => account[t[2]] # "unborn"

\* update with roles, updateOrgAccess, updateRolePermissions: what is asked for
\* exists; update brings isActive too.
BeginsGrant(q, t, wanted, enabled) ==
    /\ enabled # "kept" => t[1] = "roles"
    /\ AccountBegins(q, [NoWork EXCEPT !.op = "grant", !.list = t, !.wanted = wanted,
                    !.enabled = enabled])
    /\ Permitted(t[1]) /\ Born(t)
    /\ UNCHANGED <<account, grants, session, ended>>

\* update without roles.
SetsActive(u, enabled) ==
    /\ accountCalls < MaxRequests /\ accountCalls' = accountCalls + 1
    /\ Permitted("roles") /\ account[u] # "unborn"
    /\ account' = [account EXCEPT ![u] = enabled]
    /\ UNCHANGED <<grants, session, ended, accountWork>>

Deleting(t) == {q \in AccountRequests : accountWork[q].list = t /\ accountWork[q].at = "deleting"}

\* Nobody waits for a former transaction of q.
Unlocked(q) == [p \in AccountRequests |-> [accountWork[p] EXCEPT !.waits = @ \ {q}]]

\* The delete takes its rows, and waits for those another one holds.
Deletes(q) ==
    /\ accountWork[q].op \in {"grant", "seed"} /\ accountWork[q].at = "begun"
    /\ accountWork[q].list # NoList
    /\ LET t == accountWork[q].list IN
       accountWork' = [Unlocked(q) EXCEPT ![q].at = "deleting", ![q].seen = grants[t],
          ![q].waits = {p \in Deleting(t) : accountWork[p].seen \cap grants[t] # {}}]
    /\ UNCHANGED <<account, grants, session, ended, accountCalls>>

Locked(q) == \E p \in accountWork[q].waits : p \in Deleting(accountWork[q].list)

\* The others that delete from t find gone the rows this one has deleted.
Mixed(q, t, gone) ==
    [p \in AccountRequests |-> IF p # q /\ accountWork[p].list = t /\ accountWork[p].at # "begun"
        THEN [accountWork[p] EXCEPT !.seen = @ \ gone, !.mixed = TRUE] ELSE accountWork[p]]

\* Mutant of Replaced: the rows are inserted beside those that are there.
MutReplaced(rows, seen, wanted) == rows \cup wanted

Replaced(rows, seen, wanted) == (rows \ seen) \cup wanted

\* The transaction inserts (skipDuplicates), changes the user and commits.
Commits(q) ==
    /\ accountWork[q].op = "grant" /\ accountWork[q].at = "deleting" /\ ~Locked(q)
    /\ LET w == accountWork[q] IN
        /\ grants' = [grants EXCEPT ![w.list] = Replaced(@, w.seen, w.wanted)]
        /\ account' = IF w.enabled = "kept" THEN account
                     ELSE [account EXCEPT ![w.list[2]] = w.enabled]
        /\ accountWork' = [Mixed(q, w.list, w.seen) EXCEPT ![q] = NoWork]
    /\ UNCHANGED <<session, ended, accountCalls>>

\* seedDefaults: one role after the other, in the order of DEFAULT_ROLES.
BeginsSeed(q) ==
    /\ \E r \in RoleCodes : AccountBegins(q, [NoWork EXCEPT !.op = "seed",
          !.list = <<"permissions", r>>, !.wanted = Defaults[r], !.todo = RoleCodes \ {r}])
    /\ Permitted("seed")
    /\ UNCHANGED <<account, grants, session, ended>>

\* The delete of the seeding commits by itself...
Empties(q) ==
    /\ accountWork[q].op = "seed" /\ accountWork[q].at = "deleting" /\ ~Locked(q)
    /\ LET w == accountWork[q] IN
        /\ grants' = [grants EXCEPT ![w.list] = @ \ w.seen]
        /\ accountWork' = [Mixed(q, w.list, w.seen) EXCEPT ![q].at = "creating"]
    /\ UNCHANGED <<account, session, ended, accountCalls>>

\* ... and so does its insert.
Seeds(q) ==
    /\ accountWork[q].op = "seed" /\ accountWork[q].at = "creating"
    /\ LET w == accountWork[q] IN
        /\ grants' = [grants EXCEPT ![w.list] = @ \cup w.wanted]
        /\ \/ w.todo = {} /\ accountWork' = [Mixed(q, w.list, {}) EXCEPT ![q] = NoWork]
           \/ \E r \in w.todo : accountWork' = [Mixed(q, w.list, {}) EXCEPT
                 ![q] = [NoWork EXCEPT !.op = "seed", !.list = <<"permissions", r>>,
                           !.wanted = Defaults[r], !.todo = w.todo \ {r}]]
    /\ UNCHANGED <<account, session, ended, accountCalls>>

-----------------------------------------------------------------------------
AccountNext ==
    \/ \E q \in AccountRequests, u \in Holders : BeginsLogin(q, u) \/ BeginsDeactivation(q, u)
    \/ \E q \in AccountRequests, s \in Sessions : OpensSession(q, s)
    \/ \E s \in Sessions : Logout(s) \/ Expires(s)
    \/ \E q \in AccountRequests : SignsSession(q) \/ Deactivates(q) \/ Revokes(q) \/ AccountFails(q)
    \/ \E u \in Holders, roles \in SUBSET RoleCodes : CreatesUser(u, roles)
    \/ \E u \in Holders, enabled \in {"active", "inactive"} : SetsActive(u, enabled)
    \/ \E q \in AccountRequests, t \in Lists, enabled \in {"kept", "active", "inactive"} :
          \E wanted \in SUBSET Things(t) : BeginsGrant(q, t, wanted, enabled)
    \/ \E q \in AccountRequests : BeginsSeed(q) \/ Deletes(q)
    \/ \E q \in AccountRequests : Commits(q) \/ Empties(q) \/ Seeds(q)

AccountSpec == AccountInit /\ [][AccountNext]_accountVars

-----------------------------------------------------------------------------
(* Properties                                                              *)

\* A session answers no more once its user has logged out or a deactivation of
\* his account is complete, even if the account is enabled again (deactivate,
\* logout, validateSession).
EndedForGood == \A s \in ended : ~Answers(s)

GrantIsWhole(t) ==
    grants[t] # grants'[t] =>
        \/ ~Born(t)
        \/ \E q \in AccountRequests : accountWork[q].list = t /\
              \/ grants'[t] = accountWork[q].wanted
              \/ accountWork[q].op = "seed" /\ grants'[t] = {}
              \/ accountWork[q].mixed

\* What a list grants is what one request asked for, and nothing is left of what
\* the list had before, unless the list was written by another while the
\* request was deleting; a seeding may leave a role without its permissions
\* (updateRolePermissions, updateOrgAccess, update, seedDefaults).
GrantsAreWhole == [][\A t \in Lists : GrantIsWhole(t)]_accountVars
=============================================================================
