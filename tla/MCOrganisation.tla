--------------------------- MODULE MCOrganisation ---------------------------
(* Instances of Organisation, UserAccounts and Messaging for TLC. None      *)
(* writes what another reads within one request, so they are explored one   *)
(* at a time: part says which one acts, and the others stand still.         *)
EXTENDS Organisation, UserAccounts, Messaging, TLC

CONSTANTS u1, u2, u3    \* the elements of Users

VARIABLE part

\* The administrator is granted everything, the other role nothing at first.
MCCodes == {"users.manage", "roles.manage", "administration.manage"}
MCDefaults == [r \in {"ADMIN", "OTHER"} |-> IF r = "ADMIN" THEN MCCodes ELSE {}]
\* HR in one user, a manager, an administrator.
MCRolesOf == u1 :> {"DRH", "GRH"} @@ u2 :> {"SUPERVISOR"} @@ u3 :> {"ADMIN"}

mcVars == <<part, orgVars, accountVars, chatVars>>

MCInit ==
    /\ part \in {"organisation", "accounts", "chat"}
    /\ OrgInit
    /\ part # "organisation" => /\ \A g \in Groups : group[g].status = "unborn"
                                /\ \A c \in Changes : change[c].status = "unborn"
    /\ AccountInit
    /\ part # "accounts" =>
          /\ \A u \in Holders : /\ account[u] = "active"
                                /\ "ADMIN" \in grants[<<"roles", u>>]
          /\ \A s \in Sessions : session[s].at = "free"
    /\ ChatInit
    /\ part # "chat" => reachable = {} /\ \A c \in Conversations : conversation[c].type = "unborn"

MCOrganisationNext == part = "organisation" /\ OrgNext /\ UNCHANGED <<part, accountVars, chatVars>>
MCAccountsNext == part = "accounts" /\ AccountNext /\ UNCHANGED <<part, orgVars, chatVars>>
MCChatNext == part = "chat" /\ ChatNext /\ UNCHANGED <<part, orgVars, accountVars>>

MCSpec == MCInit /\ [][MCOrganisationNext \/ MCAccountsNext \/ MCChatNext]_mcVars

\* The sets of two swap their elements; those of different parts swap together.
Id(S) == [x \in S |-> x]
Swap(S) == CHOOSE p \in Permutations(S) : \A x \in S : p[x] # x
Symmetry ==
    {f @@ g @@ h :
        f \in {Id(Groups \cup Holders \cup Conversations),
               Swap(Groups) @@ Swap(Holders) @@ Swap(Conversations)},
        g \in {Id(Changes \cup Sessions), Swap(Changes) @@ Swap(Sessions)},
        h \in Permutations(Requests)}
=============================================================================
