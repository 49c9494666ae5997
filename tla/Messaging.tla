----------------------------- MODULE Messaging ------------------------------
(***************************************************************************)
(* The conversations of the users (src/apps/api/src/chat/chat.service.ts)  *)
(* and the notifications they are sent (src/apps/api/src/notifications/    *)
(* notifications.service.ts).                                              *)
(*                                                                         *)
(* What a participant has read is a date, the clock of the process when he *)
(* marks the conversation read or sends a message; a message is dated when *)
(* its insert is issued.  Dates are issued and rows written apart.         *)
(***************************************************************************)
EXTENDS Naturals, FiniteSets

CONSTANTS
    Users,
    RolesOf,        \* their roles
    Conversations,  \* ids, of which some may be in use at first
    Messages,       \* ids
    ChatRequests,   \* requests under way at once
    MaxTime,        \* bound on the clock, in milliseconds
    MaxChatCalls    \* bound on the requests and the restarts

ASSUME ChatAssumption == "none" \notin Messages /\ MaxTime \in Nat \ {0} /\ MaxChatCalls \in Nat

VARIABLES
    reachable,     \* users.is_active
    conversation,  \* chat_conversations and chat_participants
    message,       \* chat_messages
    notice,        \* notifications of the messages
    clock,         \* the clock
    chatCalls,     \* requests so far
    chatWork,      \* what each request has to write
    caught,        \* messages being sent or there when a user dated his reading
    twins          \* direct conversations created beside one another (histories)

chatData == <<reachable, conversation, message, notice>>
chatVars == <<chatData, clock, chatCalls, chatWork, caught, twins>>

-----------------------------------------------------------------------------
Times == 0 .. MaxTime     \* 0 is null: never read

Conversation == [type : {"unborn", "DIRECT", "GROUP"},
                 participants : SUBSET Users, lastReadAt : [Users -> Times]]

Message == [at : {"unborn", "sending", "there", "lost"}, of : Users \cup {"none"},
            conversation : Conversations \cup {"none"}, createdAt : Times]

ChatWork == [op : {"none", "direct", "send", "mark"},
             at : {"begun", "inserted", "dated", "notifying"},
             by : Users \cup {"none"}, other : Users \cup {"none"},
             conversation : Conversations \cup {"none"}, message : Messages \cup {"none"},
             date : Times, recipients : SUBSET Users, late : BOOLEAN]

NoChat == [op |-> "none", at |-> "begun", by |-> "none", other |-> "none",
    conversation |-> "none", message |-> "none", date |-> 0, recipients |-> {},
    late |-> FALSE]

Unread == [u \in Users |-> 0]
NoConversation == [type |-> "unborn", participants |-> {}, lastReadAt |-> Unread]
NoMessage == [at |-> "unborn", of |-> "none", conversation |-> "none", createdAt |-> 0]

ChatTypeOK ==
    /\ reachable \in SUBSET Users
    /\ conversation \in [Conversations -> Conversation]
    /\ message \in [Messages -> Message]
    /\ notice \in [Messages -> [Users -> {"none", "unread", "read"}]]
    /\ clock \in 1 .. MaxTime /\ chatCalls \in 0 .. MaxChatCalls
    /\ chatWork \in [ChatRequests -> ChatWork]
    /\ caught \in SUBSET (Messages \X Users)
    /\ twins \in SUBSET Conversations

\* A group of some users, or nothing yet.
ChatInit ==
    /\ reachable \in SUBSET Users
    /\ \E c \in Conversations, S \in SUBSET Users :
        /\ Cardinality(S) # 1
        /\ conversation = [d \in Conversations |-> IF d = c /\ S # {}
              THEN [type |-> "GROUP", participants |-> S, lastReadAt |-> Unread]
              ELSE NoConversation]
    /\ message = [m \in Messages |-> NoMessage]
    /\ notice = [m \in Messages |-> [u \in Users |-> "none"]]
    /\ clock = 1 /\ chatCalls = 0 /\ chatWork = [q \in ChatRequests |-> NoChat]
    /\ caught = {} /\ twins = {}

-----------------------------------------------------------------------------
Ticks ==
    /\ clock < MaxTime /\ clock' = clock + 1
    /\ UNCHANGED <<chatData, chatCalls, chatWork, caught, twins>>

ChatCounts == chatCalls < MaxChatCalls /\ chatCalls' = chatCalls + 1

ChatBegins(q, w) ==
    /\ chatWork[q].op = "none" /\ ChatCounts
    /\ chatWork' = [chatWork EXCEPT ![q] = w]

\* isRhResponsableRoles, of the users looked at.
Responsables == {"RESPONSABLE_DEPARTEMENT", "RESPONSABLE_PLANNING_GROUPES", "SUPERVISOR"}

RhResponsable(S) ==
    LET roles == UNION {RolesOf[u] : u \in S} IN
    {"DRH", "GRH"} \subseteq roles /\ roles \cap Responsables # {}

Admins == {u \in reachable : "ADMIN" \in RolesOf[u]}

Created(type, S, by) ==
    [type |-> type, participants |-> S, lastReadAt |-> [Unread EXCEPT ![by] = clock]]

\* Mutant of DirectOf: a direct conversation that the other began is not found.
MutDirectOf(u, v) ==
    {c \in Conversations : /\ conversation[c].type = "DIRECT"
                           /\ conversation[c].participants = {u, v}
                           /\ conversation[c].lastReadAt[u] # 0}

DirectOf(u, v) ==
    {c \in Conversations : /\ conversation[c].type = "DIRECT"
                           /\ conversation[c].participants = {u, v}}

\* createDirect: one that exists is reused.
BeginsDirect(q, u, v) ==
    /\ u # v /\ v \in reachable /\ DirectOf(u, v) = {}
    /\ ChatBegins(q, [NoChat EXCEPT !.op = "direct", !.by = u, !.other = v])
    /\ UNCHANGED <<chatData, clock, caught, twins>>

SamePair(p, q) == {chatWork[p].by, chatWork[p].other} = {chatWork[q].by, chatWork[q].other}

CreatesDirect(q, c) ==
    /\ chatWork[q].op = "direct" /\ conversation[c].type = "unborn"
    /\ conversation' = [conversation EXCEPT ![c] =
          Created("DIRECT", {chatWork[q].by, chatWork[q].other}, chatWork[q].by)]
    /\ twins' = IF chatWork[q].late THEN twins \cup {c} ELSE twins
    /\ chatWork' = [p \in ChatRequests |-> IF p = q THEN NoChat
          ELSE [chatWork[p] EXCEPT !.late = @ \/ (chatWork[p].op = "direct" /\ SamePair(p, q))]]
    /\ UNCHANGED <<reachable, message, notice, clock, chatCalls, caught>>

\* createGroup: the administrators join the groups of HR and its managers.
CreatesGroup(u, S, c) ==
    /\ u \in S /\ S # {u} /\ conversation[c].type = "unborn"
    /\ conversation' = [conversation EXCEPT ![c] = Created("GROUP",
          IF RhResponsable(S \cap reachable) THEN S \cup Admins ELSE S, u)]
    /\ ChatCounts
    /\ UNCHANGED <<reachable, message, notice, clock, chatWork, caught, twins>>

-----------------------------------------------------------------------------
(* sendMessage, markRead: ensureParticipant, then the date and the row     *)

BeginsSend(q, u, c, m) ==
    /\ u \in conversation[c].participants /\ message[m].at = "unborn"
    /\ ChatBegins(q, [NoChat EXCEPT !.op = "send", !.by = u, !.conversation = c, !.message = m])
    /\ message' = [message EXCEPT ![m] = [at |-> "sending", of |-> u,
                       conversation |-> c, createdAt |-> clock]]
    /\ UNCHANGED <<reachable, conversation, notice, clock, caught, twins>>

Inserts(q) ==
    /\ chatWork[q].op = "send" /\ chatWork[q].at = "begun"
    /\ LET w == chatWork[q] IN
        /\ message' = [message EXCEPT ![w.message].at = "there"]
        /\ chatWork' = [chatWork EXCEPT ![q].at = "inserted",
              ![q].recipients = conversation[w.conversation].participants \ {w.by}]
    /\ UNCHANGED <<reachable, conversation, notice, clock, chatCalls, caught, twins>>

BeginsMark(q, u, c) ==
    /\ u \in conversation[c].participants
    /\ ChatBegins(q, [NoChat EXCEPT !.op = "mark", !.by = u, !.conversation = c])
    /\ UNCHANGED <<chatData, clock, caught, twins>>

Dates(q) ==
    /\ \/ chatWork[q].op = "mark" /\ chatWork[q].at = "begun"
       \/ chatWork[q].op = "send" /\ chatWork[q].at = "inserted"
    /\ chatWork' = [chatWork EXCEPT ![q].at = "dated", ![q].date = clock]
    /\ caught' = caught \cup {<<m, chatWork[q].by>> : m \in {x \in Messages :
          /\ message[x].conversation = chatWork[q].conversation
          /\ message[x].at \in {"sending", "there"}}}
    /\ UNCHANGED <<chatData, clock, chatCalls, twins>>

ReadBy(row, u, date) == [row EXCEPT !.lastReadAt[u] = date]

Marks(q) ==
    /\ chatWork[q].at = "dated"
    /\ LET w == chatWork[q] IN
        /\ conversation' = [conversation EXCEPT ![w.conversation] = ReadBy(@, w.by, w.date)]
        /\ chatWork' = [chatWork EXCEPT ![q] =
              IF w.op = "send" THEN [w EXCEPT !.at = "notifying"] ELSE NoChat]
    /\ UNCHANGED <<reachable, message, notice, clock, chatCalls, caught, twins>>

\* notify: one row for each of the participants read with the message.
Notifies(q) ==
    /\ chatWork[q].at = "notifying"
    /\ LET w == chatWork[q] IN notice' = [notice EXCEPT ![w.message] =
          [u \in Users |-> IF u \in w.recipients THEN "unread" ELSE @[u]]]
    /\ chatWork' = [chatWork EXCEPT ![q] = NoChat]
    /\ UNCHANGED <<reachable, conversation, message, clock, chatCalls, caught, twins>>

Lost(S) == [m \in Messages |->
    IF message[m].at = "sending" /\ \E q \in S : chatWork[q].message = m
    THEN [message[m] EXCEPT !.at = "lost"] ELSE message[m]]

ChatFails(q) ==
    /\ chatWork[q].op # "none"
    /\ message' = Lost({q})
    /\ chatWork' = [chatWork EXCEPT ![q] = NoChat]
    /\ UNCHANGED <<reachable, conversation, notice, clock, chatCalls, caught, twins>>

\* onModuleInit: the administrators join the groups they are not in, with
\* nothing read; a failure is only logged.
Restarts(joined) ==
    /\ conversation' = [c \in Conversations |->
          IF joined /\ conversation[c].type = "GROUP"
                    /\ RhResponsable(conversation[c].participants)
          THEN [conversation[c] EXCEPT !.participants = @ \cup Admins]
          ELSE conversation[c]]
    /\ message' = Lost(ChatRequests)
    /\ chatWork' = [q \in ChatRequests |-> NoChat]
    /\ ChatCounts
    /\ UNCHANGED <<reachable, notice, clock, caught, twins>>

-----------------------------------------------------------------------------
(* notifications: markRead, markAllRead                                    *)

ReadsNotice(u, m) ==
    /\ notice[m][u] = "unread"
    /\ notice' = [notice EXCEPT ![m][u] = "read"]
    /\ UNCHANGED <<reachable, conversation, message, clock, chatCalls, chatWork, caught, twins>>

ReadsAllNotices(u) ==
    /\ \E m \in Messages : notice[m][u] = "unread"
    /\ notice' = [m \in Messages |->
          [notice[m] EXCEPT ![u] = IF @ = "unread" THEN "read" ELSE @]]
    /\ UNCHANGED <<reachable, conversation, message, clock, chatCalls, chatWork, caught, twins>>

-----------------------------------------------------------------------------
ChatNext ==
    \/ Ticks
    \/ \E q \in ChatRequests, u, v \in Users : BeginsDirect(q, u, v)
    \/ \E q \in ChatRequests, c \in Conversations : CreatesDirect(q, c)
    \/ \E u \in Users, S \in SUBSET Users, c \in Conversations : CreatesGroup(u, S, c)
    \/ \E q \in ChatRequests, u \in Users, c \in Conversations :
          BeginsMark(q, u, c) \/ \E m \in Messages : BeginsSend(q, u, c, m)
    \/ \E q \in ChatRequests : Inserts(q) \/ Dates(q) \/ Marks(q) \/ Notifies(q) \/ ChatFails(q)
    \/ \E joined \in BOOLEAN : Restarts(joined)
    \/ \E u \in Users : ReadsAllNotices(u) \/ \E m \in Messages : ReadsNotice(u, m)

ChatSpec == ChatInit /\ [][ChatNext]_chatVars

-----------------------------------------------------------------------------
(* Properties                                                              *)

\* unreadCount, chatUnreadCount: the messages of others dated after the last
\* reading, or all of them.
Counted(u, m) ==
    /\ message[m].at = "there" /\ message[m].of # u
    /\ LET row == conversation[message[m].conversation] IN
        /\ u \in row.participants
        /\ row.lastReadAt[u] # 0 => message[m].createdAt > row.lastReadAt[u]

\* A message of another counts as unread until its reader has marked the
\* conversation read, or sent a message in it, when it was there or being sent;
\* but for those dated of the very millisecond of his reading.
UnreadIsKept ==
    \A m \in Messages : message[m].at = "there" =>
        LET row == conversation[message[m].conversation] IN
        \A u \in row.participants \ {message[m].of} :
            \/ Counted(u, m)
            \/ <<m, u>> \in caught
            \/ message[m].createdAt = row.lastReadAt[u]

\* Two users have one direct conversation, unless it was created while another
\* request had found none (createDirect).
OneDirect ==
    \A c, d \in Conversations : c # d /\ conversation[c].type = "DIRECT"
        /\ conversation[d].type = "DIRECT"
        /\ conversation[c].participants = conversation[d].participants
        => twins \cap {c, d} # {}

\* Both, whatever is sent, marked or created at once (conversations, createDirect).
ChatIsKept == UnreadIsKept /\ OneDirect
=============================================================================
