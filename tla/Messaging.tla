------------------------------ MODULE Messaging ------------------------------
(***************************************************************************)
(* Conversations, their messages and the sockets that follow them:         *)
(* CreateMessage, UpdateMessage, DeleteMessage, MarkMessagesAsRead (from   *)
(* the route or from a socket that joins a room) and socketService.  A     *)
(* message is only ever seen in two ways, pushed to the room of its        *)
(* conversation or counted as unread in the inbox, and the two are fed by  *)
(* different steps of the request that writes it.  Message texts are left  *)
(* out; what UpdateMessage writes back of the copy it read is not.         *)
(***************************************************************************)
EXTENDS Naturals, FiniteSets

CONSTANTS
    Users, ConversationIds, MessageIds, Requests, None,
    Listeners       \* the users who open a socket

\* What is asked of the constants; the module of each run asserts it of its values.
MessagingAssumption ==
    /\ IsFiniteSet(Requests) /\ IsFiniteSet(ConversationIds) /\ Listeners \subseteq Users
    /\ None \notin Users \cup ConversationIds \cup MessageIds

VARIABLES
    conversations,  \* the documents of the two collections
    messages,
    sockets,        \* the users connected, each with the rooms it has joined
    pushed,         \* the messages a user's socket has been sent since it connected
    excused,        \* pairs <<u, m>> whose message u is not owed (see InboxAgrees);
                    \* this and pushed are history, kept for stored messages
    req

vars == <<conversations, messages, sockets, pushed, excused, req>>

NoConversation == [participants |-> {}, last |-> None]
Absent  == [conversation |-> None, sender |-> None, readBy |-> {}, gone |-> FALSE]
Removed == [Absent EXCEPT !.gone = TRUE]
Offline == [connected |-> FALSE, rooms |-> {}]

Conversations == [participants : SUBSET Users, last : MessageIds \cup {None}]

Messages ==
    [conversation : ConversationIds, sender : Users, readBy : SUBSET Users,
     gone : {FALSE}] \cup {Absent, Removed}

Sockets == [connected : BOOLEAN, rooms : SUBSET ConversationIds]

Idle == [pc |-> "idle", user |-> None, other |-> None, conversation |-> None,
         message |-> None, next |-> Absent, ids |-> {}]

Local ==
    [pc           : {"idle", "create:conversation", "create:find", "create:save",
                     "create:last", "create:publish", "update:write", "delete:write",
                     "mark:find", "mark:write"},
     user         : Users \cup {None},
     other        : Users \cup {None},
     conversation : ConversationIds \cup {None},
     message      : MessageIds \cup {None},
     next         : Messages,               \* the entity about to be written
     ids          : SUBSET MessageIds]      \* the unread ids that were found

TypeOK ==
    /\ conversations \in [ConversationIds -> Conversations]
    /\ messages \in [MessageIds -> Messages]
    /\ sockets \in [Listeners -> Sockets]
    /\ pushed \in [Listeners -> SUBSET MessageIds]
    /\ excused \subseteq Listeners \X MessageIds
    /\ req \in [Requests -> Local]

Init ==
    /\ conversations = [c \in ConversationIds |-> NoConversation]
    /\ messages = [m \in MessageIds |-> Absent]
    /\ sockets = [u \in Listeners |-> Offline]
    /\ pushed = [u \in Listeners |-> {}]
    /\ excused = {}
    /\ req = [r \in Requests |-> Idle]

-----------------------------------------------------------------------------
(* Entities and repository operations                                      *)

stored(m) == messages[m] \notin {Absent, Removed}

exists(c) == conversations[c] # NoConversation

isParticipant(c, u) == u \in conversations[c].participants

create(c, u) == [conversation |-> c, sender |-> u, readBy |-> {}, gone |-> FALSE]

belongsTo(m, u) == stored(m) /\ messages[m].sender = u

\* Faulty variant: an edited message is taken for a new one.
withContentAsNew(message) == [message EXCEPT !.readBy = {}]

\* The content changes, the rest of the copy is kept.
withContent(message) == message

\* $all: a conversation of u with anybody matches when u writes to themself.
findBetweenUsers(u, v) ==
    {c \in ConversationIds : {u, v} \subseteq conversations[c].participants
                             /\ exists(c)}

\* The unread messages of a user in a conversation, as the inbox counts them.
unread(c, u) ==
    {m \in MessageIds : /\ stored(m) /\ messages[m].conversation = c
                        /\ messages[m].sender # u /\ u \notin messages[m].readBy}

hasUnreadInConversation(c, u) == unread(c, u) # {}

findIdsForUser(u) == {c \in ConversationIds : isParticipant(c, u)}

\* The badge of the notification page.
countForUser(u) == Cardinality({c \in findIdsForUser(u) : hasUnreadInConversation(c, u)})

\* updateOne with the whole entity: nothing happens when it has been removed.
update(m, next) ==
    messages' = IF stored(m) THEN [messages EXCEPT ![m] = next] ELSE messages

updateLastMessage(c, m) ==
    conversations' = [conversations EXCEPT ![c].last = m]

-----------------------------------------------------------------------------
(* Requests                                                                *)

goto(r, pc) == req' = [req EXCEPT ![r].pc = pc]
finish(r)   == req' = [req EXCEPT ![r] = Idle]
stores      == <<conversations, messages>>
realtime    == <<sockets, pushed>>

\* Every throw after the first operation, and a crash.  Nobody is owed a push of
\* a message whose request stops here, nor a reading that stops here.
RequestFail(r) ==
    /\ req[r] # Idle
    /\ excused' = excused \cup
            IF req[r].pc \in {"mark:find", "mark:write"}
            THEN (Listeners \cap {req[r].user}) \X {m \in MessageIds : stored(m)}
            ELSE Listeners \X {m \in MessageIds : m = req[r].message /\ stored(m)}
    /\ finish(r)
    /\ UNCHANGED <<stores, realtime>>

(* CreateMessage *)

CreateFindBetween(r) ==
    /\ req[r] = Idle
    /\ \E u, v \in Users :
        LET found == findBetweenUsers(u, v) IN
        \/ /\ found = {}
           /\ req' = [req EXCEPT ![r] = [Idle EXCEPT !.pc = "create:conversation",
                                                     !.user = u, !.other = v]]
        \/ \E c \in found :
            req' = [req EXCEPT ![r] = [Idle EXCEPT !.pc = "create:save", !.user = u,
                                                   !.conversation = c]]
    /\ UNCHANGED <<stores, realtime, excused>>

CreateConversation(r) ==
    /\ req[r].pc = "create:conversation"
    /\ \E c \in ConversationIds :
        /\ ~exists(c)
        /\ conversations' = [conversations EXCEPT
                ![c].participants = {req[r].user, req[r].other}]
        /\ req' = [req EXCEPT ![r].pc = "create:find", ![r].conversation = c,
                              ![r].other = None]
    /\ UNCHANGED <<messages, realtime, excused>>

\* Nothing removes a conversation, so it is found.
CreateFind(r) ==
    /\ req[r].pc = "create:find"
    /\ exists(req[r].conversation)
    /\ goto(r, "create:save")
    /\ UNCHANGED <<stores, realtime, excused>>

CreateSave(r) ==
    /\ req[r].pc = "create:save"
    /\ \E m \in MessageIds :
        /\ messages[m] = Absent
        /\ messages' = [messages EXCEPT ![m] = create(req[r].conversation, req[r].user)]
        /\ req' = [req EXCEPT ![r].pc = "create:last", ![r].message = m]
    /\ UNCHANGED <<conversations, realtime, excused>>

CreateUpdateLast(r) ==
    /\ req[r].pc = "create:last"
    /\ updateLastMessage(req[r].conversation, req[r].message)
    /\ goto(r, "create:publish")
    /\ UNCHANGED <<messages, realtime, excused>>

\* findPopulatedById, and emitNewMessage in the same turn when it is still there.
CreatePublish(r) ==
    /\ req[r].pc = "create:publish"
    /\ pushed' = [u \in Listeners |->
            IF req[r].conversation \in sockets[u].rooms /\ stored(req[r].message)
            THEN pushed[u] \cup {req[r].message} ELSE pushed[u]]
    /\ finish(r)
    /\ UNCHANGED <<stores, sockets, excused>>

(* UpdateMessage and DeleteMessage *)

UpdateFind(r) ==
    /\ req[r] = Idle
    /\ \E m \in MessageIds, u \in Users :
        /\ belongsTo(m, u)
        /\ req' = [req EXCEPT ![r] = [Idle EXCEPT !.pc = "update:write", !.message = m,
                                                  !.next = withContent(messages[m])]]
    /\ UNCHANGED <<stores, realtime, excused>>

\* The copy that was read is written back: a reading recorded in between is lost.
UpdateWrite(r) ==
    /\ req[r].pc = "update:write"
    /\ update(req[r].message, req[r].next)
    /\ excused' = excused \cup
            (((messages[req[r].message].readBy \ req[r].next.readBy) \cap Listeners)
                \X {req[r].message})
    /\ finish(r)
    /\ UNCHANGED <<conversations, realtime>>

DeleteFind(r) ==
    /\ req[r] = Idle
    /\ \E m \in MessageIds, u \in Users :
        /\ belongsTo(m, u)
        /\ req' = [req EXCEPT ![r] = [Idle EXCEPT !.pc = "delete:write", !.message = m]]
    /\ UNCHANGED <<stores, realtime, excused>>

\* The last message of a conversation may be one that is gone: the inbox then
\* shows none.
DeleteWrite(r) ==
    /\ req[r].pc = "delete:write"
    /\ messages' = [messages EXCEPT ![req[r].message] = Removed]
    /\ pushed' = [u \in Listeners |-> pushed[u] \ {req[r].message}]
    /\ excused' = {pair \in excused : pair[2] # req[r].message}
    /\ finish(r)
    /\ UNCHANGED <<conversations, sockets>>

(* MarkMessagesAsRead *)

\* The route and the socket event: the conversation, then the participant; the
\* route answers an error to anybody else, the socket logs it.
MarkBy(r, u, c) ==
    IF isParticipant(c, u)
    THEN req' = [req EXCEPT ![r] = [Idle EXCEPT !.pc = "mark:find", !.user = u,
                                               !.conversation = c]]
    ELSE UNCHANGED req

Mark(r) ==
    /\ req[r] = Idle
    /\ \E u \in Users, c \in ConversationIds : exists(c) /\ MarkBy(r, u, c)
    /\ UNCHANGED <<stores, realtime, excused>>

markConversationAsReadFind(r) ==
    /\ req[r].pc = "mark:find"
    /\ LET ids == unread(req[r].conversation, req[r].user) IN
        IF ids = {} THEN finish(r)
        ELSE req' = [req EXCEPT ![r].pc = "mark:write", ![r].ids = ids]
    /\ UNCHANGED <<stores, realtime, excused>>

\* $addToSet on what is left of the ids.
markConversationAsReadWrite(r) ==
    /\ req[r].pc = "mark:write"
    /\ messages' = [m \in MessageIds |->
            IF m \in req[r].ids /\ stored(m)
            THEN [messages[m] EXCEPT !.readBy = @ \cup {req[r].user}] ELSE messages[m]]
    /\ finish(r)
    /\ UNCHANGED <<conversations, realtime, excused>>

-----------------------------------------------------------------------------
(* Sockets                                                                 *)

Connect(u) ==
    /\ ~sockets[u].connected
    /\ sockets' = [sockets EXCEPT ![u].connected = TRUE]
    /\ UNCHANGED <<stores, pushed, excused, req>>

\* Faulty variant: joining does not read what is already there.
JoinWithoutMark(r, u, c) ==
    /\ req[r] = Idle
    /\ sockets[u].connected /\ exists(c)
    /\ sockets' = [sockets EXCEPT ![u].rooms = @ \cup {c}]
    /\ UNCHANGED <<stores, pushed, excused, req>>

\* The socket is in the room before the messages waiting there are marked.
JoinConversation(r, u, c) ==
    /\ req[r] = Idle
    /\ sockets[u].connected /\ exists(c)
    /\ MarkBy(r, u, c)
    /\ sockets' = [sockets EXCEPT ![u].rooms = @ \cup {c}]
    /\ UNCHANGED <<stores, pushed, excused>>

LeaveConversation(u, c) ==
    /\ c \in sockets[u].rooms
    /\ sockets' = [sockets EXCEPT ![u].rooms = @ \ {c}]
    /\ UNCHANGED <<stores, pushed, excused, req>>

Disconnect(u) ==
    /\ sockets[u].connected
    /\ sockets' = [sockets EXCEPT ![u] = Offline]
    /\ pushed' = [pushed EXCEPT ![u] = {}]
    /\ UNCHANGED <<stores, excused, req>>

-----------------------------------------------------------------------------

Step(r) ==
    \/ CreateFindBetween(r) \/ CreateConversation(r) \/ CreateFind(r)
    \/ CreateSave(r) \/ CreateUpdateLast(r) \/ CreatePublish(r)
    \/ UpdateFind(r) \/ UpdateWrite(r) \/ DeleteFind(r) \/ DeleteWrite(r)
    \/ Mark(r) \/ markConversationAsReadFind(r) \/ markConversationAsReadWrite(r)
    \/ \E u \in Listeners, c \in ConversationIds : JoinConversation(r, u, c)
    \/ RequestFail(r)

SocketStep(u) ==
    \/ Connect(u) \/ Disconnect(u)
    \/ \E c \in ConversationIds : LeaveConversation(u, c)

Next == (\E r \in Requests : Step(r)) \/ (\E u \in Listeners : SocketStep(u))

Spec == Init /\ [][Next]_vars

-----------------------------------------------------------------------------
(* Safety                                                                  *)

\* Whoever is in the room of a conversation they take part in has been pushed
\* every message the inbox still counts as unread for them: a message that is
\* saved while they join is either marked by the join or pushed to the room
\* (socketService.ts:112-137, CreateMessage:52-64).  Owed are neither the
\* messages of a request still in flight or interrupted, nor a reading that is
\* in flight, failed or was written over by an edit of an older copy.
InboxAgrees ==
    \A u \in Listeners, c \in ConversationIds :
        /\ c \in sockets[u].rooms /\ isParticipant(c, u)
        /\ ~ \E r \in Requests : /\ req[r].pc \in {"mark:find", "mark:write"}
                                 /\ req[r].user = u /\ req[r].conversation = c
        => \A m \in unread(c, u) :
            \/ m \in pushed[u] \/ <<u, m>> \in excused
            \/ \E r \in Requests : /\ req[r].pc \in {"create:last", "create:publish"}
                                   /\ req[r].message = m

\* A pair of users has one conversation when requests are served one by one, and
\* no more than requests may be in flight when they overlap: nothing but the
\* look-up before the save holds them back (CreateMessage:27-36).
ConversationsBounded ==
    \A u, v \in Users :
        Cardinality({c \in ConversationIds : conversations[c].participants = {u, v}})
            <= Cardinality(Requests)

\* With one request at a time, a message that was read is not unread again
\* (UpdateMessage:32 writes back the readers of the copy), and the badge grows with
\* a new message only (MongooseUnreadConversationCounter.adapter.ts:14-29).
ReadingsKept ==
    /\ \A u \in Users, c \in ConversationIds :
        unread(c, u)' \subseteq unread(c, u) \cup {m \in MessageIds : ~stored(m)}
    /\ \A u \in Users :
        countForUser(u)' > countForUser(u) => \E m \in MessageIds : ~stored(m) /\ stored(m)'
=============================================================================
