------------------------------- MODULE Inbox -------------------------------
(***************************************************************************)
(* A member's list of conversations: how a direct conversation is found or *)
(* created, and how many of a conversation's messages count as unread.     *)
(*                                                                         *)
(* Timestamps come from NOW(), the start of a transaction, while what it   *)
(* does shows when it commits: sends and reads take two steps. All is in   *)
(* one workspace. No code changes the members of a conversation later on.  *)
(***************************************************************************)
EXTENDS Naturals, FiniteSets

CONSTANTS
    User, Conv, MsgId,
    Call,         \* places for requests in flight, used again and again
    MaxTime       \* bound on the clock, for TLC

ASSUME InboxAssumption == MaxTime \in Nat \ {0} /\ IsFiniteSet(User)

VARIABLES
    now,          \* the clock
    convs,        \* public.conversations and its members; none: not created
    lastRead,     \* last_read_at of each member; 0 stands for -infinity
    msgs,         \* public.messages
    calls,        \* the requests in flight
    answered      \* the answers to requests for direct conversations

vars == <<now, convs, lastRead, msgs, calls, answered>>

Conversation == [type : {"none", "direct", "group"}, members : SUBSET User]
NoConversation == [type |-> "none", members |-> {}]

Message == [state : {"open", "scheduled", "sent", "deleted"},
            conv : Conv, sender : User, created : Nat]
Unsent == [state |-> "none"]

\* Who asks for what. A create has found no conversation; a send has inserted
\* msg and is to commit; a read is to be applied. alone: no other request for
\* the same two members was in flight at the same time.
Request == [kind : {"create"}, pair : SUBSET User, alone : BOOLEAN]
    \cup [kind : {"send"}, msg : MsgId, scheduled : BOOLEAN]
    \cup [kind : {"read"}, user : User, conv : Conv, at : Nat]
Free == [kind |-> "free"]

\* Request r has the transaction open that inserted m.
Sends(r, m) == calls[r].kind = "send" /\ calls[r].msg = m

TypeOK ==
    /\ now \in 1..MaxTime
    /\ convs \in [Conv -> Conversation]
    /\ \A c \in Conv : convs[c].type = "none" <=> convs[c].members = {}
    /\ lastRead \in [Conv -> [User -> 0..MaxTime]]
    /\ \A c \in Conv, u \in User : lastRead[c][u] # 0 => u \in convs[c].members
    /\ msgs \in [MsgId -> Message \cup {Unsent}]
    /\ \A m \in MsgId : msgs[m].state = "open" <=> \E r \in Call : Sends(r, m)
    /\ calls \in [Call -> Request \cup {Free}]
    /\ answered \subseteq [pair : SUBSET User, conv : Conv]

Init ==
    /\ now = 1
    /\ convs = [c \in Conv |-> NoConversation]
    /\ lastRead = [c \in Conv |-> [u \in User |-> 0]]
    /\ msgs = [m \in MsgId |-> Unsent]
    /\ calls = [r \in Call |-> Free]
    /\ answered = {}

IsMember(c, u) == u \in convs[c].members
Ends(r) == calls' = [calls EXCEPT ![r] = Free]

-----------------------------------------------------------------------------
(* Conversations                                                           *)

\* The member count of a chat with oneself is taken to be two; conversations
\* of any type are found.
DirectConversations_NoSelf(u, v) ==
    {c \in Conv : convs[c].type = "direct" /\ {u, v} \subseteq convs[c].members
                    /\ Cardinality(convs[c].members) = 2}
DirectConversations_AnyType(u, v) ==
    {c \in Conv : {u, v} \subseteq convs[c].members
                    /\ Cardinality(convs[c].members) = IF u = v THEN 1 ELSE 2}

\* What the query of FindDirectConversation can return (LIMIT 1, unordered).
DirectConversations(u, v) ==
    {c \in Conv : convs[c].type = "direct" /\ {u, v} \subseteq convs[c].members
                    /\ Cardinality(convs[c].members) = IF u = v THEN 1 ELSE 2}

\* CreateConversationHandler for a direct conversation: it is there and is the
\* answer, or it is to be created.
FindDirectConversation(r, u, v) ==
    LET rivals == {q \in Call : calls[q].kind = "create" /\ calls[q].pair = {u, v}} IN
    /\ calls[r] = Free
    /\ \/ \E c \in DirectConversations(u, v) :
             /\ answered' = answered \cup {[pair |-> {u, v}, conv |-> c]}
             /\ UNCHANGED calls
       \/ /\ DirectConversations(u, v) = {}
          /\ calls' = [q \in Call |->
                IF q = r THEN [kind |-> "create", pair |-> {u, v}, alone |-> rivals = {}]
                ELSE IF q \in rivals THEN [calls[q] EXCEPT !.alone = FALSE]
                ELSE calls[q]]
          /\ UNCHANGED answered
    /\ UNCHANGED <<now, convs, lastRead, msgs>>

CreateConversation(c, type, members) ==
    /\ convs[c] = NoConversation
    /\ convs' = [convs EXCEPT ![c] = [type |-> type, members |-> members]]
    /\ UNCHANGED <<now, lastRead, msgs>>

CreateDirect(r, c) ==
    /\ calls[r].kind = "create"
    /\ CreateConversation(c, "direct", calls[r].pair)
    /\ answered' = answered \cup {[pair |-> calls[r].pair, conv |-> c]}
    /\ Ends(r)

\* The creator, and at least one member id, which may be the creator's.
CreateGroup(c, u, others) ==
    /\ others # {}
    /\ CreateConversation(c, "group", {u} \cup others)
    /\ UNCHANGED <<calls, answered>>

-----------------------------------------------------------------------------
(* Messages                                                                *)

\* CreateMessage begins its transaction, NOW() is fixed, the row is inserted.
BeginSend(r, m, c, u, scheduled) ==
    /\ calls[r] = Free /\ IsMember(c, u) /\ msgs[m] = Unsent
    /\ msgs' = [msgs EXCEPT ![m] =
                  [state |-> "open", conv |-> c, sender |-> u, created |-> now]]
    /\ calls' = [calls EXCEPT ![r] =
                  [kind |-> "send", msg |-> m, scheduled |-> scheduled]]
    /\ UNCHANGED <<now, convs, lastRead, answered>>

CommitSend(r) ==
    /\ calls[r].kind = "send"
    /\ msgs' = [msgs EXCEPT ![calls[r].msg].state =
                  IF calls[r].scheduled THEN "scheduled" ELSE "sent"]
    /\ Ends(r)
    /\ UNCHANGED <<now, convs, lastRead, answered>>

\* The worker, some time after the message was written.
MarkMessageSent(m) ==
    /\ msgs[m].state = "scheduled" /\ now > msgs[m].created
    /\ msgs' = [msgs EXCEPT ![m].state = "sent"]
    /\ UNCHANGED <<now, convs, lastRead, calls, answered>>

DeleteMessage(m) ==
    /\ msgs[m].state \in {"scheduled", "sent"}
    /\ msgs' = [msgs EXCEPT ![m].state = "deleted"]
    /\ UNCHANGED <<now, convs, lastRead, calls, answered>>

-----------------------------------------------------------------------------
(* Reading                                                                 *)

Sent(c) == {m \in MsgId : msgs[m].state = "sent" /\ msgs[m].conv = c}

\* The messages that ListConversations counts for a member.
Unread(c, u) ==
    {m \in Sent(c) : msgs[m].sender # u /\ msgs[m].created > lastRead[c][u]}

BeginRead(r, c, u) ==
    /\ calls[r] = Free /\ IsMember(c, u)
    /\ calls' = [calls EXCEPT ![r] = [kind |-> "read", user |-> u, conv |-> c, at |-> now]]
    /\ UNCHANGED <<now, convs, lastRead, msgs, answered>>

\* The UPDATE is not restricted to the caller.
MarkConversationRead_AllMembers(r) ==
    LET call == calls[r] IN
    /\ call.kind = "read"
    /\ lastRead' = [lastRead EXCEPT ![call.conv] =
                      [u \in User |-> IF IsMember(call.conv, u) THEN call.at ELSE @[u]]]
    /\ Ends(r)
    /\ UNCHANGED <<now, convs, msgs, answered>>

MarkConversationRead(r) ==
    LET call == calls[r] IN
    /\ call.kind = "read"
    /\ lastRead' = [lastRead EXCEPT ![call.conv][call.user] = call.at]
    /\ Ends(r)
    /\ UNCHANGED <<now, convs, msgs, answered>>

\* The deferred rollback is missing.
Abandon_KeepsRow(r) ==
    /\ calls[r] # Free /\ Ends(r)
    /\ UNCHANGED <<now, convs, lastRead, msgs, answered>>

\* A statement fails, the client goes away or the deadline passes; a
\* transaction that was open is rolled back.
Abandon(r) ==
    /\ calls[r] # Free /\ Ends(r)
    /\ msgs' = IF calls[r].kind = "send"
               THEN [msgs EXCEPT ![calls[r].msg] = Unsent] ELSE msgs
    /\ UNCHANGED <<now, convs, lastRead, answered>>

TimePasses ==
    /\ now < MaxTime /\ now' = now + 1
    /\ UNCHANGED <<convs, lastRead, msgs, calls, answered>>

Next ==
    \/ \E r \in Call :
          \/ \E u, v \in User : FindDirectConversation(r, u, v)
          \/ \E c \in Conv : CreateDirect(r, c)
          \/ \E m \in MsgId, c \in Conv, u \in User, s \in BOOLEAN : BeginSend(r, m, c, u, s)
          \/ CommitSend(r)
          \/ \E c \in Conv, u \in User : BeginRead(r, c, u)
          \/ MarkConversationRead(r)
          \/ Abandon(r)
    \/ \E c \in Conv, u \in User, others \in SUBSET User : CreateGroup(c, u, others)
    \/ \E m \in MsgId : MarkMessageSent(m) \/ DeleteMessage(m)
    \/ TimePasses

Spec == Init /\ [][Next]_vars

-----------------------------------------------------------------------------

Creates(r, c) == calls[r].kind = "create" /\ convs[c].type = "none" /\ convs'[c].type = "direct"
                    /\ calls'[r] = Free

\* Whoever asks for a direct conversation gets one of exactly the two members,
\* never a group that happens to have them.
AnswersAreDirect == \A a \in answered : convs[a.conv] = [type |-> "direct", members |-> a.pair]

\* A request that no other one for the same two members overlaps, from either
\* side, creates no second conversation, not of somebody with themselves either.
SoleRequestFinds == [][\A r \in Call, c, d \in Conv :
    Creates(r, c) /\ calls[r].alone /\ convs[d].type = "direct" =>
        convs[d].members # calls[r].pair]_vars

\* What counts as unread for a member goes on counting until it is deleted or
\* that same member reads the conversation, at or after the time it was written.
UnreadUntilRead == [][\A c \in Conv, u \in User : \A m \in Unread(c, u) \ Unread(c, u)' :
    \/ msgs'[m].state = "deleted"
    \/ \E r \in Call :
          /\ calls[r].kind = "read" /\ calls[r].conv = c /\ calls[r].user = u
          /\ calls[r].at >= msgs[m].created /\ calls'[r] = Free]_vars

=============================================================================
