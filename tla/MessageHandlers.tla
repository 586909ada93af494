--------------------------- MODULE MessageHandlers ---------------------------
(***************************************************************************)
(* The HTTP handlers that create, edit, forward and delete messages. Each  *)
(* one runs in its own goroutine as a sequence of autocommitted statements *)
(* and transactions followed by a broadcast; a request stands between two  *)
(* of those steps in the set requests, and may end there: a statement      *)
(* fails, the client goes away, or the 15 s deadline passes.               *)
(*                                                                         *)
(* Callers are members of the conversations they name, and only the sender *)
(* edits or deletes. The body, the audit record, conversations.updated_at  *)
(* and the "message_deleted" event, which carries an id only, are left out.*)
(***************************************************************************)
EXTENDS MessageStore, FiniteSets

CONSTANTS
    EditWindow,      \* the 5 minutes during which a message can be edited
    RequestTimeout,  \* the deadline that requestTimeout puts on a request
    ScheduleTimes,   \* the values of scheduled_for that clients use
    MaxRequests,     \* bound on the requests in flight at once, for TLC
    LastArrival      \* bound on the time at which requests begin, for TLC

ASSUME HandlerAssumption ==
    /\ EditWindow \in Nat
    /\ RequestTimeout \in Nat /\ RequestTimeout <= Retention
    /\ ScheduleTimes \subseteq Nat
    /\ MaxRequests \in Nat /\ LastArrival \in Nat

VARIABLE requests    \* the requests between two of their steps

(* send             scheduled_for, due, was accepted, the insert is to come
   reply            the same, and msg passed ValidateReplyTarget
   forward          msg was read inside ForwardMessage's transaction
   message          msg was committed as sent, its event is to come
   message_updated  msg was edited, its event is to come                   *)
Request ==
    [kind : {"send"}, msg : {NoMsg}, due : Nat, since : Nat]
    \cup [kind : {"reply"}, msg : MsgId, due : Nat, since : Nat]
    \cup [kind : {"forward", "message", "message_updated"}, msg : MsgId, since : Nat]

HandlersTypeOK == requests \subseteq Request
HandlersInit == requests = {}

Asked(kind, m, t) == [kind |-> kind, msg |-> m, since |-> t]
Accepts == Cardinality(requests) < MaxRequests /\ now <= LastArrival

-----------------------------------------------------------------------------

\* POST .../attachments: the object is stored under a new UUID, which nobody
\* has named before.
UploadAttachment(k) ==
    /\ gcs /\ objects[k] = "unused"
    /\ \A m \in MsgId : rows[m].key # k
    /\ objects' = [objects EXCEPT ![k] = "stored"]
    /\ UNCHANGED <<now, rows, announced, requests>>

\* A scheduled_for that SendMessageHandler accepts; 0 when there is none.
Schedulable(d) == d = 0 \/ d > now

\* A status that no query knows.
NewRow_Queued(d, k, root, at) ==
    [BlankRow EXCEPT !.state = "present",
                     !.status = IF d = 0 THEN "sent" ELSE "queued",
                     !.due = d, !.created = at, !.key = k, !.root = root]

NewRow(d, k, root, at) ==
    [BlankRow EXCEPT !.state = "present",
                     !.status = IF d = 0 THEN "sent" ELSE "scheduled",
                     !.due = d, !.created = at, !.key = k, !.root = root]

\* SendMessageHandler up to its last check that touches no table.
SendMessageHandler(d) ==
    /\ Accepts /\ Schedulable(d)
    /\ requests' = requests \cup
                    {[kind |-> "send", msg |-> NoMsg, due |-> d, since |-> now]}
    /\ UNCHANGED storeVars

\* The request to send, once it is known to be a reply.
ReplyOf(p, root) == [p EXCEPT !.kind = "reply", !.msg = root]

\* Replies to replies pass.
ValidateReplyTarget_Nested(p, root) ==
    /\ p.kind = "send" /\ Live(root)
    /\ requests' = (requests \ {p}) \cup {ReplyOf(p, root)}
    /\ UNCHANGED storeVars

\* The request is a reply.
ValidateReplyTarget(p, root) ==
    /\ p.kind = "send" /\ Live(root) /\ rows[root].root = NoMsg
    /\ requests' = (requests \ {p}) \cup {ReplyOf(p, root)}
    /\ UNCHANGED storeVars

\* The insert. Nobody asks whether there is an object k, nor whether the time
\* accepted before is still to come. A message sent at once owes its event.
CreateMessage(p, m, k) ==
    /\ p.kind \in {"send", "reply"}
    /\ InsertRows({m}, p.msg, NewRow(p.due, k, p.msg, now))
    /\ requests' = (requests \ {p}) \cup
                    (IF p.due = 0 THEN {Asked("message", m, p.since)} ELSE {})
    /\ UNCHANGED <<now, objects, announced>>

\* ForwardMessage begins its transaction and reads the source.
ForwardRead(m) ==
    /\ Accepts /\ Live(m)
    /\ requests' = requests \cup {Asked("forward", m, now)}
    /\ UNCHANGED storeVars

\* ForwardMessage inserts a copy per target conversation and commits. The
\* copies share the source's object, and NOW() is the transaction's start.
ForwardCommit(p, S) ==
    /\ p.kind = "forward" /\ S # {}
    /\ InsertRows(S, p.msg, NewRow(0, rows[p.msg].key, NoMsg, p.since))
    /\ requests' = (requests \ {p}) \cup {Asked("message", m, p.since) : m \in S}
    /\ UNCHANGED <<now, objects, announced>>

\* The WHERE clause of UpdateMessage, which does not look at the status.
Editable(m) == Live(m) /\ rows[m].created + EditWindow > now

EditMessage(m) ==
    /\ Accepts /\ Editable(m)
    /\ requests' = requests \cup {Asked("message_updated", m, now)}
    /\ UNCHANGED storeVars

DeleteMessage(m) ==
    /\ Live(m)
    /\ rows' = [rows EXCEPT ![m].deletedAt = now]
    /\ UNCHANGED <<now, objects, announced, requests>>

Broadcast(p) ==
    /\ p.kind \in {"message", "message_updated"}
    /\ Tell(p.kind, p.msg)
    /\ requests' = requests \ {p}
    /\ UNCHANGED <<now, rows, objects>>

\* A failed statement, a disconnected client or the deadline ends a request.
Abandon(p) ==
    /\ requests' = requests \ {p}
    /\ UNCHANGED storeVars

HandlersNext ==
    \/ \E k \in ObjKey : UploadAttachment(k)
    \/ \E d \in ScheduleTimes \cup {0} : SendMessageHandler(d)
    \/ \E m \in MsgId : ForwardRead(m) \/ EditMessage(m) \/ DeleteMessage(m)
    \/ \E p \in requests :
          \/ \E m \in MsgId :
                \/ ValidateReplyTarget(p, m)
                \/ \E k \in ObjKey \cup {NoKey} : CreateMessage(p, m, k)
          \/ \E S \in SUBSET MsgId : ForwardCommit(p, S)
          \/ Broadcast(p)
          \/ Abandon(p)

\* Requests have no deadline.
TimePasses_NoDeadline ==
    /\ now < MaxTime /\ now' = now + 1
    /\ UNCHANGED <<rows, objects, announced, requests>>

\* The clock moves, but never past the deadline of a request in flight.
TimePasses ==
    /\ now < MaxTime
    /\ \A p \in requests : now < p.since + RequestTimeout
    /\ now' = now + 1
    /\ UNCHANGED <<rows, objects, announced, requests>>

=============================================================================
