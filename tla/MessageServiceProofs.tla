------------------------ MODULE MessageServiceProofs ------------------------
(***************************************************************************)
(* Theorems about MessageService, for every set of messages and keys, every *)
(* retention period, deadline and batch size, any number of requests in     *)
(* flight and any number of faults.                                        *)
(***************************************************************************)
EXTENDS MessageService, TLAPS

-----------------------------------------------------------------------------
(* Types.                                                                  *)

TypeInv == TypeOK /\ (wpc \in {"announce", "drop"} => cur \in MsgId)

LEMMA TypeInit == Init => TypeInv
<1>1. BlankRow \in Row
  BY DEF BlankRow, Row
<1>2. StoreInit => StoreTypeOK
  BY <1>1 DEF StoreInit, StoreTypeOK
<1>3. WorkerInit => wpc = "select" /\ cur \in MsgId \cup {NoMsg} /\ batch \subseteq MsgId
  BY DEF WorkerInit
<1>4. WorkerInit => full \in BOOLEAN
  BY DEF WorkerInit
<1>5. WorkerInit => passTime \in Nat
  BY DEF WorkerInit
<1>6. WorkerInit => WorkerTypeOK
  BY <1>3, <1>4, <1>5 DEF WorkerTypeOK
<1> QED
  BY <1>2, <1>3, <1>6 DEF Init, HandlersInit, TypeInv, TypeOK, HandlersTypeOK

LEMMA ReturnType == Return => WorkerTypeOK' /\ wpc' = "select"
<1>1. Return => wpc' = "select" /\ cur' \in MsgId \cup {NoMsg} /\ batch' \subseteq MsgId
  BY DEF Return
<1>2. Return => full' \in BOOLEAN
  BY DEF Return
<1>3. Return => passTime' \in Nat
  BY DEF Return
<1> QED
  BY <1>1, <1>2, <1>3 DEF WorkerTypeOK

\* The record updates that the actions make give rows.
LEMMA RowTypes ==
  ASSUME NEW row \in Row
  PROVE  /\ \A s \in {"absent", "present", "removed"} :
               [row EXCEPT !.state = s] \in Row
         /\ \A s \in {"sent", "scheduled"} : [row EXCEPT !.status = s] \in Row
         /\ \A t \in Nat : [row EXCEPT !.deletedAt = t] \in Row
         /\ row.status \in {"sent", "scheduled"}
         /\ row.key \in ObjKey \cup {NoKey}
  BY DEF Row

LEMMA NewRowType ==
  ASSUME NEW d \in Nat, NEW k \in ObjKey \cup {NoKey},
         NEW r \in MsgId \cup {NoMsg}, NEW t \in Nat
  PROVE  NewRow(d, k, r, t) \in Row
  BY DEF NewRow, BlankRow, Row

\* What a request in flight holds, by its kind.
LEMMA RequestTypes ==
  ASSUME NEW p \in Request
  PROVE  /\ p.since \in Nat
         /\ p.kind = "send" => p.msg = NoMsg
         /\ p.kind # "send" => p.msg \in MsgId
         /\ p.kind \in {"send", "reply"} =>
               p.due \in Nat /\ p.msg \in MsgId \cup {NoMsg}
  BY DEF Request

\* A request to send that turns out to be a reply.
LEMMA ReplyType ==
  ASSUME NEW p \in Request, p.kind = "send", NEW r \in MsgId
  PROVE  /\ ReplyOf(p, r) \in Request
         /\ ReplyOf(p, r).kind = "reply" /\ ReplyOf(p, r).msg = r
         /\ ReplyOf(p, r).since = p.since
  BY DEF ReplyOf, Request

LEMMA HandlersType ==
  ASSUME TypeInv, HandlersNext, UNCHANGED <<workerVars, faults, gcs>>
  PROVE  TypeInv'
<1> USE HandlerAssumption
    DEF TypeInv, TypeOK, StoreTypeOK, HandlersTypeOK, WorkerTypeOK,
        workerVars, storeVars
<1>1. ASSUME NEW k \in ObjKey, UploadAttachment(k) PROVE TypeInv'
  BY <1>1 DEF UploadAttachment
<1>2. ASSUME NEW d \in ScheduleTimes \cup {0}, SendMessageHandler(d)
      PROVE  TypeInv'
  <2>1. [kind |-> "send", msg |-> NoMsg, due |-> d, since |-> now] \in Request
    <3>1. d \in Nat /\ now \in Nat
      OBVIOUS
    <3>2. [kind |-> "send", msg |-> NoMsg, due |-> d, since |-> now]
            \in [kind : {"send"}, msg : {NoMsg}, due : Nat, since : Nat]
      BY <3>1
    <3> QED
      BY <3>2 DEF Request
  <2> QED
    BY <1>2, <2>1 DEF SendMessageHandler
<1>3. ASSUME NEW p \in requests, NEW m \in MsgId, ValidateReplyTarget(p, m)
      PROVE  TypeInv'
  BY <1>3, ReplyType DEF ValidateReplyTarget
<1>4. ASSUME NEW p \in requests, NEW m \in MsgId,
             NEW k \in ObjKey \cup {NoKey}, CreateMessage(p, m, k)
      PROVE  TypeInv'
  <2>1. p.due \in Nat /\ p.msg \in MsgId \cup {NoMsg} /\ p.since \in Nat
    BY <1>4, RequestTypes DEF CreateMessage
  <2>2. rows' \in [MsgId -> Row]
    BY <1>4, <2>1, NewRowType DEF CreateMessage, InsertRows
  <2>3. requests' \subseteq Request
    BY <1>4, <2>1 DEF CreateMessage, Asked, Request
  <2> QED
    BY <1>4, <2>2, <2>3 DEF CreateMessage
<1>5. ASSUME NEW m \in MsgId, ForwardRead(m) \/ EditMessage(m) PROVE TypeInv'
  BY <1>5 DEF ForwardRead, EditMessage, Asked, Request
<1>6. ASSUME NEW m \in MsgId, DeleteMessage(m) PROVE TypeInv'
  BY <1>6, RowTypes DEF DeleteMessage
<1>7. ASSUME NEW p \in requests, NEW S \in SUBSET MsgId, ForwardCommit(p, S)
      PROVE  TypeInv'
  <2>0. p.msg \in MsgId /\ p.since \in Nat
    BY <1>7, RequestTypes DEF ForwardCommit
  <2>1. rows' \in [MsgId -> Row]
    BY <1>7, <2>0, NewRowType, RowTypes DEF ForwardCommit, InsertRows
  <2>2. requests' \subseteq Request
    BY <1>7, <2>0 DEF ForwardCommit, Asked, Request
  <2> QED
    BY <1>7, <2>1, <2>2 DEF ForwardCommit
<1>8. ASSUME NEW p \in requests, Broadcast(p) PROVE TypeInv'
  BY <1>8, RequestTypes DEF Broadcast, Tell
<1>9. ASSUME NEW p \in requests, Abandon(p) PROVE TypeInv'
  BY <1>9 DEF Abandon
<1> QED
  BY <1>1, <1>2, <1>3, <1>4, <1>5, <1>6, <1>7, <1>8, <1>9 DEF HandlersNext

LEMMA WorkerType ==
  ASSUME TypeInv, WorkerNext \/ WorkerFails, UNCHANGED <<requests, gcs>>, faults' \in Nat
  PROVE  TypeInv'
<1> USE DEF TypeInv, TypeOK, StoreTypeOK, HandlersTypeOK, WorkerTypeOK, storeVars
<1>1. CASE ListDueScheduledMessages
  BY <1>1 DEF ListDueScheduledMessages
<1>2. CASE Announce \/ AnnounceFails
  BY <1>2 DEF Announce, AnnounceFails, Tell
<1>3. CASE DispatchDone
  BY <1>3, ReturnType DEF DispatchDone
<1>4. CASE PurgeStart
  BY <1>4 DEF PurgeStart
<1>5. CASE ListPurgeableMessages \/ ListPurgeableMessagesFails
  <2>1. CASE ListPurgeableMessagesFails
    BY <1>5, <2>1, ReturnType DEF ListPurgeableMessagesFails
  <2>2. CASE ListPurgeableMessages /\ Return
    BY <2>2, ReturnType DEF ListPurgeableMessages
  <2>3. CASE ListPurgeableMessages /\ wpc' = "purge"
    <3>1. full' \in BOOLEAN
      BY <2>3 DEF ListPurgeableMessages, Return
    <3>2. batch' \subseteq MsgId
      BY <2>3 DEF ListPurgeableMessages, Return
    <3> QED
      BY <2>3, <3>1, <3>2 DEF ListPurgeableMessages, Return
  <2> QED
    BY <1>5, <2>1, <2>2, <2>3 DEF ListPurgeableMessages
<1>6. CASE HardDeleteMessage \/ HardDeleteMessageFails
  <2>1. rows' \in [MsgId -> Row]
    <3>1. CASE HardDeleteMessageFails
      BY <3>1 DEF HardDeleteMessageFails
    <3>2. CASE HardDeleteMessage
      <4>1. \A m \in MsgId : [rows[m] EXCEPT !.state = "removed"] \in Row
        BY RowTypes
      <4> QED
        BY <3>2, <4>1 DEF HardDeleteMessage, DeleteRow
    <3> QED
      BY <1>6, <3>1, <3>2
  <2> QED
    BY <1>6, <2>1 DEF HardDeleteMessage, HardDeleteMessageFails
<1>7. CASE BatchDone
  BY <1>7, ReturnType DEF BatchDone
<1>8. ASSUME NEW m \in MsgId, MarkMessageSent(m) \/ MarkMessageSentFails(m)
      PROVE  TypeInv'
  <2>1. rows' \in [MsgId -> Row]
    <3>1. rows' = rows \/ rows' = [rows EXCEPT ![m].status = "sent"]
      BY <1>8 DEF MarkMessageSent, MarkMessageSentFails, SetSent
    <3>2. [rows[m] EXCEPT !.status = "sent"] \in Row
      BY RowTypes
    <3> QED
      BY <3>1, <3>2
  <2> QED
    BY <1>8, <2>1 DEF MarkMessageSent, MarkMessageSentFails
<1>9. ASSUME NEW m \in MsgId,
             DeleteObject(m) \/ DeleteMissingObject(m) \/ DeleteObjectFails(m)
      PROVE  TypeInv'
  BY <1>9 DEF DeleteObject, DeleteMissingObject, DeleteObjectFails
<1> QED
  BY <1>1, <1>2, <1>3, <1>4, <1>5, <1>6, <1>7, <1>8, <1>9
  DEF WorkerNext, WorkerFails

LEMMA TypeStep == TypeInv /\ [Next]_vars => TypeInv'
<1> SUFFICES ASSUME TypeInv, [Next]_vars PROVE TypeInv'
  OBVIOUS
<1> USE DEF TypeInv, TypeOK, StoreTypeOK, HandlersTypeOK, WorkerTypeOK,
            workerVars, storeVars
<1>1. CASE Client
  BY <1>1, HandlersType DEF Client
<1>2. CASE Worker
  BY <1>2, WorkerType DEF Worker
<1>3. CASE Clock
  BY <1>3 DEF Clock, TimePasses
<1>4. CASE Fault
  <2>1. CASE Crash
    BY <1>4, <2>1, ReturnType, FaultAssumption DEF Fault, Crash
  <2>2. CASE WorkerFails /\ UNCHANGED <<requests, gcs>>
    BY <1>4, <2>2, WorkerType DEF Fault
  <2> QED
    BY <1>4, <2>1, <2>2 DEF Fault
<1>5. CASE UNCHANGED vars
  BY <1>5 DEF vars
<1> QED
  BY <1>1, <1>2, <1>3, <1>4, <1>5 DEF Next

LEMMA TypeInvariant == Spec => []TypeInv
  BY TypeInit, TypeStep, PTL DEF Spec

\* Every variable of the store, the requests and the worker keeps its type.
THEOREM TypeCorrect == Spec => []TypeOK
<1>1. TypeInv => TypeOK
  BY DEF TypeInv
<1> QED
  BY <1>1, TypeInvariant, PTL

-----------------------------------------------------------------------------
(* The invariant about announcements.                                      *)

\* Members may be told of m: they can read it.
Sent(m) ==
    rows[m].state # "absent" /\ rows[m].status = "sent" /\ rows[m].due <= now

\* One party at most owes the announcement of a message: the request that
\* inserted it as sent, or the worker that has just marked it sent. A message
\* that the worker has listed and not yet marked is still scheduled.
ToldInv == \A m \in MsgId :
    announced[m] <= 1 /\ (announced[m] > 0 => Sent(m))

OwedInv == \A p \in requests : p.kind = "message" =>
    /\ Sent(p.msg) /\ announced[p.msg] = 0
    /\ \A q \in requests : q.kind = "message" /\ q.msg = p.msg => q = p
    /\ wpc = "announce" => cur # p.msg

HeldInv == wpc \in {"dispatch", "announce"} => \A m \in batch :
    Present(m) /\ rows[m].status = "scheduled" /\ rows[m].due <= now

CurInv == wpc = "announce" => Sent(cur) /\ announced[cur] = 0

AnnounceInv == ToldInv /\ OwedInv /\ HeldInv /\ CurInv

-----------------------------------------------------------------------------
(* What the statements do to a single row.                                 *)

LEMMA NewRowFields ==
  ASSUME NEW d, NEW k, NEW r, NEW t
  PROVE  /\ NewRow(d, k, r, t).state = "present"
         /\ NewRow(d, k, r, t).status = IF d = 0 THEN "sent" ELSE "scheduled"
         /\ NewRow(d, k, r, t).due = d
         /\ NewRow(d, k, r, t).deletedAt = 0
         /\ NewRow(d, k, r, t).key = k
         /\ NewRow(d, k, r, t).root = r
  BY DEF NewRow, BlankRow

LEMMA Inserted ==
  ASSUME NEW S \in SUBSET MsgId, NEW r, NEW row, InsertRows(S, r, row)
  PROVE  /\ \A m \in S : rows[m].state = "absent" /\ rows'[m] = row
         /\ \A m \in MsgId \ S : rows'[m] = rows[m]
  BY DEF InsertRows

LEMMA RowDeleted ==
  ASSUME TypeInv, NEW x, DeleteRow(x), NEW m \in MsgId
  PROVE  /\ rows'[m].status = rows[m].status /\ rows'[m].due = rows[m].due
         /\ rows'[m].deletedAt = rows[m].deletedAt
         /\ rows'[m].key = rows[m].key /\ rows'[m].root = rows[m].root
         /\ \/ rows'[m].state = rows[m].state
            \/ /\ rows[m].state = "present" /\ rows'[m].state = "removed"
               /\ Deleted(x) /\ (m = x \/ rows[m].root = x)
         /\ Deleted(x) /\ (m = x \/ rows[m].root = x) => ~Present(m)'
  BY DEF DeleteRow, Deleted, Present, TypeInv, TypeOK, StoreTypeOK, Row

LEMMA MarkedSent ==
  ASSUME TypeInv, NEW m \in MsgId, rows' = [rows EXCEPT ![m].status = "sent"]
  PROVE  \A x \in MsgId :
            /\ rows'[x].state = rows[x].state /\ rows'[x].due = rows[x].due
            /\ rows'[x].deletedAt = rows[x].deletedAt
            /\ rows'[x].key = rows[x].key /\ rows'[x].root = rows[x].root
            /\ rows'[x].status = IF x = m THEN "sent" ELSE rows[x].status
  BY DEF TypeInv, TypeOK, StoreTypeOK, Row

LEMMA SoftDeleted ==
  ASSUME TypeInv, NEW m \in MsgId, DeleteMessage(m)
  PROVE  \A x \in MsgId :
            /\ rows'[x].state = rows[x].state /\ rows'[x].due = rows[x].due
            /\ rows'[x].status = rows[x].status
            /\ rows'[x].key = rows[x].key /\ rows'[x].root = rows[x].root
            /\ rows'[x].deletedAt = IF x = m THEN now ELSE rows[x].deletedAt
  BY DEF DeleteMessage, TypeInv, TypeOK, StoreTypeOK, Row

-----------------------------------------------------------------------------
(* AnnounceInv.                                                            *)

LEMMA HandlersAnnounce ==
  ASSUME TypeInv, TypeInv', AnnounceInv, HandlersNext, UNCHANGED <<workerVars, faults>>
  PROVE  AnnounceInv'
<1> USE DEF AnnounceInv, ToldInv, OwedInv, HeldInv, CurInv, Sent, workerVars, storeVars
<1>0. /\ announced \in [MsgId -> Nat] /\ requests \subseteq Request
      /\ rows \in [MsgId -> Row] /\ now \in Nat /\ batch \subseteq MsgId
      /\ wpc = "announce" => cur \in MsgId
  BY DEF TypeInv, TypeOK, StoreTypeOK, HandlersTypeOK, WorkerTypeOK
<1>1. ASSUME NEW k \in ObjKey, UploadAttachment(k) PROVE AnnounceInv'
  BY <1>1 DEF UploadAttachment, Present
<1>2. ASSUME NEW d, SendMessageHandler(d) PROVE AnnounceInv'
  BY <1>2 DEF SendMessageHandler, Present
<1>3. ASSUME NEW p \in requests, NEW m \in MsgId, ValidateReplyTarget(p, m)
      PROVE  AnnounceInv'
  <2>1. ReplyOf(p, m).kind = "reply"
    BY <1>0, <1>3, ReplyType DEF ValidateReplyTarget
  <2> QED
    BY <1>3, <2>1 DEF ValidateReplyTarget, Present
<1>4. ASSUME NEW p \in requests, NEW m \in MsgId, NEW k, CreateMessage(p, m, k)
      PROVE  AnnounceInv'
  <2>0. p.due \in Nat
    BY <1>0, <1>4, RequestTypes DEF CreateMessage
  <2>1. /\ rows[m].state = "absent" /\ rows'[m] = NewRow(p.due, k, p.msg, now)
        /\ \A x \in MsgId \ {m} : rows'[x] = rows[x]
        /\ now' = now /\ announced' = announced
    BY <1>4, Inserted DEF CreateMessage
  <2>2. ToldInv'
    BY <1>0, <2>1
  <2>3. HeldInv'
    BY <1>0, <2>1 DEF Present
  <2>4. CurInv'
    BY <1>0, <2>1
  <2>5. ASSUME NEW q \in requests', q.kind = "message"
        PROVE  /\ Sent(q.msg)' /\ announced'[q.msg] = 0
               /\ wpc' = "announce" => cur' # q.msg
               /\ \A o \in requests' : o.kind = "message" /\ o.msg = q.msg => o = q
    <3>1. \A o \in requests : o.kind = "message" => o.msg \in MsgId \ {m}
      BY <1>0, <2>1, RequestTypes
    <3>2. CASE q \in requests
      BY <1>0, <1>4, <2>1, <2>5, <3>1, <3>2 DEF CreateMessage, Asked
    <3>3. CASE q \notin requests
      <4>1. q = Asked("message", m, p.since) /\ p.due = 0
        BY <1>4, <3>3 DEF CreateMessage
      <4>2. Sent(m)'
        BY <1>0, <2>1, <4>1, NewRowFields
      <4> QED
        BY <1>0, <1>4, <2>1, <3>1, <4>1, <4>2 DEF CreateMessage, Asked
    <3> QED
      BY <3>2, <3>3
  <2> QED
    BY <2>2, <2>3, <2>4, <2>5
<1>5. ASSUME NEW m \in MsgId, ForwardRead(m) \/ EditMessage(m) PROVE AnnounceInv'
  BY <1>5 DEF ForwardRead, EditMessage, Asked, Present
<1>6. ASSUME NEW m \in MsgId, DeleteMessage(m) PROVE AnnounceInv'
  <2>1. /\ now' = now /\ announced' = announced /\ requests' = requests
        /\ \A x \in MsgId : /\ rows'[x].state = rows[x].state
                            /\ rows'[x].status = rows[x].status
                            /\ rows'[x].due = rows[x].due
    BY <1>6, SoftDeleted DEF DeleteMessage
  <2> QED
    BY <1>0, <2>1 DEF Present, Request
<1>7. ASSUME NEW p \in requests, NEW S \in SUBSET MsgId, ForwardCommit(p, S)
      PROVE  AnnounceInv'
  <2>1. /\ \A m \in S : /\ rows[m].state = "absent"
                        /\ rows'[m] = NewRow(0, rows[p.msg].key, NoMsg, p.since)
        /\ \A m \in MsgId \ S : rows'[m] = rows[m]
        /\ now' = now /\ announced' = announced
    BY <1>7, Inserted DEF ForwardCommit
  <2>2. ToldInv'
    BY <1>0, <2>1
  <2>3. HeldInv'
    BY <1>0, <2>1 DEF Present
  <2>4. CurInv'
    BY <1>0, <2>1
  <2>5. ASSUME NEW q \in requests', q.kind = "message"
        PROVE  /\ Sent(q.msg)' /\ announced'[q.msg] = 0
               /\ wpc' = "announce" => cur' # q.msg
               /\ \A o \in requests' : o.kind = "message" /\ o.msg = q.msg => o = q
    <3>1. CASE q \in requests
      BY <1>0, <1>7, <2>1, <2>5, <3>1 DEF ForwardCommit, Asked, Request
    <3>2. CASE q \notin requests
      BY <1>0, <1>7, <2>1, <2>5, <3>2, NewRowFields DEF ForwardCommit, Asked, Request
    <3> QED
      BY <3>1, <3>2
  <2> QED
    BY <2>2, <2>3, <2>4, <2>5
<1>8. ASSUME NEW p \in requests, Broadcast(p) PROVE AnnounceInv'
  BY <1>0, <1>8 DEF Broadcast, Tell, Request, Present
<1>9. ASSUME NEW p \in requests, Abandon(p) PROVE AnnounceInv'
  BY <1>9 DEF Abandon, Present
<1> QED
  BY <1>1, <1>2, <1>3, <1>4, <1>5, <1>6, <1>7, <1>8, <1>9 DEF HandlersNext

LEMMA WorkerAnnounce ==
  ASSUME TypeInv, AnnounceInv, WorkerNext \/ WorkerFails, UNCHANGED requests
  PROVE  AnnounceInv'
<1> USE DEF AnnounceInv, ToldInv, OwedInv, HeldInv, CurInv, Sent, storeVars
<1>0. /\ announced \in [MsgId -> Nat] /\ requests \subseteq Request
      /\ rows \in [MsgId -> Row] /\ now \in Nat /\ batch \subseteq MsgId
      /\ wpc \in {"announce", "drop"} => cur \in MsgId
  BY DEF TypeInv, TypeOK, StoreTypeOK, HandlersTypeOK, WorkerTypeOK
<1>1. CASE ListDueScheduledMessages
  BY <1>0, <1>1 DEF ListDueScheduledMessages, Due, Live, Present
<1>2. CASE Announce
  BY <1>0, <1>2 DEF Announce, Tell, Request, Present
<1>3. CASE AnnounceFails \/ DispatchDone \/ BatchDone
  BY <1>3 DEF AnnounceFails, DispatchDone, BatchDone, Return, Present
<1>4. CASE PurgeStart \/ ListPurgeableMessages \/ ListPurgeableMessagesFails
  BY <1>4 DEF PurgeStart, ListPurgeableMessages, ListPurgeableMessagesFails, Return
<1>5. CASE HardDeleteMessage \/ HardDeleteMessageFails
  <2>1. /\ now' = now /\ announced' = announced /\ wpc' = "purge"
        /\ \A m \in MsgId :
              /\ rows'[m].status = rows[m].status /\ rows'[m].due = rows[m].due
              /\ rows[m].state # "absent" => rows'[m].state # "absent"
    BY <1>5, RowDeleted DEF HardDeleteMessage, HardDeleteMessageFails
  <2> QED
    BY <1>0, <2>1 DEF Request
<1>6. ASSUME NEW m \in MsgId, MarkMessageSent(m) \/ MarkMessageSentFails(m)
      PROVE  AnnounceInv'
  <2>1. /\ now' = now /\ announced' = announced /\ wpc = "dispatch" /\ m \in batch
        /\ batch' = batch \ {m}
        /\ \A x \in MsgId :
              /\ rows'[x].state = rows[x].state /\ rows'[x].due = rows[x].due
              /\ rows'[x].status = rows[x].status \/ (x = m /\ rows'[x].status = "sent")
        /\ wpc' = "dispatch" \/ (wpc' = "announce" /\ cur' = m /\ rows'[m].status = "sent")
    <3>1. Present(m)
      BY <1>6 DEF MarkMessageSent, MarkMessageSentFails
    <3> HIDE DEF AnnounceInv, ToldInv, OwedInv, HeldInv, CurInv
    <3>2. rows' = rows \/ rows' = [rows EXCEPT ![m].status = "sent"]
      BY <1>6, <3>1 DEF MarkMessageSent, MarkMessageSentFails, SetSent
    <3>3. CASE MarkMessageSent(m)
      <4>1. rows' = [rows EXCEPT ![m].status = "sent"]
        BY <3>1, <3>3 DEF MarkMessageSent, SetSent
      <4>2. \A x \in MsgId :
              /\ rows'[x].state = rows[x].state /\ rows'[x].due = rows[x].due
              /\ rows'[x].status = IF x = m THEN "sent" ELSE rows[x].status
        BY <4>1, MarkedSent
      <4> QED
        BY <3>3, <4>2 DEF MarkMessageSent
    <3>4. CASE MarkMessageSentFails(m)
      <4>1. CASE rows' = rows
        BY <3>4, <4>1 DEF MarkMessageSentFails
      <4>2. CASE rows' = [rows EXCEPT ![m].status = "sent"]
        BY <3>4, <4>2, MarkedSent DEF MarkMessageSentFails
      <4> QED
        BY <3>2, <4>1, <4>2
    <3> QED
      BY <1>6, <3>3, <3>4
  <2>2. ToldInv' /\ HeldInv'
    BY <1>0, <2>1 DEF Present
  <2>3. OwedInv'
    BY <1>0, <2>1 DEF Request
  <2>4. CurInv'
    BY <1>0, <2>1 DEF Present
  <2> QED
    BY <2>2, <2>3, <2>4
<1>7. ASSUME NEW m \in MsgId,
             DeleteObject(m) \/ DeleteMissingObject(m) \/ DeleteObjectFails(m)
      PROVE  AnnounceInv'
  BY <1>7 DEF DeleteObject, DeleteMissingObject, DeleteObjectFails
<1> QED
  BY <1>1, <1>2, <1>3, <1>4, <1>5, <1>6, <1>7 DEF WorkerNext, WorkerFails

LEMMA AnnounceStep ==
  ASSUME TypeInv, TypeInv', AnnounceInv, [Next]_vars
  PROVE  AnnounceInv'
<1>1. CASE Client
  BY <1>1, HandlersAnnounce DEF Client
<1>2. CASE Worker
  BY <1>2, WorkerAnnounce DEF Worker
<1>3. CASE Clock
  BY <1>3
  DEF Clock, TimePasses, workerVars, AnnounceInv, ToldInv, OwedInv, HeldInv, CurInv,
      Sent, Present, TypeInv, TypeOK, StoreTypeOK, HandlersTypeOK, WorkerTypeOK,
      Request, Row
<1>4. CASE Fault
  <2>1. CASE Crash
    BY <2>1
    DEF Crash, Return, storeVars, AnnounceInv, ToldInv, OwedInv, HeldInv, CurInv, Sent
  <2> QED
    BY <1>4, <2>1, WorkerAnnounce DEF Fault
<1>5. CASE UNCHANGED vars
  BY <1>5
  DEF vars, storeVars, workerVars, AnnounceInv, ToldInv, OwedInv, HeldInv, CurInv,
      Sent, Present
<1> QED
  BY <1>1, <1>2, <1>3, <1>4, <1>5 DEF Next

LEMMA AnnounceInvariant == Spec => []AnnounceInv
<1>1. Init => AnnounceInv
  BY DEF Init, StoreInit, HandlersInit, WorkerInit, AnnounceInv, ToldInv, OwedInv,
         HeldInv, CurInv, BlankRow
<1>2. TypeInv /\ TypeInv' /\ AnnounceInv /\ [Next]_vars => AnnounceInv'
  BY AnnounceStep
<1> QED
  BY <1>1, <1>2, TypeInvariant, PTL DEF Spec

\* However handlers, dispatches, failing calls and crashes interleave, no
\* message is announced twice.
THEOREM NeverAnnouncedTwice == Spec => []AnnouncedAtMostOnce
<1>1. AnnounceInv => AnnouncedAtMostOnce
  BY DEF AnnounceInv, ToldInv, AnnouncedAtMostOnce
<1> QED
  BY <1>1, AnnounceInvariant, PTL

\* An announced message is readable as sent, and its time has come.
THEOREM NeverAnnouncedEarly == Spec => []NeverEarly
<1>1. AnnounceInv => NeverEarly
  BY DEF AnnounceInv, ToldInv, NeverEarly, Sent
<1> QED
  BY <1>1, AnnounceInvariant, PTL

=============================================================================
