-------------------------- MODULE LifecycleProofs --------------------------
(***************************************************************************)
(* Theorems about MessageService: what becomes of rows, replies and        *)
(* objects, and that the service implements MessageLifecycle. The order of *)
(* two timestamps carries most of it: what is purged was deleted longer    *)
(* ago than any request in flight has been running.                        *)
(***************************************************************************)
EXTENDS MessageServiceProofs

-----------------------------------------------------------------------------
(* The invariant.                                                          *)

\* An id that names no row yet has no column set.
BlankInv == \A m \in MsgId : rows[m].state = "absent" => rows[m] = BlankRow

\* Roots are roots and outlive their replies.
RootInv == \A m \in MsgId : rows[m].root # NoMsg =>
    /\ rows[rows[m].root].state # "absent"
    /\ rows[rows[m].root].root = NoMsg
    /\ Present(m) => Present(rows[m].root)

\* The root of a reply that is still to be inserted was live when its request
\* began, and that is not long ago.
DeadlineInv == \A p \in requests :
    /\ p.since <= now /\ now <= p.since + RequestTimeout
    /\ p.kind = "reply" =>
          /\ Present(p.msg) /\ rows[p.msg].root = NoMsg
          /\ Deleted(p.msg) => p.since <= rows[p.msg].deletedAt

\* What the worker has listed for its purge has aged, and stays so; it drops a
\* row once the row's object is gone.
Expired(m) == Deleted(m) /\ rows[m].deletedAt + Retention < passTime

PurgeInv ==
    /\ passTime <= now
    /\ wpc \in {"purge", "drop"} => \A m \in batch : Expired(m)
    /\ wpc = "drop" =>
          /\ Expired(cur)
          /\ gcs /\ rows[cur].key # NoKey => objects[rows[cur].key] = "deleted"

RetentionInv ==
    /\ BlankInv /\ RootInv /\ DeadlineInv /\ PurgeInv
    /\ ObjectsLeaveAged /\ (GcsInit = {TRUE} => OrphansWereReplies)

-----------------------------------------------------------------------------
(* What a step does to the rows and the objects.                           *)

\* A row keeps its identity, its root, its attachment and its deleted_at, and
\* does not come back.
Kept(m) == rows[m].state # "absent" =>
    /\ rows'[m].state # "absent" /\ (Present(m)' => Present(m))
    /\ rows'[m].key = rows[m].key /\ rows'[m].root = rows[m].root
    /\ \/ rows'[m].deletedAt = rows[m].deletedAt
       \/ ~Deleted(m) /\ rows'[m].deletedAt = now

LEMMA HandlersKeep ==
  ASSUME TypeInv, HandlersNext, NEW x \in MsgId
  PROVE  Kept(x)
<1> USE DEF Kept, storeVars, Present
<1>1. ASSUME NEW p \in requests, NEW m \in MsgId, NEW k, CreateMessage(p, m, k)
      PROVE  Kept(x)
  BY <1>1, Inserted DEF CreateMessage
<1>2. ASSUME NEW p \in requests, NEW S \in SUBSET MsgId, ForwardCommit(p, S)
      PROVE  Kept(x)
  BY <1>2, Inserted DEF ForwardCommit
<1>3. ASSUME NEW m \in MsgId, DeleteMessage(m) PROVE Kept(x)
  BY <1>3, SoftDeleted DEF DeleteMessage, Live
<1> QED
  BY <1>1, <1>2, <1>3
  DEF HandlersNext, UploadAttachment, SendMessageHandler, ValidateReplyTarget,
      ForwardRead, EditMessage, Broadcast, Abandon

LEMMA WorkerKeeps ==
  ASSUME TypeInv, WorkerNext \/ WorkerFails, NEW x \in MsgId
  PROVE  Kept(x)
<1> USE DEF Kept, storeVars, Present
<1>1. CASE HardDeleteMessage
  BY <1>1, RowDeleted DEF HardDeleteMessage
<1>2. ASSUME NEW m \in MsgId, MarkMessageSent(m) \/ MarkMessageSentFails(m)
      PROVE  Kept(x)
  <2>1. rows' = rows \/ rows' = [rows EXCEPT ![m].status = "sent"]
    BY <1>2 DEF MarkMessageSent, MarkMessageSentFails, SetSent
  <2> QED
    BY <2>1, MarkedSent
<1> QED
  BY <1>1, <1>2
  DEF WorkerNext, WorkerFails, ListDueScheduledMessages, Announce, AnnounceFails,
      DispatchDone, PurgeStart, ListPurgeableMessages, ListPurgeableMessagesFails,
      HardDeleteMessageFails, BatchDone, DeleteObject, DeleteMissingObject,
      DeleteObjectFails

LEMMA RowsKept ==
  ASSUME TypeInv, [Next]_vars, NEW x \in MsgId
  PROVE  Kept(x)
<1>1. rows' = rows => Kept(x)
  BY DEF Kept, Present
<1> QED
  BY <1>1, HandlersKeep, WorkerKeeps
  DEF Next, Client, Worker, Clock, Fault, Crash, TimePasses, vars, storeVars

\* Rows leave in one statement only, a thread together with its root.
LEMMA RowsLeave ==
  ASSUME TypeInv, [Next]_vars, NEW x \in MsgId, Leaves(x)
  PROVE  /\ wpc = "drop" /\ cur \in MsgId /\ Deleted(cur) /\ UNCHANGED <<now, objects>>
         /\ x = cur \/ rows[x].root = cur
         /\ \A m \in MsgId : m = cur \/ rows[m].root = cur => ~Present(m)'
<1> USE DEF Leaves, Present, storeVars
<1>1. ASSUME NEW p \in requests, NEW m \in MsgId, NEW k, CreateMessage(p, m, k)
      PROVE  FALSE
  BY <1>1, Inserted DEF CreateMessage
<1>2. ASSUME NEW p \in requests, NEW S \in SUBSET MsgId, ForwardCommit(p, S)
      PROVE  FALSE
  BY <1>2, Inserted DEF ForwardCommit
<1>3. ASSUME NEW m \in MsgId, DeleteMessage(m) PROVE FALSE
  BY <1>3, SoftDeleted
<1>4. ~HandlersNext
  BY <1>1, <1>2, <1>3
  DEF HandlersNext, UploadAttachment, SendMessageHandler, ValidateReplyTarget,
      ForwardRead, EditMessage, Broadcast, Abandon
<1>5. ASSUME NEW m \in MsgId, MarkMessageSent(m) \/ MarkMessageSentFails(m)
      PROVE  FALSE
  <2>1. rows' = rows \/ rows' = [rows EXCEPT ![m].status = "sent"]
    BY <1>5 DEF MarkMessageSent, MarkMessageSentFails, SetSent
  <2> QED
    BY <2>1, MarkedSent
<1>6. (WorkerNext \/ WorkerFails) => HardDeleteMessage
  BY <1>5
  DEF WorkerNext, WorkerFails, ListDueScheduledMessages, Announce, AnnounceFails,
      DispatchDone, PurgeStart, ListPurgeableMessages, ListPurgeableMessagesFails,
      HardDeleteMessageFails, BatchDone, DeleteObject, DeleteMissingObject,
      DeleteObjectFails
<1>7. HardDeleteMessage
  BY <1>4, <1>6
  DEF Next, Client, Worker, Clock, Fault, Crash, TimePasses, vars
<1> QED
  BY <1>7, RowDeleted DEF HardDeleteMessage, TypeInv

\* A row that enters is new, live, and under a root that was there and stays.
Entered(m) ==
    /\ Present(m)' /\ rows'[m].deletedAt = 0 /\ UNCHANGED <<now, objects>>
    /\ rows'[m].root # NoMsg =>
          /\ Present(rows'[m].root) /\ rows'[rows'[m].root].state = "present"
          /\ rows[rows'[m].root].root = NoMsg

LEMMA MessageCreated ==
  ASSUME TypeInv, DeadlineInv, NEW p \in requests, NEW m \in MsgId, NEW k,
         CreateMessage(p, m, k)
  PROVE  /\ p.msg \in MsgId \cup {NoMsg} /\ (p.msg # NoMsg => rows[p.msg].root = NoMsg)
         /\ Entered(m) /\ rows[m].state = "absent"
         /\ \A x \in MsgId \ {m} : rows'[x] = rows[x]
<1> DEFINE r == p.msg
<1>0. r \in MsgId \cup {NoMsg} /\ (r # NoMsg => rows[r].root = NoMsg)
  BY RequestTypes DEF CreateMessage, DeadlineInv, TypeInv, TypeOK, HandlersTypeOK
<1>1. /\ rows[m].state = "absent" /\ rows'[m] = NewRow(p.due, k, r, now)
      /\ \A x \in MsgId \ {m} : rows'[x] = rows[x]
      /\ now' = now /\ objects' = objects
  BY Inserted DEF CreateMessage
<1>2. r # NoMsg => Present(r) /\ r \in MsgId \ {m}
  BY <1>0, <1>1 DEF CreateMessage, InsertRows, Present
<1> QED
  BY <1>0, <1>1, <1>2, NewRowFields DEF Entered, Present

LEMMA CopiesCreated ==
  ASSUME NEW p \in requests, NEW S \in SUBSET MsgId,
         ForwardCommit(p, S), NEW x \in MsgId
  PROVE  IF x \in S THEN Entered(x) /\ rows[x].state = "absent"
                    ELSE rows'[x] = rows[x]
<1>1. /\ \A m \in S : /\ rows[m].state = "absent"
                      /\ rows'[m] = NewRow(0, rows[p.msg].key, NoMsg, p.since)
      /\ \A m \in MsgId \ S : rows'[m] = rows[m]
      /\ now' = now /\ objects' = objects
  BY Inserted DEF ForwardCommit
<1> QED
  BY <1>1, NewRowFields DEF Entered, Present

LEMMA RowsEnter ==
  ASSUME TypeInv, DeadlineInv, [Next]_vars, NEW x \in MsgId,
         rows[x].state = "absent"
  PROVE  rows'[x] = rows[x] \/ Entered(x)
<1> USE DEF storeVars
<1>1. ASSUME NEW p \in requests, NEW m \in MsgId, NEW k, CreateMessage(p, m, k)
      PROVE  rows'[x] = rows[x] \/ Entered(x)
  BY <1>1, MessageCreated
<1>2. ASSUME NEW p \in requests, NEW S \in SUBSET MsgId, ForwardCommit(p, S)
      PROVE  rows'[x] = rows[x] \/ Entered(x)
  BY <1>2, CopiesCreated
<1>3. ASSUME NEW m \in MsgId, DeleteMessage(m) PROVE rows'[x] = rows[x]
  BY <1>3 DEF DeleteMessage, Live, Present
<1>4. HandlersNext => rows'[x] = rows[x] \/ Entered(x)
  BY <1>1, <1>2, <1>3
  DEF HandlersNext, UploadAttachment, SendMessageHandler, ValidateReplyTarget,
      ForwardRead, EditMessage, Broadcast, Abandon
<1>5. HardDeleteMessage => rows'[x] = rows[x]
  BY DEF HardDeleteMessage, DeleteRow, Present
<1>6. ASSUME NEW m \in MsgId, MarkMessageSent(m) \/ MarkMessageSentFails(m)
      PROVE  rows'[x] = rows[x]
  <2>1. rows' = rows \/ (Present(m) /\ rows' = [rows EXCEPT ![m].status = "sent"])
    BY <1>6 DEF MarkMessageSent, MarkMessageSentFails, SetSent
  <2> QED
    BY <2>1 DEF Present, TypeInv, TypeOK, StoreTypeOK
<1>7. WorkerNext \/ WorkerFails => rows'[x] = rows[x]
  BY <1>5, <1>6
  DEF WorkerNext, WorkerFails, ListDueScheduledMessages, Announce, AnnounceFails,
      DispatchDone, PurgeStart, ListPurgeableMessages, ListPurgeableMessagesFails,
      HardDeleteMessageFails, BatchDone, DeleteObject, DeleteMissingObject,
      DeleteObjectFails
<1> QED
  BY <1>4, <1>7 DEF Next, Client, Worker, Clock, Fault, Crash, TimePasses, vars

\* An object is deleted for a listed message, and none is stored under a key
\* that a message names already.
LEMMA ObjectsKept ==
  ASSUME TypeInv, [Next]_vars, NEW k \in ObjKey
  PROVE  /\ objects[k] = "deleted" => objects'[k] = "deleted"
         /\ objects'[k] = "stored" /\ objects[k] # "stored" =>
               \A m \in MsgId : rows[m].key # k /\ rows'[m].key # k
         /\ objects'[k] = "deleted" /\ objects[k] # "deleted" =>
               /\ wpc = "purge" /\ UNCHANGED <<now, rows>>
               /\ \E m \in batch : rows[m].key = k
<1> USE DEF storeVars, TypeInv, TypeOK, StoreTypeOK
<1>1. ASSUME NEW m \in MsgId, DeleteObject(m) \/ DeleteObjectFails(m)
      PROVE  \/ objects' = objects
             \/ /\ objects' = [objects EXCEPT ![rows[m].key] = "deleted"]
                /\ wpc = "purge" /\ UNCHANGED <<now, rows>> /\ m \in batch
  BY <1>1 DEF DeleteObject, DeleteObjectFails
<1>2. ASSUME NEW u \in ObjKey, UploadAttachment(u)
      PROVE  /\ objects[u] = "unused" /\ objects' = [objects EXCEPT ![u] = "stored"]
             /\ rows' = rows /\ \A m \in MsgId : rows[m].key # u
  BY <1>2 DEF UploadAttachment
<1>3. \/ objects' = objects
      \/ \E u \in ObjKey : UploadAttachment(u)
      \/ \E m \in MsgId : DeleteObject(m) \/ DeleteObjectFails(m)
  BY DEF Next, Client, Worker, Clock, Fault, Crash, TimePasses, vars, HandlersNext,
         SendMessageHandler, CreateMessage, ValidateReplyTarget, ForwardRead,
         ForwardCommit, EditMessage, DeleteMessage, Broadcast, Abandon, WorkerNext,
         WorkerFails, ListDueScheduledMessages, MarkMessageSent, MarkMessageSentFails,
         Announce, AnnounceFails, DispatchDone, PurgeStart, ListPurgeableMessages,
         ListPurgeableMessagesFails, DeleteMissingObject, HardDeleteMessage,
         HardDeleteMessageFails, BatchDone
<1> QED
  BY <1>1, <1>2, <1>3

-----------------------------------------------------------------------------
(* RetentionInv, part by part.                                             *)

LEMMA HandlersWorkersNow == HandlersNext \/ WorkerNext \/ WorkerFails => now' = now
<1>1. HandlersNext => now' = now
  BY DEF HandlersNext, UploadAttachment, SendMessageHandler, CreateMessage,
         ValidateReplyTarget, ForwardRead, ForwardCommit, EditMessage, DeleteMessage,
         Broadcast, Abandon, storeVars
<1>2. WorkerNext \/ WorkerFails => now' = now
  BY DEF WorkerNext, WorkerFails, ListDueScheduledMessages, MarkMessageSent, Announce,
         MarkMessageSentFails, AnnounceFails, DispatchDone, PurgeStart, BatchDone,
         ListPurgeableMessages, ListPurgeableMessagesFails, HardDeleteMessage,
         HardDeleteMessageFails, DeleteObject, DeleteMissingObject, DeleteObjectFails,
         storeVars
<1> QED
  BY <1>1, <1>2

LEMMA ClockStep ==
  ASSUME TypeInv, [Next]_vars
  PROVE  /\ now' \in Nat /\ now <= now'
         /\ \/ now' = now
            \/ TimePasses /\ now' = now + 1 /\ UNCHANGED <<rows, objects>>
<1>1. now' = now \/ TimePasses
  BY HandlersWorkersNow DEF Next, Client, Worker, Clock, Fault, Crash, vars, storeVars
<1> QED
  BY <1>1 DEF TimePasses, TypeInv, TypeOK, StoreTypeOK

LEMMA BlankStep ==
  ASSUME TypeInv, BlankInv, DeadlineInv, [Next]_vars
  PROVE  BlankInv'
<1>1. ASSUME NEW m \in MsgId, rows'[m].state = "absent"
      PROVE  rows'[m] = BlankRow
  <2>1. rows[m].state = "absent"
    BY <1>1, RowsKept DEF Kept
  <2>2. rows'[m] = rows[m] \/ Entered(m)
    BY <2>1, RowsEnter
  <2> QED
    BY <1>1, <2>1, <2>2 DEF BlankInv, Entered, Present
<1> QED
  BY <1>1 DEF BlankInv

LEMMA RootStep ==
  ASSUME TypeInv, BlankInv, DeadlineInv, RootInv, [Next]_vars
  PROVE  RootInv'
<1> SUFFICES ASSUME NEW m \in MsgId, rows'[m].root # NoMsg
             PROVE  /\ rows'[rows'[m].root].state # "absent"
                    /\ rows'[rows'[m].root].root = NoMsg
                    /\ Present(m)' => rows'[rows'[m].root].state = "present"
  BY DEF RootInv, Present
<1>1. CASE rows[m].state = "absent"
  <2>1. Entered(m)
    BY <1>1, RowsEnter DEF BlankInv, BlankRow
  <2>2. rows'[m].root \in MsgId
    BY TypeStep DEF TypeInv, TypeOK, StoreTypeOK, Row
  <2> QED
    BY <2>1, <2>2, RowsKept DEF Entered, Kept, Present
<1>2. CASE rows[m].state # "absent"
  <2> DEFINE r == rows[m].root
  <2>1. rows'[m].root = r /\ (Present(m)' => Present(m))
    BY <1>2, RowsKept DEF Kept
  <2>2. r \in MsgId
    BY <2>1 DEF TypeInv, TypeOK, StoreTypeOK, Row
  <2>3. rows[r].state # "absent" /\ rows[r].root = NoMsg /\ (Present(m) => Present(r))
    BY <2>1 DEF RootInv
  <2>4. rows'[r].state # "absent" /\ rows'[r].root = NoMsg
    BY <2>2, <2>3, RowsKept DEF Kept
  <2>5. Leaves(r) => ~Present(m)'
    BY <2>2, <2>3, IdAssumption, RowsLeave
  <2> QED
    BY <2>1, <2>3, <2>4, <2>5 DEF Leaves, Present
<1> QED
  BY <1>1, <1>2

\* A request in flight after a step was so before, or is as old as one that
\* was, or begins now; one that becomes a reply has just found its root live.
Begins(p) ==
    /\ UNCHANGED now
    /\ p.since = now \/ \E q \in requests : p.since = q.since
    /\ p.kind = "reply" => Live(p.msg) /\ rows[p.msg].root = NoMsg /\ UNCHANGED rows

LEMMA RequestsStep ==
  ASSUME TypeInv, [Next]_vars, NEW p \in requests'
  PROVE  p \in requests \/ Begins(p)
<1>1. ASSUME NEW d, SendMessageHandler(d) PROVE p \in requests \/ Begins(p)
  BY <1>1 DEF SendMessageHandler, Begins, storeVars
<1>2. ASSUME NEW q \in requests, NEW m \in MsgId, ValidateReplyTarget(q, m)
      PROVE  p \in requests \/ Begins(p)
  <2>1. ReplyOf(q, m).msg = m /\ ReplyOf(q, m).since = q.since
    BY <1>2, ReplyType DEF ValidateReplyTarget, TypeInv, TypeOK, HandlersTypeOK
  <2> QED
    BY <1>2, <2>1 DEF ValidateReplyTarget, Begins, storeVars
<1>3. ASSUME NEW q \in requests, NEW m, NEW k, CreateMessage(q, m, k)
      PROVE  p \in requests \/ Begins(p)
  BY <1>3 DEF CreateMessage, Asked, Begins
<1>4. ASSUME NEW m, ForwardRead(m) \/ EditMessage(m)
      PROVE  p \in requests \/ Begins(p)
  BY <1>4 DEF ForwardRead, EditMessage, Asked, Begins, storeVars
<1>5. ASSUME NEW q \in requests, NEW S, ForwardCommit(q, S)
      PROVE  p \in requests \/ Begins(p)
  BY <1>5 DEF ForwardCommit, Asked, Begins
<1>6. HandlersNext => p \in requests \/ Begins(p)
  BY <1>1, <1>2, <1>3, <1>4, <1>5
  DEF HandlersNext, UploadAttachment, DeleteMessage, Broadcast, Abandon
<1> QED
  BY <1>6 DEF Next, Client, Worker, Clock, TimePasses, Fault, Crash, vars

\* What the worker is about to drop is not the root of a reply in flight.
LEMMA TargetStays ==
  ASSUME TypeInv, DeadlineInv, PurgeInv, [Next]_vars,
         NEW p \in requests, p.kind = "reply"
  PROVE  Present(p.msg)'
<1>1. p.msg \in MsgId /\ p.since \in Nat /\ rows[p.msg] \in Row
  BY RequestTypes DEF TypeInv, TypeOK, StoreTypeOK, HandlersTypeOK
<1>2. SUFFICES ASSUME Leaves(p.msg) PROVE FALSE
  BY DEF DeadlineInv, Leaves
<1>3. wpc = "drop" /\ p.msg = cur
  BY <1>1, <1>2, RowsLeave, IdAssumption DEF DeadlineInv
<1>4. Deleted(p.msg) /\ rows[p.msg].deletedAt + Retention < passTime
  BY <1>3 DEF PurgeInv, Expired
<1>5. p.since <= rows[p.msg].deletedAt /\ now <= p.since + RequestTimeout
  BY <1>4 DEF DeadlineInv
<1>6. passTime <= now /\ passTime \in Nat /\ now \in Nat
  BY DEF PurgeInv, TypeInv, TypeOK, StoreTypeOK, WorkerTypeOK
<1>7. rows[p.msg].deletedAt \in Nat
  BY <1>1 DEF Row
<1> QED
  BY <1>1, <1>4, <1>5, <1>6, <1>7, HandlerAssumption, ClockAssumption

LEMMA DeadlineStep ==
  ASSUME TypeInv, DeadlineInv, PurgeInv, [Next]_vars
  PROVE  DeadlineInv'
<1> SUFFICES ASSUME NEW p \in requests'
             PROVE  /\ p.since <= now' /\ now' <= p.since + RequestTimeout
                    /\ p.kind = "reply" =>
                          /\ Present(p.msg)' /\ rows'[p.msg].root = NoMsg
                          /\ rows'[p.msg].deletedAt # 0 =>
                                p.since <= rows'[p.msg].deletedAt
  BY DEF DeadlineInv, Deleted, Present
<1>1. /\ now \in Nat /\ now' \in Nat /\ now <= now'
      /\ requests \subseteq Request /\ RequestTimeout \in Nat
  BY ClockStep, HandlerAssumption DEF TypeInv, TypeOK, StoreTypeOK, HandlersTypeOK
<1>2. CASE p \in requests
  <2>1. p.since <= now /\ now <= p.since + RequestTimeout /\ p.since \in Nat
    BY <1>1, <1>2, RequestTypes DEF DeadlineInv
  <2>2. now' <= p.since + RequestTimeout
    <3>1. CASE now' = now
      BY <2>1, <3>1
    <3>2. CASE TimePasses
      <4>1. now < p.since + RequestTimeout /\ now' = now + 1
        BY <1>2, <3>2 DEF TimePasses
      <4> QED
        BY <1>1, <2>1, <4>1
    <3> QED
      BY <3>1, <3>2, ClockStep
  <2>3. ASSUME p.kind = "reply"
        PROVE  /\ Present(p.msg)' /\ rows'[p.msg].root = NoMsg
               /\ rows'[p.msg].deletedAt # 0 => p.since <= rows'[p.msg].deletedAt
    <3>1. p.msg \in MsgId
      BY <1>1, <1>2, <2>3, RequestTypes
    <3>2. /\ Present(p.msg) /\ rows[p.msg].root = NoMsg
          /\ Deleted(p.msg) => p.since <= rows[p.msg].deletedAt
      BY <1>2, <2>3 DEF DeadlineInv
    <3>3. Kept(p.msg) /\ Present(p.msg)'
      BY <1>2, <2>3, <3>1, RowsKept, TargetStays
    <3>4. rows'[p.msg].root = NoMsg
      BY <3>2, <3>3 DEF Kept, Present
    <3>5. rows'[p.msg].deletedAt \in {rows[p.msg].deletedAt, now}
      BY <3>2, <3>3 DEF Kept, Present
    <3>6. rows'[p.msg].deletedAt # 0 => p.since <= rows'[p.msg].deletedAt
      BY <2>1, <3>2, <3>5 DEF Deleted
    <3> QED
      BY <3>3, <3>4, <3>6
  <2> QED
    BY <1>1, <2>1, <2>2, <2>3
<1>3. CASE Begins(p)
  <2>1. p.since <= now' /\ now' <= p.since + RequestTimeout
    BY <1>1, <1>3 DEF Begins, DeadlineInv
  <2> QED
    BY <1>3, <2>1 DEF Begins, Live, Present, Deleted
<1> QED
  BY <1>2, <1>3, RequestsStep

\* Where the worker's batch, its place and the time of its pass come from.
LEMMA PassStep ==
  ASSUME [Next]_vars
  PROVE  /\ passTime' = passTime \/ passTime' = 0 \/ (passTime' = now /\ now' = now)
         /\ wpc' \in {"purge", "drop"} =>
               /\ passTime' = passTime /\ gcs' = gcs
               /\ \/ batch' = {m \in batch' : m \in MsgId /\ Purgeable(m, passTime)}
                     /\ UNCHANGED rows
                  \/ wpc \in {"purge", "drop"} /\ batch' \subseteq batch
         /\ wpc' = "drop" =>
               \/ wpc = "drop" /\ cur' = cur
               \/ /\ wpc = "purge" /\ cur' \in batch /\ UNCHANGED rows
                  /\ \/ rows[cur'].key = NoKey \/ ~gcs
                     \/ objects' = [objects EXCEPT ![rows[cur'].key] = "deleted"]
  BY DEF Next, Client, Worker, Clock, Fault, Crash, vars, storeVars, workerVars,
         Return, WorkerNext, WorkerFails, ListDueScheduledMessages, MarkMessageSent,
         MarkMessageSentFails, Announce, AnnounceFails, DispatchDone, PurgeStart,
         BatchDone, ListPurgeableMessages, ListPurgeableMessagesFails,
         HardDeleteMessage, HardDeleteMessageFails, DeleteObject, DeleteMissingObject,
         DeleteObjectFails

\* A message that has expired at a pass stays so.
LEMMA ExpiredStays ==
  ASSUME TypeInv, BlankInv, [Next]_vars, NEW m \in MsgId, Expired(m)
  PROVE  /\ rows'[m].deletedAt = rows[m].deletedAt /\ rows'[m].key = rows[m].key
         /\ rows[m].state # "absent"
         /\ passTime' = passTime => Expired(m)'
<1>1. rows[m].state # "absent" /\ Deleted(m)
  BY DEF BlankInv, BlankRow, Expired, Deleted
<1> QED
  BY <1>1, RowsKept DEF Kept, Expired, Deleted

LEMMA PurgeStep ==
  ASSUME TypeInv, BlankInv, PurgeInv, [Next]_vars
  PROVE  PurgeInv'
<1>0. /\ passTime \in Nat /\ now \in Nat /\ now' \in Nat /\ now <= now'
      /\ passTime <= now /\ batch \subseteq MsgId /\ objects \in [ObjKey -> {"unused", "stored", "deleted"}]
      /\ batch' \subseteq MsgId
  BY ClockStep, TypeStep DEF PurgeInv, TypeInv, TypeOK, StoreTypeOK, WorkerTypeOK
<1>1. passTime' <= now'
  BY <1>0, PassStep
<1>2. ASSUME wpc' \in {"purge", "drop"}, NEW m \in batch'
      PROVE  Expired(m)'
  <2>1. passTime' = passTime
    BY <1>2, PassStep
  <2>2. CASE Purgeable(m, passTime) /\ UNCHANGED rows
    BY <2>1, <2>2 DEF Purgeable, Expired, Deleted
  <2>3. CASE wpc \in {"purge", "drop"} /\ m \in batch
    BY <1>0, <2>1, <2>3, ExpiredStays DEF PurgeInv
  <2> QED
    BY <1>2, <2>2, <2>3, PassStep
<1>3. ASSUME wpc' = "drop"
      PROVE  /\ Expired(cur)'
             /\ gcs' /\ rows'[cur'].key # NoKey => objects'[rows'[cur'].key] = "deleted"
  <2>1. passTime' = passTime /\ gcs' = gcs
    BY <1>3, PassStep
  <2>2. CASE wpc = "drop" /\ cur' = cur
    <3>1. cur \in MsgId /\ Expired(cur)
      BY <2>2 DEF TypeInv, PurgeInv
    <3>2. gcs /\ rows[cur].key # NoKey => objects[rows[cur].key] = "deleted"
      BY <2>2 DEF PurgeInv
    <3>3. rows[cur].key \in ObjKey \cup {NoKey}
      BY <3>1, RowTypes DEF TypeInv, TypeOK, StoreTypeOK
    <3>4. Expired(cur)' /\ rows'[cur].key = rows[cur].key
      BY <2>1, <2>2, <3>1, ExpiredStays DEF Expired, Deleted
    <3> QED
      BY <2>1, <2>2, <3>2, <3>3, <3>4, ObjectsKept
  <2>3. CASE /\ wpc = "purge" /\ cur' \in batch /\ UNCHANGED rows
             /\ \/ rows[cur'].key = NoKey \/ ~gcs
                \/ objects' = [objects EXCEPT ![rows[cur'].key] = "deleted"]
    <3>1. rows[cur'].key \in ObjKey \cup {NoKey}
      BY <1>0, <2>3, RowTypes DEF TypeInv, TypeOK, StoreTypeOK
    <3>2. Expired(cur')
      BY <2>3 DEF PurgeInv
    <3> QED
      BY <1>0, <2>1, <2>3, <3>1, <3>2 DEF Expired, Deleted
  <2> QED
    BY <1>3, <2>2, <2>3, PassStep
<1> QED
  BY <1>1, <1>2, <1>3 DEF PurgeInv

LEMMA AgedStays ==
  ASSUME TypeInv, BlankInv, [Next]_vars, NEW m \in MsgId, Aged(m)
  PROVE  Aged(m)' /\ rows'[m].key = rows[m].key
<1>1. rows[m].state # "absent" /\ Deleted(m)
  BY DEF BlankInv, BlankRow, Aged, Deleted
<1>2. rows'[m].deletedAt = rows[m].deletedAt /\ rows'[m].key = rows[m].key
  BY <1>1, RowsKept DEF Kept
<1>3. rows[m].deletedAt \in Nat /\ now \in Nat /\ now' \in Nat /\ now <= now'
  BY ClockStep DEF TypeInv, TypeOK, StoreTypeOK, Row
<1> QED
  BY <1>2, <1>3, ClockAssumption DEF Aged, Deleted

LEMMA ExpiredIsAged ==
  ASSUME TypeInv, PurgeInv, NEW m \in MsgId, Expired(m)
  PROVE  Aged(m)
  BY ClockAssumption
  DEF TypeInv, TypeOK, StoreTypeOK, WorkerTypeOK, Row, PurgeInv, Expired, Aged

LEMMA ObjectsStep ==
  ASSUME TypeInv, BlankInv, PurgeInv, ObjectsLeaveAged, [Next]_vars
  PROVE  ObjectsLeaveAged'
<1> SUFFICES ASSUME NEW k \in ObjKey, objects'[k] = "deleted"
             PROVE  \E m \in MsgId : rows'[m].key = k /\ Aged(m)'
  BY DEF ObjectsLeaveAged, Aged, Deleted
<1>1. PICK m \in MsgId : rows[m].key = k /\ Aged(m)
  <2>1. CASE objects[k] = "deleted"
    BY <2>1 DEF ObjectsLeaveAged
  <2>2. CASE objects[k] # "deleted"
    <3>1. PICK m \in batch : rows[m].key = k
      BY <2>2, ObjectsKept
    <3>2. m \in MsgId /\ Expired(m)
      BY <2>2, ObjectsKept DEF PurgeInv, TypeInv, TypeOK, WorkerTypeOK
    <3> QED
      BY <3>1, <3>2, ExpiredIsAged
  <2> QED
    BY <2>1, <2>2
<1> QED
  BY <1>1, AgedStays

LEMMA GcsIsUp ==
  ASSUME TypeInv, GcsInit = {TRUE}
  PROVE  gcs
  BY DEF TypeInv, TypeOK, StoreTypeOK

LEMMA OrphansStep ==
  ASSUME TypeInv, RetentionInv, [Next]_vars, GcsInit = {TRUE}
  PROVE  OrphansWereReplies'
<1> USE DEF RetentionInv
<1> SUFFICES ASSUME NEW k \in ObjKey, objects'[k] = "stored",
                    NEW w \in MsgId, rows'[w].key = k
             PROVE  \E m \in MsgId :
                       /\ rows'[m].key = k
                       /\ \/ rows'[m].state = "present"
                          \/ /\ rows'[m].root # NoMsg
                             /\ rows'[rows'[m].root].state # "present"
  BY DEF OrphansWereReplies, Present
<1>0. k # NoKey
  BY IdAssumption
<1>1. CASE rows[w].state = "absent"
  <2>1. rows[w].key = NoKey
    BY <1>1 DEF BlankInv, BlankRow
  <2>2. Entered(w)
    BY <1>0, <1>1, <2>1, RowsEnter
  <2> QED
    BY <2>2 DEF Entered, Present
<1>2. CASE rows[w].state # "absent"
  <2>1. rows[w].key = k
    BY <1>2, RowsKept DEF Kept
  <2>2. objects[k] = "stored"
    BY <2>1, ObjectsKept
  <2>3. PICK m \in MsgId :
          /\ rows[m].key = k
          /\ \/ Present(m)
             \/ rows[m].root # NoMsg /\ ~Present(rows[m].root)
    BY <2>1, <2>2 DEF OrphansWereReplies
  <2>4. rows[m].state # "absent"
    BY <1>0, <2>3 DEF BlankInv, BlankRow
  <2>5. rows'[m].key = k /\ rows'[m].root = rows[m].root
    BY <2>3, <2>4, RowsKept DEF Kept
  <2>6. CASE Leaves(m)
    <3>1. /\ wpc = "drop" /\ cur \in MsgId /\ (m = cur \/ rows[m].root = cur)
          /\ rows'[cur].state # "present"
      BY <2>6, RowsLeave DEF Present
    <3>2. m # cur
      BY <1>0, <2>2, <2>3, <3>1, GcsIsUp DEF PurgeInv
    <3> QED
      BY <2>5, <3>1, <3>2, IdAssumption DEF Present
  <2>7. CASE ~Leaves(m) /\ Present(m)
    BY <2>5, <2>7 DEF Leaves, Present
  <2>8. CASE ~Present(m)
    <3>1. rows[m].root \in MsgId /\ ~Present(rows[m].root)
      BY <2>3, <2>8 DEF TypeInv, TypeOK, StoreTypeOK, Row
    <3>2. rows[rows[m].root].state # "absent"
      BY <3>1, IdAssumption DEF RootInv
    <3> QED
      BY <2>3, <2>5, <2>8, <3>1, <3>2, RowsKept DEF Kept, Present
  <2> QED
    BY <2>6, <2>7, <2>8
<1> QED
  BY <1>1, <1>2

LEMMA RetentionInvariant == Spec => []RetentionInv
<1>1. Init => RetentionInv
  BY IdAssumption
  DEF Init, StoreInit, HandlersInit, WorkerInit, RetentionInv, BlankInv,
      RootInv, DeadlineInv, PurgeInv, ObjectsLeaveAged, OrphansWereReplies, BlankRow
<1>2. TypeInv /\ RetentionInv /\ [Next]_vars => RetentionInv'
  BY BlankStep, RootStep, DeadlineStep, PurgeStep, ObjectsStep, OrphansStep
  DEF RetentionInv
<1> QED
  BY <1>1, <1>2, TypeInvariant, PTL DEF Spec

\* Threads stay one level deep under a root that is in the table, although the
\* target of a reply is checked before, and not with, the insert.
THEOREM ThreadsAreFlat == Spec => []FlatThreads
<1>1. RetentionInv => FlatThreads
  BY DEF RetentionInv, RootInv, FlatThreads
<1> QED
  BY <1>1, RetentionInvariant, PTL

\* The deadline of a request, at most the retention period, keeps the purge
\* away from the target that the request has checked.
THEOREM ReplyTargetsStay == Spec => []RepliesFindTheirRoot
<1>1. RetentionInv => RepliesFindTheirRoot
  BY DEF RetentionInv, DeadlineInv, RepliesFindTheirRoot
<1> QED
  BY <1>1, RetentionInvariant, PTL

\* The bucket loses an object only for a message that has aged.
THEOREM ObjectsWait == Spec => []ObjectsLeaveAged
<1>1. RetentionInv => ObjectsLeaveAged
  BY DEF RetentionInv
<1> QED
  BY <1>1, RetentionInvariant, PTL

\* The cascade from a thread root is the only source of orphaned objects,
\* whichever calls to the database and the bucket fail and wherever it crashes,
\* if every process gets its client for the bucket.
THEOREM OrphansComeFromCascades ==
  ASSUME GcsInit = {TRUE}
  PROVE  Spec => []OrphansWereReplies
<1>1. RetentionInv => OrphansWereReplies
  BY DEF RetentionInv
<1> QED
  BY <1>1, RetentionInvariant, PTL

\* No row leaves before its time, other than with its thread root.
THEOREM RowsWait == Spec => RowsLeaveAged
<1>1. ASSUME TypeInv, RetentionInv, [Next]_vars, NEW m \in MsgId, Leaves(m)
      PROVE  Aged(m) \/ \E r \in MsgId : CascadedFrom(r, m) /\ Aged(r)
  <2>1. /\ wpc = "drop" /\ cur \in MsgId /\ (m = cur \/ rows[m].root = cur)
        /\ rows'[cur].state # "present"
    BY <1>1, RowsLeave DEF Present
  <2>2. Aged(cur)
    BY <1>1, <2>1, ExpiredIsAged DEF RetentionInv, PurgeInv
  <2>3. m # cur => Present(cur)
    BY <1>1, <2>1, IdAssumption DEF RetentionInv, RootInv, Leaves, Present
  <2> QED
    BY <2>1, <2>2, <2>3, IdAssumption DEF CascadedFrom, Leaves, Present
<1>2. TypeInv /\ RetentionInv /\ [Next]_vars =>
        [\A m \in MsgId :
            Leaves(m) => Aged(m) \/ \E r \in MsgId : CascadedFrom(r, m) /\ Aged(r)]_vars
  BY <1>1
<1> QED
  BY <1>2, TypeInvariant, RetentionInvariant, PTL DEF Spec, RowsLeaveAged

\* A purge by a process with a client for the bucket takes the object before it
\* takes the row: PurgeInv says so of the row at hand.
THEOREM ObjectsGoFirst == Spec => ObjectLeavesFirst
<1>1. ASSUME TypeInv, RetentionInv, [Next]_vars, NEW m \in MsgId,
             gcs, Leaves(m), rows[m].key # NoKey
      PROVE  \/ objects[rows[m].key] = "deleted"
             \/ \E r \in MsgId : CascadedFrom(r, m)
  <2>1. /\ wpc = "drop" /\ cur \in MsgId /\ (m = cur \/ rows[m].root = cur)
        /\ rows'[cur].state # "present"
    BY <1>1, RowsLeave DEF Present
  <2>2. CASE m = cur
    BY <1>1, <2>1, <2>2 DEF RetentionInv, PurgeInv
  <2>3. CASE m # cur
    <3>1. Present(cur)
      BY <1>1, <2>1, <2>3, IdAssumption DEF RetentionInv, RootInv, Leaves, Present
    <3> QED
      BY <2>1, <2>3, <3>1, IdAssumption DEF CascadedFrom, Leaves, Present
  <2> QED
    BY <2>2, <2>3
<1>2. TypeInv /\ RetentionInv /\ [Next]_vars =>
        [\A m \in MsgId : gcs /\ Leaves(m) /\ rows[m].key # NoKey =>
            \/ objects[rows[m].key] = "deleted"
            \/ \E r \in MsgId : CascadedFrom(r, m)]_vars
  BY <1>1
<1> QED
  BY <1>2, TypeInvariant, RetentionInvariant, PTL DEF Spec, ObjectLeavesFirst

-----------------------------------------------------------------------------
(* Withdrawing.                                                            *)

LEMMA HandlersWithdraw ==
  ASSUME TypeInv, HandlersNext, UNCHANGED <<workerVars, faults>>,
         NEW m \in MsgId, rows[m].state # "absent", announced[m] = 0, ~Announcing(m)
  PROVE  announced'[m] = 0 /\ ~Announcing(m)'
<1> USE DEF Announcing, workerVars, storeVars
<1>1. ASSUME NEW d, SendMessageHandler(d) PROVE announced'[m] = 0 /\ ~Announcing(m)'
  BY <1>1 DEF SendMessageHandler
<1>2. ASSUME NEW p \in requests, NEW x \in MsgId, ValidateReplyTarget(p, x)
      PROVE  announced'[m] = 0 /\ ~Announcing(m)'
  <2>1. ReplyOf(p, x).kind = "reply"
    BY <1>2, ReplyType DEF ValidateReplyTarget, TypeInv, TypeOK, HandlersTypeOK
  <2> QED
    BY <1>2, <2>1 DEF ValidateReplyTarget
<1>3. ASSUME NEW p \in requests, NEW x \in MsgId, NEW k, CreateMessage(p, x, k)
      PROVE  announced'[m] = 0 /\ ~Announcing(m)'
  BY <1>3 DEF CreateMessage, InsertRows, Asked
<1>4. ASSUME NEW p \in requests, NEW S \in SUBSET MsgId, ForwardCommit(p, S)
      PROVE  announced'[m] = 0 /\ ~Announcing(m)'
  BY <1>4 DEF ForwardCommit, InsertRows, Asked
<1>5. ASSUME NEW p \in requests, Broadcast(p)
      PROVE  announced'[m] = 0 /\ ~Announcing(m)'
  <2>1. p.kind = "message" => p.msg # m
    OBVIOUS
  <2>2. \/ announced' = announced
        \/ p.kind = "message" /\ announced' = [announced EXCEPT ![p.msg] = @ + 1]
    BY <1>5 DEF Broadcast, Tell
  <2> QED
    BY <1>5, <2>1, <2>2 DEF Broadcast, TypeInv, TypeOK, StoreTypeOK
<1> QED
  BY <1>1, <1>2, <1>3, <1>4, <1>5
  DEF HandlersNext, UploadAttachment, ForwardRead, EditMessage, DeleteMessage,
      Abandon, Asked

LEMMA WorkerWithdraws ==
  ASSUME TypeInv, WorkerNext \/ WorkerFails, UNCHANGED requests,
         NEW m \in MsgId, Deleted(m), announced[m] = 0, ~Announcing(m)
  PROVE  announced'[m] = 0 /\ ~Announcing(m)'
<1> USE DEF Announcing, storeVars
<1>1. CASE ListDueScheduledMessages
  BY <1>1 DEF ListDueScheduledMessages, Due, Live
<1>2. CASE Announce
  BY <1>2 DEF Announce, Tell, TypeInv, TypeOK, StoreTypeOK
<1> QED
  BY <1>1, <1>2
  DEF WorkerNext, WorkerFails, MarkMessageSent, Return,
      MarkMessageSentFails, AnnounceFails, DispatchDone, PurgeStart, BatchDone,
      ListPurgeableMessages, ListPurgeableMessagesFails, HardDeleteMessage,
      HardDeleteMessageFails, DeleteObject, DeleteMissingObject, DeleteObjectFails

\* A message deleted before its announcement was under way is never announced.
THEOREM WithdrawnStaysWithdrawn == Spec => WithdrawnIsFinal
<1>1. ASSUME TypeInv, RetentionInv, [Next]_vars, NEW m \in MsgId, Withdrawn(m)
      PROVE  Withdrawn(m)'
  <2>1. Deleted(m) /\ rows[m].state # "absent" /\ announced[m] = 0 /\ ~Announcing(m)
    BY <1>1 DEF Withdrawn, Deleted, RetentionInv, BlankInv, BlankRow
  <2>2. Deleted(m)'
    BY <1>1, <2>1, RowsKept DEF Kept, Deleted
  <2>3. announced'[m] = 0 /\ ~Announcing(m)'
    <3>1. CASE Client
      BY <1>1, <2>1, <3>1, HandlersWithdraw DEF Client
    <3>2. CASE Worker
      BY <1>1, <2>1, <3>2, WorkerWithdraws DEF Worker
    <3>3. CASE Clock
      BY <2>1, <3>3 DEF Clock, TimePasses, workerVars, Announcing
    <3>4. CASE Fault /\ Crash
      BY <2>1, <3>4 DEF Crash, Return, storeVars, Announcing
    <3>5. CASE Fault /\ WorkerFails /\ UNCHANGED <<requests, gcs>>
      BY <1>1, <2>1, <3>5, WorkerWithdraws
    <3>6. CASE UNCHANGED vars
      BY <2>1, <3>6 DEF vars, storeVars, workerVars, Announcing
    <3> QED
      BY <1>1, <3>1, <3>2, <3>3, <3>4, <3>5, <3>6 DEF Next, Fault
  <2> QED
    BY <2>2, <2>3 DEF Withdrawn
<1>2. TypeInv /\ RetentionInv /\ [Next]_vars =>
        [\A m \in MsgId : Withdrawn(m) => Withdrawn(m)']_vars
  BY <1>1
<1> QED
  BY <1>2, TypeInvariant, RetentionInvariant, PTL DEF Spec, WithdrawnIsFinal

-----------------------------------------------------------------------------
(* The service implements the abstract life cycle                          *)

RowPhase(row) ==
    CASE row.state = "absent"  -> "none"
      [] row.state = "removed" -> "gone"
      [] row.state = "present" /\ row.deletedAt = 0 ->
            IF row.status = "sent" THEN "sent" ELSE "held"
      [] OTHER -> "deleted"

LEMMA RowPhases ==
  ASSUME NEW row \in Row
  PROVE  /\ row.state = "absent" => RowPhase(row) = "none"
         /\ row.state = "removed" => RowPhase(row) = "gone"
         /\ row.state = "present" /\ row.deletedAt # 0 => RowPhase(row) = "deleted"
         /\ row.state = "present" /\ row.deletedAt = 0 /\ row.status = "sent" =>
               RowPhase(row) = "sent"
         /\ row.state = "present" /\ row.deletedAt = 0 /\ row.status = "scheduled" =>
               RowPhase(row) = "held"
         /\ row.state \in {"absent", "present", "removed"}
         /\ row.status \in {"sent", "scheduled"}
  BY DEF RowPhase, Row

LEMMA PhaseIsOfRow ==
  ASSUME NEW m
  PROVE  PhaseOf(m) = RowPhase(rows[m]) /\ PhaseOf(m)' = RowPhase(rows'[m])
  BY DEF PhaseOf, RowPhase, Live, Present, Deleted

LEMMA InitImplements == Init => Lifecycle!Init
<1> SUFFICES ASSUME Init PROVE Lifecycle!Init
  OBVIOUS
<1>1. \A m \in MsgId : PhaseOf(m) = "none" /\ rows[m].root = NoMsg
  <2>1. BlankRow \in Row
    BY DEF BlankRow, Row
  <2>2. \A m \in MsgId : rows[m] = BlankRow
    BY DEF Init, StoreInit
  <2>3. RowPhase(BlankRow) = "none"
    BY <2>1, RowPhases DEF BlankRow
  <2> QED
    BY <2>2, <2>3, PhaseIsOfRow DEF BlankRow
<1> QED
  BY <1>1 DEF Lifecycle!Init, Init, StoreInit

\* A step that leaves the rows' phases and roots and the announcements alone.
LEMMA Stutters ==
  ASSUME \A m \in MsgId : PhaseOf(m)' = PhaseOf(m) /\ rows'[m].root = rows[m].root,
         UNCHANGED announced
  PROVE  UNCHANGED Lifecycle!lifeVars
  BY DEF Lifecycle!lifeVars

LEMMA RowsUnchanged ==
  ASSUME UNCHANGED <<rows, announced>>
  PROVE  UNCHANGED Lifecycle!lifeVars
  BY PhaseIsOfRow, Stutters

\* Rows S enter with the same contents.
LEMMA CreateImplements ==
  ASSUME TypeInv, TypeInv', NEW S \in SUBSET MsgId, S # {},
         NEW r \in MsgId \cup {NoMsg}, NEW row, InsertRows(S, r, row),
         row.state = "present", row.deletedAt = 0, row.root \in {r, NoMsg},
         row.root # NoMsg => rows[r].root = NoMsg, UNCHANGED announced
  PROVE  Lifecycle!Next
<1>1. \A m \in S : rows[m].state = "absent" /\ rows'[m] = row
  BY Inserted
<1>2. \A m \in MsgId \ S : rows'[m] = rows[m]
  BY Inserted
<1>3. PICK m \in S : TRUE
  OBVIOUS
<1>4. row \in Row /\ rows \in [MsgId -> Row]
  BY <1>1, <1>3 DEF TypeInv, TypeOK, StoreTypeOK
<1>5. RowPhase(row) \in {"held", "sent"}
  BY <1>4, RowPhases
<1>6. \A x \in S : PhaseOf(x) = "none" /\ PhaseOf(x)' = RowPhase(row)
  BY <1>1, <1>4, PhaseIsOfRow, RowPhases
<1>7. \A x \in MsgId \ S : PhaseOf(x)' = PhaseOf(x)
  BY <1>2, PhaseIsOfRow
<1>8. row.root # NoMsg => PhaseOf(row.root) \notin {"none", "gone"}
  <2>1. row.root # NoMsg => row.root \in MsgId /\ rows[row.root].state = "present"
    BY DEF InsertRows, Present
  <2> QED
    BY <1>4, <2>1, PhaseIsOfRow, RowPhases
<1>9. Lifecycle!Create(S, RowPhase(row), row.root)
  BY <1>1, <1>2, <1>6, <1>7, <1>8 DEF Lifecycle!Create, Lifecycle!IsRoot
<1> QED
  BY <1>5, <1>9 DEF Lifecycle!Next

LEMMA AnnounceImplements ==
  ASSUME TypeInv, NEW m \in MsgId, Sent(m), announced[m] = 0,
         announced' = [announced EXCEPT ![m] = @ + 1], UNCHANGED rows
  PROVE  Lifecycle!Next
<1>1. PhaseOf(m) \notin {"none", "held"}
  BY PhaseIsOfRow, RowPhases DEF Sent, TypeInv, TypeOK, StoreTypeOK
<1>2. announced' = [announced EXCEPT ![m] = 1]
  BY DEF TypeInv, TypeOK, StoreTypeOK
<1>3. \A x \in MsgId : PhaseOf(x)' = PhaseOf(x)
  BY PhaseIsOfRow
<1>4. Lifecycle!Announce(m)
  BY <1>1, <1>2, <1>3 DEF Lifecycle!Announce
<1> QED
  BY <1>4 DEF Lifecycle!Next

LEMMA DeleteImplements ==
  ASSUME TypeInv, TypeInv', NEW m \in MsgId, DeleteMessage(m)
  PROVE  Lifecycle!Next
<1>0. rows \in [MsgId -> Row] /\ rows' \in [MsgId -> Row] /\ now \in Nat \ {0}
  BY DEF TypeInv, TypeOK, StoreTypeOK
<1>1. PhaseOf(m) \in {"held", "sent"}
  BY <1>0, PhaseIsOfRow, RowPhases DEF DeleteMessage, Live, Present, Deleted
<1>2. PhaseOf(m)' = "deleted"
  <2>1. rows'[m].state = "present" /\ rows'[m].deletedAt # 0
    BY <1>0, SoftDeleted DEF DeleteMessage, Live, Present
  <2> QED
    BY <1>0, <2>1, PhaseIsOfRow, RowPhases
<1>3. \A x \in MsgId \ {m} : PhaseOf(x)' = PhaseOf(x)
  <2>1. \A x \in MsgId \ {m} : rows'[x] = rows[x]
    BY <1>0 DEF DeleteMessage
  <2> QED
    BY <2>1, PhaseIsOfRow
<1>4. \A x \in MsgId : rows'[x].root = rows[x].root
  BY SoftDeleted
<1>5. Lifecycle!Retract(m)
  BY <1>1, <1>2, <1>3, <1>4 DEF Lifecycle!Retract, DeleteMessage
<1> QED
  BY <1>5 DEF Lifecycle!Next

LEMMA ReleaseImplements ==
  ASSUME TypeInv, NEW m \in MsgId, Present(m), rows[m].status = "scheduled",
         rows' = [rows EXCEPT ![m].status = "sent"], UNCHANGED announced
  PROVE  [Lifecycle!Next]_(Lifecycle!lifeVars)
<1>0. rows \in [MsgId -> Row]
  BY DEF TypeInv, TypeOK, StoreTypeOK
<1>1. rows'[m] \in Row /\ rows[m] \in Row
  BY <1>0, RowTypes
<1>2. \A x \in MsgId \ {m} : PhaseOf(x)' = PhaseOf(x)
  <2>1. \A x \in MsgId \ {m} : rows'[x] = rows[x]
    BY <1>0
  <2> QED
    BY <2>1, PhaseIsOfRow
<1>3. /\ \A x \in MsgId : rows'[x].root = rows[x].root
      /\ rows'[m].state = "present" /\ rows'[m].deletedAt = rows[m].deletedAt
      /\ rows'[m].status = "sent"
  BY MarkedSent DEF Present
<1>4. CASE Deleted(m)
  <2>1. PhaseOf(m) = "deleted" /\ PhaseOf(m)' = "deleted"
    BY <1>1, <1>3, <1>4, PhaseIsOfRow, RowPhases DEF Present, Deleted
  <2> QED
    BY <1>2, <1>3, <2>1, Stutters
<1>5. CASE ~Deleted(m)
  <2>1. PhaseOf(m) = "held"
    BY <1>1, <1>5, PhaseIsOfRow, RowPhases DEF Present, Deleted
  <2>2. PhaseOf(m)' = "sent"
    <3>1. rows'[m].state = "present" /\ rows'[m].deletedAt = 0 /\ rows'[m].status = "sent"
      BY <1>3, <1>5 DEF Deleted
    <3> QED
      BY <1>1, <3>1, PhaseIsOfRow, RowPhases
  <2>3. Lifecycle!Release(m)
    BY <1>2, <1>3, <2>1, <2>2 DEF Lifecycle!Release
  <2> QED
    BY <2>3 DEF Lifecycle!Next
<1> QED
  BY <1>4, <1>5

LEMMA DropImplements ==
  ASSUME TypeInv, TypeInv', RetentionInv, HardDeleteMessage
  PROVE  [Lifecycle!Next]_(Lifecycle!lifeVars)
<1>0. /\ rows \in [MsgId -> Row] /\ rows' \in [MsgId -> Row] /\ cur \in MsgId
      /\ Deleted(cur) /\ DeleteRow(cur) /\ UNCHANGED announced
  BY DEF TypeInv, TypeOK, StoreTypeOK, HardDeleteMessage, RetentionInv, PurgeInv, Expired
<1>1. \A x \in MsgId : rows'[x].root = rows[x].root
  BY <1>0, RowDeleted
<1>2. CASE ~Present(cur)
  <2>1. \A x \in MsgId : rows[x].root = cur => ~Present(x)
    BY <1>0, <1>2, IdAssumption DEF RetentionInv, RootInv
  <2>2. rows' = rows
    BY <1>0, <1>2, <2>1 DEF DeleteRow
  <2> QED
    BY <1>0, <2>2, RowsUnchanged
<1>3. CASE Present(cur)
  <2>1. PhaseOf(cur) = "deleted"
    BY <1>0, <1>3, PhaseIsOfRow, RowPhases DEF Present, Deleted
  <2>2. ASSUME NEW x \in MsgId, x = cur \/ rows[x].root = cur
        PROVE  PhaseOf(x)' = "gone"
    <3>1. rows[x].state # "absent"
      BY <1>0, <1>3, <2>2, IdAssumption DEF RetentionInv, BlankInv, BlankRow, Present
    <3>2. rows'[x].state = "removed"
      <4>1. rows'[x].state # "present" /\ rows'[x].state # "absent"
        BY <1>0, <2>2, <3>1, RowDeleted DEF Present
      <4> QED
        BY <1>0, <4>1, RowPhases
    <3> QED
      BY <1>0, <3>2, PhaseIsOfRow, RowPhases
  <2>3. ASSUME NEW x \in MsgId, ~(x = cur \/ rows[x].root = cur)
        PROVE  PhaseOf(x)' = PhaseOf(x)
    <3>1. rows'[x] = rows[x]
      BY <1>0, <2>3 DEF DeleteRow
    <3> QED
      BY <3>1, PhaseIsOfRow
  <2>4. Lifecycle!Erase(cur)
    BY <1>0, <1>1, <2>1, <2>2, <2>3 DEF Lifecycle!Erase
  <2> QED
    BY <1>0, <2>4 DEF Lifecycle!Next
<1> QED
  BY <1>2, <1>3

LEMMA HandlersImplement ==
  ASSUME TypeInv, TypeInv', AnnounceInv, DeadlineInv, HandlersNext
  PROVE  [Lifecycle!Next]_(Lifecycle!lifeVars)
<1>1. ASSUME NEW p \in requests, NEW m \in MsgId, NEW k, CreateMessage(p, m, k)
      PROVE  Lifecycle!Next
  <2>1. {m} \in SUBSET MsgId /\ {m} # {}
    OBVIOUS
  <2>2. InsertRows({m}, p.msg, NewRow(p.due, k, p.msg, now)) /\ UNCHANGED announced
    BY <1>1 DEF CreateMessage
  <2>3. p.msg \in MsgId \cup {NoMsg} /\ (p.msg # NoMsg => rows[p.msg].root = NoMsg)
    BY <1>1, MessageCreated
  <2> QED
    BY <2>1, <2>2, <2>3, NewRowFields, CreateImplements
<1>2. ASSUME NEW p \in requests, NEW S \in SUBSET MsgId, ForwardCommit(p, S)
      PROVE  Lifecycle!Next
  <2>1. p.msg \in MsgId /\ S # {} /\ UNCHANGED announced
        /\ InsertRows(S, p.msg, NewRow(0, rows[p.msg].key, NoMsg, p.since))
    BY <1>2, RequestTypes DEF ForwardCommit, TypeInv, TypeOK, HandlersTypeOK
  <2> QED
    BY <2>1, NewRowFields, CreateImplements
<1>3. ASSUME NEW m \in MsgId, DeleteMessage(m) PROVE Lifecycle!Next
  BY <1>3, DeleteImplements
<1>4. ASSUME NEW p \in requests, Broadcast(p)
      PROVE  [Lifecycle!Next]_(Lifecycle!lifeVars)
  <2>1. CASE p.kind = "message"
    <3>1. p.msg \in MsgId /\ Sent(p.msg) /\ announced[p.msg] = 0
      BY <2>1, RequestTypes DEF AnnounceInv, OwedInv, TypeInv, TypeOK, HandlersTypeOK
    <3>2. announced' = [announced EXCEPT ![p.msg] = @ + 1] /\ UNCHANGED rows
      BY <1>4, <2>1 DEF Broadcast, Tell
    <3> QED
      BY <3>1, <3>2, AnnounceImplements
  <2>2. CASE p.kind # "message"
    BY <1>4, <2>2, RowsUnchanged DEF Broadcast, Tell
  <2> QED
    BY <2>1, <2>2
<1>5. UNCHANGED <<rows, announced>> => [Lifecycle!Next]_(Lifecycle!lifeVars)
  BY RowsUnchanged
<1> QED
  BY <1>1, <1>2, <1>3, <1>4, <1>5
  DEF HandlersNext, UploadAttachment, SendMessageHandler, ValidateReplyTarget,
      ForwardRead, EditMessage, Abandon, storeVars

LEMMA WorkerImplements ==
  ASSUME TypeInv, TypeInv', AnnounceInv, RetentionInv, WorkerNext \/ WorkerFails
  PROVE  [Lifecycle!Next]_(Lifecycle!lifeVars)
<1>1. ASSUME NEW m \in MsgId, MarkMessageSent(m) \/ MarkMessageSentFails(m)
      PROVE  [Lifecycle!Next]_(Lifecycle!lifeVars)
  <2>1. Present(m) /\ rows[m].status = "scheduled" /\ UNCHANGED announced
    BY <1>1 DEF MarkMessageSent, MarkMessageSentFails, AnnounceInv, HeldInv
  <2>2. rows' = rows \/ rows' = [rows EXCEPT ![m].status = "sent"]
    BY <1>1 DEF MarkMessageSent, MarkMessageSentFails, SetSent
  <2> QED
    BY <2>1, <2>2, RowsUnchanged, ReleaseImplements
<1>2. CASE Announce
  <2>1. cur \in MsgId /\ Sent(cur) /\ announced[cur] = 0
    BY <1>2 DEF Announce, TypeInv, AnnounceInv, CurInv
  <2>2. announced' = [announced EXCEPT ![cur] = @ + 1] /\ UNCHANGED rows
    BY <1>2 DEF Announce, Tell
  <2> QED
    BY <2>1, <2>2, AnnounceImplements
<1>3. CASE HardDeleteMessage
  BY <1>3, DropImplements
<1>4. UNCHANGED <<rows, announced>> => [Lifecycle!Next]_(Lifecycle!lifeVars)
  BY RowsUnchanged
<1> QED
  BY <1>1, <1>2, <1>3, <1>4
  DEF WorkerNext, WorkerFails, ListDueScheduledMessages, AnnounceFails, DispatchDone,
      PurgeStart, BatchDone, ListPurgeableMessages, ListPurgeableMessagesFails,
      HardDeleteMessageFails, DeleteObject, DeleteMissingObject, DeleteObjectFails,
      storeVars

\* Every step of handlers, worker, clock, crash or failed call is a step of the
\* life of one message, or of one thread, or none.
THEOREM ServiceImplementsLifecycle == Spec => ImplementsLifecycle
<1>1. TypeInv /\ TypeInv' /\ AnnounceInv /\ RetentionInv /\ [Next]_vars
        => [Lifecycle!Next]_(Lifecycle!lifeVars)
  <2> SUFFICES ASSUME TypeInv, TypeInv', AnnounceInv, RetentionInv, [Next]_vars
               PROVE  [Lifecycle!Next]_(Lifecycle!lifeVars)
    OBVIOUS
  <2>1. CASE Client
    BY <2>1, HandlersImplement DEF Client, RetentionInv
  <2>2. CASE Worker
    BY <2>2, WorkerImplements DEF Worker
  <2>3. CASE Fault /\ WorkerFails
    BY <2>3, WorkerImplements
  <2>4. UNCHANGED <<rows, announced>> => [Lifecycle!Next]_(Lifecycle!lifeVars)
    BY RowsUnchanged
  <2> QED
    BY <2>1, <2>2, <2>3, <2>4
    DEF Next, Clock, TimePasses, Fault, Crash, vars, storeVars
<1> QED
  BY <1>1, InitImplements, TypeInvariant, AnnounceInvariant, RetentionInvariant, PTL
  DEF Spec, ImplementsLifecycle, Lifecycle!Spec

=============================================================================
