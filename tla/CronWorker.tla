----------------------------- MODULE CronWorker -----------------------------
(***************************************************************************)
(* The single goroutine of StartCronWorker. Between ticks it waits in its  *)
(* select; a minute tick runs dispatchDueScheduledMessages to the end, an  *)
(* hour tick runs purgeExpiredMessages to the end. Every statement and     *)
(* every call to the bucket is a step of its own, and each may fail: the   *)
(* steps of WorkerFails.                                                   *)
(***************************************************************************)
EXTENDS MessageStore, FiniteSets

CONSTANT BatchSize   \* the LIMIT of ListPurgeableMessages (200 in the code)
ASSUME WorkerAssumption == BatchSize \in Nat \ {0}

VARIABLES
    wpc,         \* where the goroutine stands
    batch,       \* the listed messages that its loop has not taken yet
    cur,         \* the message its loop is at, between two calls
    passTime,    \* the time.Now() of this purge, from which its cutoff comes
    full         \* whether the listed batch had BatchSize messages

workerVars == <<wpc, batch, cur, passTime, full>>

WorkerTypeOK ==
    /\ wpc \in {"select", "dispatch", "announce", "list", "purge", "drop"}
    /\ batch \subseteq MsgId
    /\ cur \in MsgId \cup {NoMsg}
    /\ passTime \in Nat
    /\ full \in BOOLEAN

WorkerInit ==
    /\ wpc = "select" /\ batch = {} /\ cur = NoMsg
    /\ passTime = 0 /\ full = FALSE

\* Back in the select: the locals of the two functions are gone.
Return ==
    /\ wpc' = "select" /\ batch' = {} /\ cur' = NoMsg
    /\ passTime' = 0 /\ full' = FALSE

-----------------------------------------------------------------------------
(* dispatchDueScheduledMessages                                            *)

\* Only what comes due this very minute is listed.
ListDueScheduledMessages_ThisMinute ==
    /\ wpc = "select"
    /\ batch' = {m \in MsgId : Due(m) /\ rows[m].due = now} /\ batch' # {}
    /\ wpc' = "dispatch"
    /\ UNCHANGED <<storeVars, cur, passTime, full>>

\* A minute tick. When nothing is due, or the query fails, it returns at once.
ListDueScheduledMessages ==
    /\ wpc = "select"
    /\ batch' = {m \in MsgId : Due(m)} /\ batch' # {}
    /\ wpc' = "dispatch"
    /\ UNCHANGED <<storeVars, cur, passTime, full>>

\* The message is announced and stays scheduled.
MarkMessageSent_Forgets(m) ==
    /\ wpc = "dispatch" /\ m \in batch
    /\ batch' = batch \ {m} /\ cur' = m
    /\ wpc' = "announce"
    /\ UNCHANGED <<storeVars, passTime, full>>

MarkMessageSent(m) ==
    /\ wpc = "dispatch" /\ m \in batch
    /\ SetSent(m)
    /\ batch' = batch \ {m} /\ cur' = m
    /\ wpc' = "announce"
    /\ UNCHANGED <<now, objects, announced, passTime, full>>

\* The failure is logged and the message announced all the same.
MarkMessageSentFails_NoContinue(m) ==
    /\ wpc = "dispatch" /\ m \in batch
    /\ batch' = batch \ {m} /\ cur' = m
    /\ wpc' = "announce"
    /\ UNCHANGED <<storeVars, passTime, full>>

\* The update fails, or is applied and its answer lost: continue.
MarkMessageSentFails(m) ==
    /\ wpc = "dispatch" /\ m \in batch
    /\ UNCHANGED rows \/ SetSent(m)
    /\ batch' = batch \ {m}
    /\ UNCHANGED <<now, objects, announced, wpc, cur, passTime, full>>

Announce ==
    /\ wpc = "announce"
    /\ Tell("message", cur)
    /\ wpc' = "dispatch" /\ cur' = NoMsg
    /\ UNCHANGED <<now, rows, objects, batch, passTime, full>>

\* ListMemberIDs fails and BroadcastMessageEvent returns silently.
AnnounceFails ==
    /\ wpc = "announce"
    /\ wpc' = "dispatch" /\ cur' = NoMsg
    /\ UNCHANGED <<storeVars, batch, passTime, full>>

DispatchDone ==
    /\ wpc = "dispatch" /\ batch = {}
    /\ Return /\ UNCHANGED storeVars

-----------------------------------------------------------------------------
(* purgeExpiredMessages                                                    *)

PurgeStart ==
    /\ wpc = "select"
    /\ wpc' = "list" /\ passTime' = now
    /\ UNCHANGED <<storeVars, batch, cur, full>>

\* LIMIT without ORDER BY: any BatchSize of the purgeable rows.
ListPurgeableMessages ==
    /\ wpc = "list"
    /\ LET purgeable == {m \in MsgId : Purgeable(m, passTime)} IN
       \/ /\ purgeable = {}
          /\ Return
       \/ /\ batch' \in SUBSET purgeable /\ batch' # {}
          /\ \/ Cardinality(batch') = BatchSize
             \/ Cardinality(batch') < BatchSize /\ batch' = purgeable
          /\ full' = (Cardinality(batch') = BatchSize)
          /\ wpc' = "purge"
          /\ UNCHANGED <<cur, passTime>>
    /\ UNCHANGED storeVars

ListPurgeableMessagesFails ==
    /\ wpc = "list"
    /\ Return /\ UNCHANGED storeVars

\* The object is left in the bucket.
DeleteObject_RowOnly(m) ==
    /\ wpc = "purge" /\ m \in batch
    /\ batch' = batch \ {m} /\ cur' = m
    /\ wpc' = "drop"
    /\ UNCHANGED <<storeVars, passTime, full>>

\* The object is gone, or there is none, or no client to ask: on to the row.
DeleteObject(m) ==
    /\ wpc = "purge" /\ m \in batch
    /\ \/ (rows[m].key = NoKey \/ ~gcs) /\ UNCHANGED objects
       \/ /\ gcs /\ rows[m].key # NoKey /\ objects[rows[m].key] = "stored"
          /\ objects' = [objects EXCEPT ![rows[m].key] = "deleted"]
    /\ batch' = batch \ {m} /\ cur' = m
    /\ wpc' = "drop"
    /\ UNCHANGED <<now, rows, announced, passTime, full>>

\* Deleting an object that does not exist is an error: continue.
DeleteMissingObject(m) ==
    /\ wpc = "purge" /\ m \in batch
    /\ gcs /\ rows[m].key # NoKey /\ objects[rows[m].key] # "stored"
    /\ batch' = batch \ {m}
    /\ UNCHANGED <<storeVars, wpc, cur, passTime, full>>

\* The failure is logged and the row deleted all the same.
DeleteObjectFails_NoContinue(m) ==
    /\ wpc = "purge" /\ m \in batch /\ gcs /\ rows[m].key # NoKey
    /\ batch' = batch \ {m} /\ cur' = m
    /\ wpc' = "drop"
    /\ UNCHANGED <<storeVars, passTime, full>>

\* The call to the bucket fails, before or after its effect: continue.
DeleteObjectFails(m) ==
    /\ wpc = "purge" /\ m \in batch /\ gcs /\ rows[m].key # NoKey
    /\ \/ UNCHANGED objects
       \/ /\ objects[rows[m].key] = "stored"
          /\ objects' = [objects EXCEPT ![rows[m].key] = "deleted"]
    /\ batch' = batch \ {m}
    /\ UNCHANGED <<now, rows, announced, wpc, cur, passTime, full>>

HardDeleteMessage ==
    /\ wpc = "drop"
    /\ DeleteRow(cur)
    /\ wpc' = "purge" /\ cur' = NoMsg
    /\ UNCHANGED <<now, objects, announced, batch, passTime, full>>

HardDeleteMessageFails ==
    /\ wpc = "drop"
    /\ wpc' = "purge" /\ cur' = NoMsg
    /\ UNCHANGED <<storeVars, batch, passTime, full>>

\* Another batch after every batch, not only after a full one.
BatchDone_Again ==
    /\ wpc = "purge" /\ batch = {}
    /\ wpc' = "list" /\ full' = FALSE
    /\ UNCHANGED <<storeVars, batch, cur, passTime>>

\* The end of a batch: another one if this one was full.
BatchDone ==
    /\ wpc = "purge" /\ batch = {}
    /\ IF full THEN wpc' = "list" /\ full' = FALSE /\ UNCHANGED <<batch, cur, passTime>>
               ELSE Return
    /\ UNCHANGED storeVars

-----------------------------------------------------------------------------

WorkerNext ==
    \/ ListDueScheduledMessages \/ Announce \/ DispatchDone
    \/ PurgeStart \/ ListPurgeableMessages \/ HardDeleteMessage \/ BatchDone
    \/ \E m \in MsgId :
          MarkMessageSent(m) \/ DeleteObject(m) \/ DeleteMissingObject(m)

WorkerFails ==
    \/ AnnounceFails \/ ListPurgeableMessagesFails \/ HardDeleteMessageFails
    \/ \E m \in MsgId : MarkMessageSentFails(m) \/ DeleteObjectFails(m)

=============================================================================
