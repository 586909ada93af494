---------------------------- MODULE MessageStore ----------------------------
(***************************************************************************)
(* The state that the HTTP handlers and the cron worker share: the table   *)
(* public.messages, the bucket of attachment objects, and what the members *)
(* of a conversation have been told about each message.                    *)
(*                                                                         *)
(* Wall-clock time is a small integer; 0 stands for a NULL timestamp.      *)
(* A message id names one row for ever: its record survives the row, so    *)
(* that properties can speak about rows that are gone.                     *)
(***************************************************************************)
EXTENDS Naturals

CONSTANTS
    MsgId,       \* message ids, finitely many so that TLC can run out of them
    ObjKey,      \* attachment keys: each upload makes one up, messages name any
    NoMsg,       \* a NULL thread_root_message_id
    NoKey,       \* a NULL attachment_key
    Retention,   \* messageRetentionPeriod (30 days in the code)
    GcsInit,     \* what gcsclient.Init may come to when the process starts
    MaxTime      \* bound on the clock, for TLC

ASSUME IdAssumption == NoMsg \notin MsgId /\ NoKey \notin ObjKey
ASSUME GcsAssumption == GcsInit \subseteq BOOLEAN
ASSUME ClockAssumption == Retention \in Nat \ {0} /\ MaxTime \in Nat

VARIABLES
    gcs,         \* whether this process has a client for the bucket
    now,         \* the clock
    rows,        \* public.messages
    objects,     \* the bucket
    announced    \* how many "message" events were sent about each message

\* gcs is left out: it changes only when the process starts.
storeVars == <<now, rows, objects, announced>>

Row == [state     : {"absent", "present", "removed"},
        status    : {"sent", "scheduled"},
        due       : Nat,
        created   : Nat,
        deletedAt : Nat,
        key       : ObjKey \cup {NoKey},
        root      : MsgId \cup {NoMsg}]

BlankRow == [state |-> "absent", status |-> "sent", due |-> 0, created |-> 0,
             deletedAt |-> 0, key |-> NoKey, root |-> NoMsg]

StoreTypeOK ==
    /\ gcs \in GcsInit
    /\ now \in Nat \ {0}
    /\ rows \in [MsgId -> Row]
    /\ objects \in [ObjKey -> {"unused", "stored", "deleted"}]
    /\ announced \in [MsgId -> Nat]

StoreInit ==
    /\ gcs \in GcsInit
    /\ now = 1
    /\ rows = [m \in MsgId |-> BlankRow]
    /\ objects = [k \in ObjKey |-> "unused"]
    /\ announced = [m \in MsgId |-> 0]

-----------------------------------------------------------------------------
(* Queries. A definition whose name has an underscore is a mutant: the one *)
(* it is named after, with a bug that the properties must notice.          *)

Present(m) == rows[m].state = "present"
Deleted(m) == rows[m].deletedAt # 0
Live(m) == Present(m) /\ ~Deleted(m)

\* The time is not compared; a deleted message is not left out.
Due_AnyTime(m) == Live(m) /\ rows[m].status = "scheduled"
Due_Withdrawn(m) == Present(m) /\ rows[m].status = "scheduled" /\ rows[m].due <= now

\* The WHERE clause of ListDueScheduledMessages.
Due(m) == Live(m) /\ rows[m].status = "scheduled" /\ rows[m].due <= now

\* A missing deleted_at is taken for an old one; the age does not count; the
\* comparison is the wrong way round.
Purgeable_NotDeleted(m, t) == Present(m) /\ rows[m].deletedAt + Retention < t
Purgeable_Fresh(m, t) == Present(m) /\ Deleted(m)
Purgeable_Reversed(m, t) == Present(m) /\ Deleted(m) /\ rows[m].deletedAt + Retention > t

\* The WHERE clause of ListPurgeableMessages, its cutoff taken at time t.
Purgeable(m, t) == Present(m) /\ Deleted(m) /\ rows[m].deletedAt + Retention < t

-----------------------------------------------------------------------------
(* Statements.                                                             *)

\* INSERT one row in each id of S. The two foreign keys of public.messages
\* refuse a parent, the thread root or the forwarded message, that is gone.
InsertRows(S, parent, row) ==
    /\ parent # NoMsg => Present(parent)
    /\ \A m \in S : rows[m].state = "absent"
    /\ rows' = [m \in MsgId |-> IF m \in S THEN row ELSE rows[m]]

\* UPDATE the status of a row, if it is still there.
SetSent(m) ==
    rows' = IF Present(m) THEN [rows EXCEPT ![m].status = "sent"] ELSE rows

\* DELETE one soft-deleted row; the thread_root_message_id foreign key is
\* ON DELETE CASCADE, so the replies under it go too, deleted or not.
DeleteRow(m) ==
    rows' = [r \in MsgId |->
                IF Deleted(m) /\ Present(r) /\ (r = m \/ rows[r].root = m)
                THEN [rows[r] EXCEPT !.state = "removed"]
                ELSE rows[r]]

\* BroadcastMessageEvent. Both kinds of event carry the message's content, an
\* edit's also that of a message still scheduled.
Tell(kind, m) ==
    announced' = IF kind = "message"
                 THEN [announced EXCEPT ![m] = @ + 1] ELSE announced

=============================================================================
