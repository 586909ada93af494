--------------------------- MODULE MessageService ---------------------------
(***************************************************************************)
(* The life of messages and their attachments: the handlers and the cron   *)
(* worker of one server process over the shared store. The process may     *)
(* crash and is restarted (docker-compose: restart unless-stopped); a      *)
(* crash loses the requests in flight and the worker's place, no more; the *)
(* bucket's client may come up at the next start, or not.                  *)
(***************************************************************************)
EXTENDS MessageHandlers, CronWorker

CONSTANT MaxFaults   \* bound on the crashes and failed calls, for TLC
ASSUME FaultAssumption == MaxFaults \in Nat

VARIABLE faults      \* how many there were so far

vars == <<gcs, storeVars, requests, workerVars, faults>>

TypeOK ==
    /\ StoreTypeOK
    /\ HandlersTypeOK
    /\ WorkerTypeOK
    /\ faults \in Nat

Init == StoreInit /\ HandlersInit /\ WorkerInit /\ faults = 0

\* A crash that would lose nothing and change nothing is left out.
Crash ==
    /\ gcs' \in GcsInit
    /\ requests # {} \/ wpc # "select" \/ gcs' # gcs
    /\ requests' = {} /\ Return
    /\ UNCHANGED storeVars

Fault ==
    /\ faults < MaxFaults /\ faults' = faults + 1
    /\ Crash \/ (WorkerFails /\ UNCHANGED <<requests, gcs>>)

Client == HandlersNext /\ UNCHANGED <<workerVars, faults, gcs>>
Worker == WorkerNext /\ UNCHANGED <<requests, faults, gcs>>
Clock == TimePasses /\ UNCHANGED <<workerVars, faults, gcs>>

Next == Client \/ Worker \/ Clock \/ Fault

Spec == Init /\ [][Next]_vars

\* The worker keeps running, and Go's select picks at random among the tickers
\* that are ready, so that each gets its turn. Nothing is assumed of clients.
WorkerStep(A) == A /\ UNCHANGED <<requests, faults, gcs>>

FairSpec ==
    /\ Spec
    /\ WF_vars(Worker)
    /\ SF_vars(WorkerStep(ListDueScheduledMessages))
    /\ SF_vars(WorkerStep(PurgeStart))

-----------------------------------------------------------------------------
(* The abstract specification.                                             *)

PhaseOf(m) ==
    CASE rows[m].state = "absent"  -> "none"
      [] rows[m].state = "removed" -> "gone"
      [] Live(m) -> IF rows[m].status = "sent" THEN "sent" ELSE "held"
      [] OTHER -> "deleted"

Lifecycle == INSTANCE MessageLifecycle WITH
    phase <- [m \in MsgId |-> PhaseOf(m)],
    root  <- [m \in MsgId |-> rows[m].root]

\* Handlers and worker together, whatever fails, take each message through its
\* phases in order, announce it at most once and never while it is held.
ImplementsLifecycle == Lifecycle!Spec

-----------------------------------------------------------------------------
(* Announcing.                                                             *)

\* An announcement of m is under way: its request owes it, or the worker does.
Announcing(m) ==
    \/ \E p \in requests : p.kind = "message" /\ p.msg = m
    \/ wpc \in {"dispatch", "announce"} /\ m \in batch
    \/ wpc = "announce" /\ m = cur

\* No message is announced twice, by its handler, by the worker, by a dispatch
\* that fails half way or by one that starts again after a crash: the worker
\* marks a message sent before it broadcasts and skips it when that fails.
AnnouncedAtMostOnce == \A m \in MsgId : announced[m] <= 1

\* Whoever hears of a message can already read it as sent, and a scheduled
\* message is not announced before the time it was scheduled for.
NeverEarly == \A m \in MsgId :
    announced[m] > 0 => rows[m].status = "sent" /\ rows[m].due <= now

\* A message deleted before any announcement of it was under way is never
\* announced: from then on the due query cannot list it.
Withdrawn(m) == Deleted(m) /\ announced[m] = 0 /\ ~Announcing(m)
WithdrawnIsFinal == [][\A m \in MsgId : Withdrawn(m) => Withdrawn(m)']_vars

\* A scheduled message that comes due is sent, unless its sender deletes it or
\* its thread is purged, whatever single calls fail and if the process crashes.
DueIsSent == \A m \in MsgId :
    Due(m) ~> (~Live(m) \/ rows[m].status = "sent")

-----------------------------------------------------------------------------
(* Threads.                                                                *)

\* Threads are one level deep and never lose their root, though the target of
\* a reply is checked in one statement and inserted under in another.
FlatThreads == \A m \in MsgId :
    Present(m) /\ rows[m].root # NoMsg =>
        Present(rows[m].root) /\ rows[rows[m].root].root = NoMsg

\* A reply that passed its check never meets the foreign key error: its root
\* may be soft-deleted meanwhile, but the request's deadline comes long
\* before the purge.
RepliesFindTheirRoot == \A p \in requests : p.kind = "reply" => Present(p.msg)

-----------------------------------------------------------------------------
(* Retention.                                                              *)

Aged(m) == Deleted(m) /\ rows[m].deletedAt + Retention < now
Leaves(m) == Present(m) /\ ~Present(m)'
CascadedFrom(root, m) == rows[m].root = root /\ root # NoMsg /\ Leaves(root)

\* A row leaves the table only when it was soft-deleted longer ago than the
\* retention period, or in the same statement as a thread root of which that
\* is true, whatever was deleted, replied to or read since the batch was listed.
RowsLeaveAged == [][\A m \in MsgId :
    Leaves(m) => Aged(m) \/ \E r \in MsgId : CascadedFrom(r, m) /\ Aged(r)]_vars

\* "Caller is responsible for deleting the backing attachment object first":
\* when a process with a client for the bucket purges a row, its object is gone
\* by then, also after a crash or a failed call; a cascade excepted.
ObjectLeavesFirst == [][\A m \in MsgId :
    gcs /\ Leaves(m) /\ rows[m].key # NoKey =>
        \/ objects[rows[m].key] = "deleted"
        \/ \E r \in MsgId : CascadedFrom(r, m)]_vars

\* An object is only ever deleted for a message deleted longer ago than the
\* retention period. (That message need not be the only one that carries it.)
ObjectsLeaveAged == \A k \in ObjKey :
    objects[k] = "deleted" => \E m \in MsgId : rows[m].key = k /\ Aged(m)

\* The only way an attached object loses its last row and stays in the bucket
\* is the cascade from a thread root, if the bucket's client always comes up.
OrphansWereReplies == \A k \in ObjKey :
    objects[k] = "stored" /\ (\E m \in MsgId : rows[m].key = k) =>
        \E m \in MsgId :
            /\ rows[m].key = k
            /\ Present(m) \/ (rows[m].root # NoMsg /\ ~Present(rows[m].root))

\* The worker always comes back to its select, so that the next tick, of
\* either ticker, is served. (Refuted for a batch full of rows that stay.)
WorkerReturns == []<>(wpc = "select")

\* A message that has aged is purged, unless it names an object that is not in
\* the bucket. (Such a row stays for ever: each purge fails to delete the
\* object and skips the row. The object was never uploaded, or was deleted
\* for another row, or for this one when its own DELETE did not follow.)
AgedIsPurgedOrBare == \A m \in MsgId :
    Present(m) /\ Aged(m) ~>
        ~Present(m) \/ (rows[m].key # NoKey /\ objects[rows[m].key] # "stored")

=============================================================================
