------------------------------- MODULE Polls -------------------------------
(***************************************************************************)
(* Voting on one poll. A vote is a transaction at READ COMMITTED: it may   *)
(* delete the user's votes, inserts one, commits; removing a vote is one   *)
(* statement. Each statement has a snapshot of its own, waits for the row  *)
(* locks of other transactions and then skips rows that are gone by now.   *)
(* After the change the handler reads the tally, to broadcast it.          *)
(*                                                                         *)
(* Requests have passed their checks; the option that a removal names is   *)
(* not checked by the code, and taken to be one of the poll's. The poll    *)
(* outlives its requests, its multi_choice never changes.                  *)
(***************************************************************************)
CONSTANTS
    User, Option,
    Req           \* places for requests in flight, used again and again

ASSUME PollAssumption == User # {} /\ Option # {}

VARIABLES
    multi,        \* polls.multi_choice
    votes,        \* the committed rows of public.poll_votes
    tx,           \* the requests and their transactions
    tally,        \* the votes that the latest ListPollOptionsTally counted
    missed        \* whether one was to follow it, and failed

vars == <<multi, votes, tx, tally, missed>>

Row == [option : Option, user : User]

(* delete   DELETE of the user's other votes is to come
   locks    that statement has its snapshot and locks row after row
   insert   INSERT ... ON CONFLICT is to come
   commit   COMMIT is to come
   remove   DELETE of one vote has its snapshot and waits for row locks
   tally    the change is committed, the tally is to be read               *)
Stage == {"idle", "delete", "locks", "insert", "commit", "remove", "tally"}
Open == {"delete", "locks", "insert", "commit"}

Tx == [stage : Stage, user : User, option : Option,
       seen : SUBSET Row,     \* the rows its DELETE has still to take
       gone : SUBSET Row,     \* the rows deleted, not yet committed
       new  : SUBSET Row,     \* the row inserted, not yet committed
       beside : SUBSET {"vote", "remove"}]   \* the user's requests that overlapped

TypeOK ==
    /\ multi \in BOOLEAN
    /\ votes \subseteq Row
    /\ tx \in [Req -> Tx]
    /\ \A r \in Req : tx[r].gone \subseteq votes   \* no lock outlives its row
    /\ tally \subseteq Row
    /\ missed \in BOOLEAN

Active(r) == tx[r].stage # "idle"

\* Whose request it is, and for which option, is not known yet.
Idle == [stage |-> "idle", user |-> CHOOSE u \in User : TRUE,
         option |-> CHOOSE o \in Option : TRUE,
         seen |-> {}, gone |-> {}, new |-> {}, beside |-> {}]

Init ==
    /\ multi \in BOOLEAN /\ votes = {} /\ tally = {} /\ missed = FALSE
    /\ tx = [r \in Req |-> Idle]

VotesOf(u) == {v \in votes : v.user = u}
Locked(r, rows) == \E q \in Req \ {r} : tx[q].gone \cap rows # {}

Changing(r) == tx[r].stage \in Open \cup {"remove"}
KindOf(stage) == IF stage = "remove" THEN "remove" ELSE "vote"

\* Request r of user u begins; it and u's other requests overlap.
Begins(r, u, o, stage, seen) ==
    LET others == {q \in Req \ {r} : Changing(q) /\ tx[q].user = u} IN
    /\ tx[r].stage = "idle"
    /\ tx' = [q \in Req |->
                IF q = r
                THEN [Idle EXCEPT !.stage = stage, !.user = u, !.option = o, !.seen = seen,
                                  !.beside = {KindOf(tx[x].stage) : x \in others}]
                ELSE IF q \in others THEN [tx[q] EXCEPT !.beside = @ \cup {KindOf(stage)}]
                ELSE tx[q]]

-----------------------------------------------------------------------------

\* A single-choice poll is taken for a multi-choice one.
VoteOnPoll_KeepsOthers(r, u, o) ==
    /\ Begins(r, u, o, "insert", {})
    /\ UNCHANGED <<multi, votes, tally, missed>>

\* Begin, and read multi_choice.
VoteOnPoll(r, u, o) ==
    /\ Begins(r, u, o, IF multi THEN "insert" ELSE "delete", {})
    /\ UNCHANGED <<multi, votes, tally, missed>>

DeleteVotes(r) ==
    /\ tx[r].stage = "delete"
    /\ tx' = [tx EXCEPT ![r].stage = "locks", ![r].seen = VotesOf(tx[r].user)]
    /\ UNCHANGED <<multi, votes, tally, missed>>

\* Rows that another transaction is deleting are deleted again.
LockVote_NoWait(r, v) ==
    /\ tx[r].stage = "locks" /\ v \in tx[r].seen
    /\ tx' = [tx EXCEPT ![r].seen = @ \ {v}, ![r].gone = @ \cup {v}]
    /\ UNCHANGED <<multi, votes, tally, missed>>

\* The next row, in any order, once no other transaction is deleting it.
LockVote(r, v) ==
    /\ tx[r].stage = "locks" /\ v \in tx[r].seen /\ ~Locked(r, {v})
    /\ tx' = [tx EXCEPT ![r].seen = @ \ {v}, ![r].gone = @ \cup {v}]
    /\ UNCHANGED <<multi, votes, tally, missed>>

\* The statement is not part of the transaction.
DeleteVotesDone_Autocommit(r) ==
    /\ tx[r].stage = "locks" /\ tx[r].seen = {}
    /\ votes' = votes \ tx[r].gone
    /\ tx' = [tx EXCEPT ![r].stage = "insert", ![r].gone = {}]
    /\ UNCHANGED <<multi, tally, missed>>

DeleteVotesDone(r) ==
    /\ tx[r].stage = "locks" /\ tx[r].seen = {}
    /\ tx' = [tx EXCEPT ![r].stage = "insert"]
    /\ UNCHANGED <<multi, votes, tally, missed>>

\* Waits for a transaction that is inserting or deleting the same vote; a
\* vote that then is there already makes this one do nothing.
InsertVote(r) ==
    LET row == [option |-> tx[r].option, user |-> tx[r].user] IN
    /\ tx[r].stage = "insert"
    /\ \A q \in Req \ {r} : row \notin tx[q].gone \cup tx[q].new
    /\ tx' = [tx EXCEPT ![r].stage = "commit", ![r].new = {row} \ (votes \ tx[r].gone)]
    /\ UNCHANGED <<multi, votes, tally, missed>>

\* The request is over, and with it its transaction and the locks.
End(r) == tx' = [tx EXCEPT ![r] = Idle]

\* The transaction has deleted rows and is over, the tally is to come. Others
\* that wait for those rows will find them gone, and skip them.
TallyNext(r, rows) ==
    tx' = [q \in Req |-> IF q = r THEN [Idle EXCEPT !.stage = "tally"]
                         ELSE [tx[q] EXCEPT !.seen = @ \ rows]]

\* The tally is read inside the transaction, as it was before the change.
Commit_AfterTally(r) ==
    /\ tx[r].stage = "commit"
    /\ votes' = (votes \ tx[r].gone) \cup tx[r].new
    /\ tx' = [q \in Req |-> IF q = r THEN Idle ELSE [tx[q] EXCEPT !.seen = @ \ tx[r].gone]]
    /\ tally' = votes /\ missed' = FALSE
    /\ UNCHANGED multi

Commit(r) ==
    /\ tx[r].stage = "commit"
    /\ votes' = (votes \ tx[r].gone) \cup tx[r].new
    /\ TallyNext(r, tx[r].gone)
    /\ UNCHANGED <<multi, tally, missed>>

\* The handler returns without the deferred Rollback.
Rollback_Forgotten(r) ==
    /\ tx[r].stage \in Open
    /\ tx' = [tx EXCEPT ![r].stage = "idle"]
    /\ UNCHANGED <<multi, votes, tally, missed>>

\* A statement fails, the client goes away or the deadline passes.
Rollback(r) ==
    /\ tx[r].stage \in Open
    /\ End(r)
    /\ UNCHANGED <<multi, votes, tally, missed>>

RemovePollVote(r, u, o) ==
    /\ Begins(r, u, o, "remove", votes \cap {[option |-> o, user |-> u]})
    /\ UNCHANGED <<multi, votes, tally, missed>>

RemovePollVoteDone(r) ==
    /\ tx[r].stage = "remove" /\ ~Locked(r, tx[r].seen)
    /\ votes' = votes \ tx[r].seen
    /\ TallyNext(r, tx[r].seen)
    /\ UNCHANGED <<multi, tally, missed>>

RemovePollVoteFails(r) ==
    /\ tx[r].stage = "remove" /\ End(r)
    /\ UNCHANGED <<multi, votes, tally, missed>>

ListPollOptionsTally(r) ==
    /\ tx[r].stage = "tally" /\ End(r)
    /\ tally' = votes /\ missed' = FALSE
    /\ UNCHANGED <<multi, votes>>

ListPollOptionsTallyFails(r) ==
    /\ tx[r].stage = "tally" /\ End(r)
    /\ missed' = TRUE
    /\ UNCHANGED <<multi, votes, tally>>

\* r waits for a row lock of q's.
Waits(r, q) ==
    \/ tx[r].stage = "locks" /\ tx[r].seen \cap tx[q].gone # {}
    \/ /\ tx[r].stage = "insert"
       /\ [option |-> tx[r].option, user |-> tx[r].user] \in tx[q].gone \cup tx[q].new

\* PostgreSQL notices two transactions that wait for each other and fails a
\* statement of one of them.
DeadlockFound(r, q) == Waits(r, q) /\ Waits(q, r) /\ Rollback(r)

\* The steps that a request takes when nothing fails.
Step(r) ==
    \/ DeleteVotes(r) \/ (\E v \in tx[r].seen : LockVote(r, v)) \/ DeleteVotesDone(r)
    \/ InsertVote(r) \/ Commit(r)
    \/ RemovePollVoteDone(r) \/ ListPollOptionsTally(r)

Next == \E r \in Req :
    \/ \E u \in User, o \in Option : VoteOnPoll(r, u, o) \/ RemovePollVote(r, u, o)
    \/ Step(r)
    \/ Rollback(r) \/ RemovePollVoteFails(r) \/ ListPollOptionsTallyFails(r)

Spec == Init /\ [][Next]_vars

\* The database and the handler carry on with a request that they have begun,
\* and the database does not leave transactions waiting for each other.
FairSpec ==
    /\ Spec
    /\ \A r \in Req : SF_vars(Step(r))
    /\ WF_vars(\E r \in Req, q \in Req : DeadlockFound(r, q))

-----------------------------------------------------------------------------

Committing(r) == tx[r].stage = "commit" /\ tx'[r].stage = "tally"

\* "A single-choice poll never ends up with more than one active vote per
\* user." (Refuted: two votes of one user at the same time do not see each
\* other's rows.)
OneVotePerUser == ~multi =>
    \A v, w \in votes : v.user = w.user => v = w

\* A vote that no other request of its user overlaps has the effect that the
\* poll's kind calls for, whatever overlapping votes have left behind before it.
SoleVoteCounts == [][\A r \in Req, u \in User :
    Committing(r) /\ tx[r].beside = {} /\ tx[r].user = u =>
        {v.option : v \in VotesOf(u)'} =
            {tx[r].option} \cup (IF multi THEN {v.option : v \in VotesOf(u)} ELSE {})]_vars

\* However votes overlap, fail and change places, a user who has voted keeps a
\* vote unless a removal is asked for, on its own or next to a vote: an insert
\* that finds its vote there, and does nothing, never relies on a row that
\* another vote takes away.
VotersStay == [][\A u \in User : VotesOf(u) # {} /\ VotesOf(u)' = {} =>
    \E r \in Req :
        /\ tx[r].user = u /\ Changing(r)
        /\ tx[r].stage = "remove" \/ "remove" \in tx[r].beside]_vars

\* Once every change has been followed by its reading of the tally, the latest
\* reading is up to date: the last event shows the poll as it is, if events
\* arrive in the order of their readings and the latest reading did not fail.
TallyCatchesUp ==
    ~missed /\ (\A r \in Req : tx[r].stage # "tally") => tally = votes

\* Every request ends: whoever waits for a row gets its turn, a transaction that
\* fails holds nobody up, and the one way to wait in a circle, two votes that
\* each delete a row the other is after, is of the kind that PostgreSQL breaks.
RequestsEnd == \A r \in Req : Active(r) ~> ~Active(r)

=============================================================================
