----------------------------- MODULE PollsProofs -----------------------------
(***************************************************************************)
(* Votes on one poll, for any number of users, options and requests.       *)
(*                                                                         *)
(* The argument: rows are deleted by one transaction at a time, an insert  *)
(* waits for the transactions that delete or insert its row, and requests  *)
(* of one user that overlap know of each other. So a vote that no other    *)
(* overlaps commits what its own statements saw, and a vote that inserts   *)
(* nothing relies on a row that nobody takes away without a row in return. *)
(***************************************************************************)
EXTENDS Polls, TLAPS

RowOf(r) == [option |-> tx[r].option, user |-> tx[r].user]

\* Which rows a transaction may hold: its own user's, and no other's prey.
LockInv ==
    \A r \in Req :
        /\ tx[r].seen \subseteq votes
        /\ \A v \in tx[r].seen \cup tx[r].gone \cup tx[r].new : v.user = tx[r].user
        /\ \A q \in Req \ {r} : tx[q].gone \cap tx[r].gone = {}
        /\ tx[r].stage \notin Open => tx[r].gone = {} /\ tx[r].new = {}
        /\ tx[r].stage = "delete" => tx[r].gone = {}

\* A row to be inserted is new, or its transaction deletes it first; nobody
\* else deletes or inserts it.
InsertInv ==
    \A r \in Req :
        /\ tx[r].new \cap votes \subseteq tx[r].gone
        /\ \A q \in Req \ {r} : tx[r].new \cap (tx[q].gone \cup tx[q].new) = {}

\* Requests of one user that change votes at the same time know of each other.
BesideInv ==
    \A r \in Req : \A q \in Req \ {r} :
        Changing(r) /\ Changing(q) /\ tx[r].user = tx[q].user =>
            KindOf(tx[q].stage) \in tx[r].beside

\* What a vote that nothing overlaps has deleted, and what it inserts.
SoleInv ==
    \A r \in Req : tx[r].beside = {} =>
        /\ tx[r].stage \in {"delete", "locks"} => ~multi
        /\ tx[r].stage = "locks" => tx[r].seen \cup tx[r].gone = VotesOf(tx[r].user)
        /\ tx[r].stage \in {"insert", "commit"} =>
              tx[r].gone = IF multi THEN {} ELSE VotesOf(tx[r].user)
        /\ tx[r].stage = "commit" => tx[r].new = {RowOf(r)} \ (votes \ tx[r].gone)

\* The vote v of r's user is not r's prey, and whoever is about to commit its
\* deletion puts another row in its place.
Lasts(v, r) ==
    /\ v \in VotesOf(tx[r].user) \ tx[r].gone
    /\ \A q \in Req : tx[q].stage = "commit" /\ v \in tx[q].gone => tx[q].new # {}

\* A vote about to commit inserts a row or leaves one that lasts.
VoterInv ==
    \A r \in Req : tx[r].stage = "commit" /\ "remove" \notin tx[r].beside =>
        tx[r].new # {} \/ \E v \in votes : Lasts(v, r)

PollInv == TypeOK /\ LockInv /\ InsertInv /\ BesideInv /\ SoleInv /\ VoterInv

-----------------------------------------------------------------------------
(* Requests                                                                *)

LEMMA IdleFields ==
  /\ Idle \in Tx
  /\ Idle.stage = "idle" /\ Idle.beside = {}
  /\ Idle.seen = {} /\ Idle.gone = {} /\ Idle.new = {}
<1>1. (CHOOSE u \in User : TRUE) \in User /\ (CHOOSE o \in Option : TRUE) \in Option
  BY PollAssumption
<1> QED
  BY <1>1 DEF Idle, Tx, Stage, Row

LEMMA RowFields ==
  ASSUME TypeOK, NEW r \in Req
  PROVE  /\ RowOf(r) \in Row
         /\ RowOf(r).user = tx[r].user /\ RowOf(r).option = tx[r].option
BY DEF TypeOK, Tx, Row, RowOf

LEMMA InitInvariant == Init => PollInv
<1> SUFFICES ASSUME Init PROVE PollInv
  OBVIOUS
<1>1. \A r \in Req : tx[r] = Idle
  BY DEF Init
<1>2. TypeOK
  BY <1>1, IdleFields DEF Init, TypeOK
<1>3. LockInv /\ InsertInv
  BY <1>1, IdleFields DEF LockInv, InsertInv, Open
<1>4. BesideInv
  BY <1>1, IdleFields DEF BesideInv, Changing, Open
<1>5. SoleInv /\ VoterInv
  BY <1>1, IdleFields DEF SoleInv, VoterInv
<1> QED
  BY <1>2, <1>3, <1>4, <1>5 DEF PollInv

\* What a step of one transaction does to the others: nothing.
Advances(r) == \A q \in Req \ {r} : tx'[q] = tx[q]

\* A transaction that is not about to commit after its step, and takes no row,
\* leaves the rows of others as they are.
LEMMA VotersKept ==
  ASSUME VoterInv, NEW r \in Req, Advances(r), votes' = votes, tx'[r].stage # "commit"
  PROVE  VoterInv'
<1> SUFFICES ASSUME NEW q \in Req, tx'[q].stage = "commit", "remove" \notin tx'[q].beside,
                    tx'[q].new = {}
             PROVE  \E v \in votes : Lasts(v, q)'
  BY DEF VoterInv
<1>1. q # r /\ tx'[q] = tx[q]
  BY DEF Advances
<1>2. PICK v \in votes : Lasts(v, q)
  BY <1>1 DEF VoterInv
<1>3. Lasts(v, q)'
  BY <1>1, <1>2 DEF Lasts, VotesOf, Advances
<1> QED
  BY <1>3

\* A request ends and lets go of its rows: a rollback, a removal that fails, a
\* tally that was read or not.
LEMMA EndInvariant ==
  ASSUME PollInv, NEW r \in Req, End(r), votes' = votes, multi' = multi,
         tally' \subseteq Row, missed' \in BOOLEAN
  PROVE  PollInv'
<1>1. tx'[r] = Idle /\ \A q \in Req \ {r} : tx'[q] = tx[q]
  BY DEF End, PollInv, TypeOK
<1>2. \A q \in Req : tx'[q].gone \subseteq tx[q].gone /\ tx'[q].new \subseteq tx[q].new
  BY <1>1, IdleFields
<1>3. \A q \in Req : tx'[q].stage \in {"idle", tx[q].stage}
  BY <1>1, IdleFields
<1>4. TypeOK'
  BY <1>1, <1>2, IdleFields DEF PollInv, TypeOK, End
<1>5. LockInv'
  BY <1>1, <1>2, IdleFields DEF PollInv, LockInv, Open
<1>6. InsertInv'
  BY <1>1, <1>2, IdleFields DEF PollInv, InsertInv
<1>7. BesideInv'
  BY <1>1, IdleFields DEF PollInv, BesideInv, Changing, Open
<1>8. SoleInv'
  BY <1>1, IdleFields DEF PollInv, SoleInv, VotesOf, RowOf
<1>9. VoterInv'
  BY <1>1, IdleFields, VotersKept DEF PollInv, Advances
<1> QED
  BY <1>4, <1>5, <1>6, <1>7, <1>8, <1>9 DEF PollInv

\* A request begins: a vote by the poll's kind, or a removal that has found
\* the user's row.
LEMMA BeginsInvariant ==
  ASSUME PollInv, NEW r \in Req, NEW u \in User, NEW o \in Option,
         NEW stage, NEW seen \in SUBSET VotesOf(u), Begins(r, u, o, stage, seen),
         \/ stage = "remove"
         \/ stage = (IF multi THEN "insert" ELSE "delete") /\ seen = {},
         UNCHANGED <<multi, votes, tally, missed>>
  PROVE  PollInv'
<1> DEFINE others == {q \in Req \ {r} : Changing(q) /\ tx[q].user = u}
           began == [Idle EXCEPT !.stage = stage, !.user = u, !.option = o, !.seen = seen,
                                 !.beside = {KindOf(tx[x].stage) : x \in others}]
<1>1. /\ tx[r].stage = "idle"
      /\ tx' = [q \in Req |-> IF q = r THEN began
                  ELSE IF q \in others THEN [tx[q] EXCEPT !.beside = @ \cup {KindOf(stage)}]
                  ELSE tx[q]]
  BY DEF Begins
<1>2. /\ began \in Tx /\ began.stage = stage /\ began.user = u /\ began.option = o
      /\ began.seen = seen /\ began.gone = {} /\ began.new = {}
      /\ began.beside = {KindOf(tx[x].stage) : x \in others}
  BY IdleFields DEF Tx, Stage, KindOf, VotesOf, PollInv, TypeOK
<1>3. \A q \in Req \ {r} :
        /\ tx'[q] \in Tx
        /\ tx'[q].stage = tx[q].stage /\ tx'[q].user = tx[q].user
        /\ tx'[q].option = tx[q].option /\ tx'[q].seen = tx[q].seen
        /\ tx'[q].gone = tx[q].gone /\ tx'[q].new = tx[q].new
        /\ tx'[q].beside = tx[q].beside \cup (IF q \in others THEN {KindOf(stage)} ELSE {})
  <2> SUFFICES ASSUME NEW q \in Req \ {r}
               PROVE  /\ tx'[q] \in Tx
                      /\ tx'[q].stage = tx[q].stage /\ tx'[q].user = tx[q].user
                      /\ tx'[q].option = tx[q].option /\ tx'[q].seen = tx[q].seen
                      /\ tx'[q].gone = tx[q].gone /\ tx'[q].new = tx[q].new
                      /\ tx'[q].beside = tx[q].beside \cup
                            (IF q \in others THEN {KindOf(stage)} ELSE {})
    OBVIOUS
  <2>1. tx[q] \in Tx /\ KindOf(stage) \in {"vote", "remove"}
    BY DEF PollInv, TypeOK, KindOf
  <2>2. tx'[q] = IF q \in others THEN [tx[q] EXCEPT !.beside = @ \cup {KindOf(stage)}] ELSE tx[q]
    BY <1>1
  <2> QED
    BY <2>1, <2>2 DEF Tx
<1>4. tx'[r] = began
  BY <1>1
<1> HIDE DEF began
<1>5. TypeOK'
  <2>1. tx' \in [Req -> Tx]
    BY <1>1, <1>2, <1>3, <1>4
  <2> QED
    BY <2>1, <1>2, <1>3, <1>4 DEF PollInv, TypeOK
<1>6. LockInv'
  BY <1>2, <1>3, <1>4 DEF PollInv, LockInv, VotesOf, Open
<1>7. InsertInv'
  BY <1>2, <1>3, <1>4 DEF PollInv, InsertInv
<1>8. BesideInv'
  <2> SUFFICES ASSUME NEW p \in Req, NEW q \in Req \ {p}, Changing(p)', Changing(q)',
                      tx'[p].user = tx'[q].user
               PROVE  KindOf(tx'[q].stage) \in tx'[p].beside
    BY DEF BesideInv
  <2>1. CASE p = r
    <3>1. q \in others
      BY <1>2, <1>3, <1>4, <2>1 DEF Changing
    <3> QED
      BY <3>1, <1>2, <1>3, <1>4, <2>1
  <2>2. CASE q = r
    <3>1. p \in others
      BY <1>2, <1>3, <1>4, <2>2 DEF Changing
    <3> QED
      BY <3>1, <1>2, <1>3, <1>4, <2>2
  <2>3. CASE p # r /\ q # r
    BY <1>3, <2>3 DEF PollInv, BesideInv, Changing
  <2> QED
    BY <2>1, <2>2, <2>3
<1>9. SoleInv'
  <2> SUFFICES ASSUME NEW q \in Req, tx'[q].beside = {}
               PROVE  /\ tx'[q].stage \in {"delete", "locks"} => ~multi
                      /\ tx'[q].stage = "locks" =>
                            tx'[q].seen \cup tx'[q].gone = VotesOf(tx'[q].user)
                      /\ tx'[q].stage \in {"insert", "commit"} =>
                            tx'[q].gone = IF multi THEN {} ELSE VotesOf(tx'[q].user)
                      /\ tx'[q].stage = "commit" =>
                            tx'[q].new = {RowOf(q)'} \ (votes \ tx'[q].gone)
    BY DEF SoleInv, VotesOf
  <2>1. CASE q = r
    BY <1>2, <1>4, <2>1
  <2>2. CASE q # r
    <3>1. tx[q].beside = {} /\ RowOf(q)' = RowOf(q)
      BY <1>3, <2>2 DEF RowOf
    <3> QED
      BY <3>1, <1>3, <2>2 DEF PollInv, SoleInv
  <2> QED
    BY <2>1, <2>2
<1>10. VoterInv'
  <2> SUFFICES ASSUME NEW q \in Req, tx'[q].stage = "commit", "remove" \notin tx'[q].beside,
                      tx'[q].new = {}
               PROVE  \E v \in votes : Lasts(v, q)'
    BY DEF VoterInv
  <2>1. q # r /\ tx[q].stage = "commit" /\ "remove" \notin tx[q].beside /\ tx[q].new = {}
    BY <1>2, <1>3, <1>4
  <2>2. PICK v \in votes : Lasts(v, q)
    BY <2>1 DEF PollInv, VoterInv
  <2>3. Lasts(v, q)'
    BY <1>2, <1>3, <1>4, <2>1, <2>2 DEF Lasts, VotesOf
  <2> QED
    BY <2>3
<1> QED
  BY <1>5, <1>6, <1>7, <1>8, <1>9, <1>10 DEF PollInv

-----------------------------------------------------------------------------
(* The statements of a vote                                                *)

\* The parts of a transaction that statements change, and those that they keep.
Parts(t, n) ==
    /\ n \in Tx
    /\ n.user = t.user /\ n.option = t.option /\ n.beside = t.beside

\* What others know of themselves, a statement of r leaves alone.
LEMMA SoleKept ==
  ASSUME SoleInv, NEW r \in Req, Advances(r), votes' = votes, multi' = multi,
         tx'[r].beside = {} =>
            /\ tx'[r].stage \in {"delete", "locks"} => ~multi
            /\ tx'[r].stage = "locks" =>
                  tx'[r].seen \cup tx'[r].gone = VotesOf(tx'[r].user)
            /\ tx'[r].stage \in {"insert", "commit"} =>
                  tx'[r].gone = IF multi THEN {} ELSE VotesOf(tx'[r].user)
            /\ tx'[r].stage = "commit" => tx'[r].new = {RowOf(r)'} \ (votes \ tx'[r].gone)
  PROVE  SoleInv'
<1>1. \A u : VotesOf(u)' = VotesOf(u)
  BY DEF VotesOf
<1>2. \A q \in Req \ {r} : tx'[q] = tx[q] /\ RowOf(q)' = RowOf(q)
  BY DEF Advances, RowOf
<1> QED
  BY <1>1, <1>2 DEF SoleInv

LEMMA DeleteVotesInvariant ==
  ASSUME PollInv, NEW r \in Req, DeleteVotes(r)
  PROVE  PollInv'
<1>1. /\ Advances(r) /\ tx[r].stage = "delete"
      /\ votes' = votes /\ multi' = multi
  BY DEF DeleteVotes, Advances, PollInv, TypeOK
<1>2. tx[r].gone = {} /\ tx[r].new \cap votes = {}
  BY <1>1 DEF PollInv, LockInv, InsertInv
<1>3. /\ Parts(tx[r], tx'[r])
      /\ tx'[r].stage = "locks" /\ tx'[r].seen = VotesOf(tx[r].user)
      /\ tx'[r].gone = {} /\ tx'[r].new = tx[r].new
  <2>1. tx[r] \in Tx /\ VotesOf(tx[r].user) \in SUBSET Row
    BY DEF PollInv, TypeOK, VotesOf
  <2>2. tx'[r] = [tx[r] EXCEPT !.stage = "locks", !.seen = VotesOf(tx[r].user)]
    BY DEF DeleteVotes, PollInv, TypeOK
  <2> QED
    BY <1>2, <2>1, <2>2 DEF Parts, Tx, Stage
<1>4. TypeOK'
  <2>1. tx' \in [Req -> Tx]
    BY <1>3 DEF DeleteVotes, Parts, PollInv, TypeOK
  <2> QED
    BY <1>1, <1>3, <2>1 DEF DeleteVotes, Advances, PollInv, TypeOK
<1>5. LockInv'
  BY <1>1, <1>2, <1>3 DEF Advances, Parts, PollInv, LockInv, VotesOf, Open
<1>6. InsertInv'
  BY <1>1, <1>2, <1>3 DEF Advances, PollInv, InsertInv
<1>7. BesideInv'
  BY <1>1, <1>3 DEF Advances, Parts, PollInv, BesideInv, Changing, Open, KindOf
<1>8. SoleInv'
  BY <1>1, <1>3, SoleKept DEF Parts, PollInv, SoleInv
<1>9. VoterInv'
  BY <1>1, <1>3, VotersKept DEF PollInv
<1> QED
  BY <1>4, <1>5, <1>6, <1>7, <1>8, <1>9 DEF PollInv

\* A row is locked: nobody else is deleting it, and nobody is to insert it, as
\* it is there.
LEMMA LockVoteInvariant ==
  ASSUME PollInv, NEW r \in Req, NEW v \in tx[r].seen, LockVote(r, v)
  PROVE  PollInv'
<1>1. /\ Advances(r) /\ tx[r].stage = "locks"
      /\ votes' = votes /\ multi' = multi
  BY DEF LockVote, Advances, PollInv, TypeOK
<1>2. /\ v \in votes /\ v.user = tx[r].user
      /\ \A q \in Req \ {r} : v \notin tx[q].gone
      /\ \A q \in Req \ {r} : v \notin tx[q].new
  <2>1. v \in votes /\ v.user = tx[r].user /\ \A q \in Req \ {r} : v \notin tx[q].gone
    BY DEF LockVote, Locked, PollInv, LockInv
  <2> QED
    BY <2>1 DEF PollInv, InsertInv
<1>3. /\ Parts(tx[r], tx'[r])
      /\ tx'[r].stage = "locks" /\ tx'[r].seen = tx[r].seen \ {v}
      /\ tx'[r].gone = tx[r].gone \cup {v} /\ tx'[r].new = tx[r].new
  <2>1. tx[r] \in Tx /\ v \in Row
    BY <1>2 DEF PollInv, TypeOK
  <2>2. tx'[r] = [tx[r] EXCEPT !.seen = tx[r].seen \ {v}, !.gone = tx[r].gone \cup {v}]
    BY <2>1 DEF LockVote, PollInv, TypeOK, Tx
  <2>3. tx[r].seen \ {v} \in SUBSET Row /\ tx[r].gone \cup {v} \in SUBSET Row
    BY <2>1 DEF Tx
  <2>4. tx[r].stage = "locks"
    BY <1>1
  <2> QED
    BY <2>1, <2>2, <2>3, <2>4 DEF Parts, Tx
<1>4. TypeOK'
  <2>1. tx' \in [Req -> Tx]
    BY <1>3 DEF LockVote, Parts, PollInv, TypeOK
  <2> QED
    BY <1>1, <1>2, <1>3, <2>1 DEF LockVote, Advances, PollInv, TypeOK
<1>5. LockInv'
  BY <1>1, <1>2, <1>3 DEF Advances, Parts, PollInv, LockInv, Open
<1>6. InsertInv'
  BY <1>1, <1>2, <1>3 DEF Advances, PollInv, InsertInv
<1>7. BesideInv'
  BY <1>1, <1>3 DEF Advances, Parts, PollInv, BesideInv, Changing, Open, KindOf
<1>8. SoleInv'
  BY <1>1, <1>3, SoleKept DEF Parts, PollInv, SoleInv
<1>9. VoterInv'
  BY <1>1, <1>3, VotersKept DEF PollInv
<1> QED
  BY <1>4, <1>5, <1>6, <1>7, <1>8, <1>9 DEF PollInv

LEMMA DeleteVotesDoneInvariant ==
  ASSUME PollInv, NEW r \in Req, DeleteVotesDone(r)
  PROVE  PollInv'
<1>1. /\ Advances(r) /\ tx[r].stage = "locks" /\ tx[r].seen = {}
      /\ votes' = votes /\ multi' = multi
  BY DEF DeleteVotesDone, Advances, PollInv, TypeOK
<1>2. /\ Parts(tx[r], tx'[r])
      /\ tx'[r].stage = "insert" /\ tx'[r].seen = {}
      /\ tx'[r].gone = tx[r].gone /\ tx'[r].new = tx[r].new
  <2>1. tx[r] \in Tx
    BY DEF PollInv, TypeOK
  <2>2. tx'[r] = [tx[r] EXCEPT !.stage = "insert"]
    BY DEF DeleteVotesDone, PollInv, TypeOK
  <2> QED
    BY <1>1, <2>1, <2>2 DEF Parts, Tx, Stage
<1>3. TypeOK'
  <2>1. tx' \in [Req -> Tx]
    BY <1>2 DEF DeleteVotesDone, Parts, PollInv, TypeOK
  <2> QED
    BY <1>1, <1>2, <2>1 DEF DeleteVotesDone, Advances, PollInv, TypeOK
<1>4. LockInv'
  BY <1>1, <1>2 DEF Advances, Parts, PollInv, LockInv, Open
<1>5. InsertInv'
  BY <1>1, <1>2 DEF Advances, PollInv, InsertInv
<1>6. BesideInv'
  <2>1. \A q \in Req : /\ Changing(q)' <=> Changing(q)
                      /\ KindOf(tx'[q].stage) = KindOf(tx[q].stage)
                      /\ tx'[q].user = tx[q].user /\ tx'[q].beside = tx[q].beside
    BY <1>1, <1>2 DEF Advances, Parts, Changing, Open, KindOf
  <2> QED
    BY <2>1 DEF PollInv, BesideInv
<1>7. SoleInv'
  BY <1>1, <1>2, SoleKept DEF Parts, PollInv, SoleInv
<1>8. VoterInv'
  BY <1>1, <1>2, VotersKept DEF PollInv
<1> QED
  BY <1>3, <1>4, <1>5, <1>6, <1>7, <1>8 DEF PollInv

\* The insert has waited: nobody else deletes or inserts its row. If it finds
\* the row there, that row lasts for this and every other vote of the user.
LEMMA InsertVoteInvariant ==
  ASSUME PollInv, NEW r \in Req, InsertVote(r)
  PROVE  PollInv'
<1>0. PICK row \in Row : row = RowOf(r)
  BY RowFields DEF PollInv
<1> DEFINE new == {row} \ (votes \ tx[r].gone)
<1>1. /\ Advances(r) /\ tx[r].stage = "insert"
      /\ votes' = votes /\ multi' = multi
  BY DEF InsertVote, Advances, PollInv, TypeOK
<1>2. /\ row.user = tx[r].user
      /\ \A q \in Req \ {r} : row \notin tx[q].gone \cup tx[q].new
  BY <1>0, RowFields DEF InsertVote, RowOf, PollInv
<1>3. /\ Parts(tx[r], tx'[r])
      /\ tx'[r].stage = "commit" /\ tx'[r].seen = tx[r].seen
      /\ tx'[r].gone = tx[r].gone /\ tx'[r].new = new
  <2>1. tx[r] \in Tx /\ new \in SUBSET Row
    BY <1>2 DEF PollInv, TypeOK
  <2>2. tx'[r] = [tx[r] EXCEPT !.stage = "commit", !.new = new]
    BY <1>0 DEF InsertVote, PollInv, TypeOK, RowOf
  <2> QED
    BY <1>1, <2>1, <2>2 DEF Parts, Tx, Stage
<1>4. new \subseteq {row} /\ new \cap votes \subseteq tx[r].gone
      /\ (new = {} => row \in votes \ tx[r].gone)
  OBVIOUS
<1>5. RowOf(r)' = row
  BY <1>0, <1>3 DEF RowOf, Parts
<1>6. TypeOK'
  <2>1. tx' \in [Req -> Tx]
    BY <1>3 DEF InsertVote, Parts, PollInv, TypeOK
  <2> QED
    BY <1>1, <1>3, <2>1 DEF InsertVote, Advances, PollInv, TypeOK
<1>7. SoleInv'
  BY <1>1, <1>3, <1>5, SoleKept DEF Parts, PollInv, SoleInv
<1> HIDE DEF new
<1>8. LockInv'
  BY <1>1, <1>2, <1>3, <1>4 DEF Advances, Parts, PollInv, LockInv, Open
<1>9. InsertInv'
  BY <1>1, <1>2, <1>3, <1>4 DEF Advances, PollInv, InsertInv
<1>10. BesideInv'
  BY <1>1, <1>3 DEF Advances, Parts, PollInv, BesideInv, Changing, Open, KindOf
<1>11. VoterInv'
  <2> SUFFICES ASSUME NEW q \in Req, tx'[q].stage = "commit", "remove" \notin tx'[q].beside,
                      tx'[q].new = {}
               PROVE  \E v \in votes : Lasts(v, q)'
    BY <1>1 DEF VoterInv
  <2>1. CASE new = {} /\ tx[q].user = tx[r].user
    <3>1. row \in votes /\ \A p \in Req : row \notin tx'[p].gone
      BY <1>1, <1>2, <1>3, <1>4, <2>1 DEF Advances
    <3>2. tx'[q].user = tx[q].user
      BY <1>1, <1>3 DEF Advances, Parts
    <3>3. Lasts(row, q)'
      BY <1>1, <1>2, <2>1, <3>1, <3>2 DEF Lasts, VotesOf
    <3> QED
      BY <3>1, <3>3
  <2>2. CASE new # {} \/ tx[q].user # tx[r].user
    <3>1. q # r /\ tx'[q] = tx[q]
      BY <1>1, <1>3, <2>2 DEF Advances
    <3>2. PICK v \in votes : Lasts(v, q)
      BY <3>1 DEF PollInv, VoterInv
    <3>3. v.user = tx[q].user /\ v \notin tx[q].gone
      BY <3>2 DEF Lasts, VotesOf
    <3>4. v \in tx[r].gone => new # {}
      BY <2>2, <3>3 DEF PollInv, LockInv
    <3>5. \A p \in Req : tx'[p].stage = "commit" /\ v \in tx'[p].gone => tx'[p].new # {}
      BY <1>1, <1>3, <3>2, <3>4 DEF Advances, Lasts
    <3>6. Lasts(v, q)'
      BY <1>1, <3>1, <3>3, <3>5 DEF Lasts, VotesOf
    <3> QED
      BY <3>6
  <2> QED
    BY <2>1, <2>2
<1> QED
  BY <1>6, <1>7, <1>8, <1>9, <1>10, <1>11 DEF PollInv

-----------------------------------------------------------------------------
(* Commits and removals                                                    *)

\* A change is committed: rows that were r's alone go, and rows that nobody
\* else deletes or inserts come.
LEMMA ChangeInvariant ==
  ASSUME PollInv, NEW r \in Req, Changing(r), NEW rows \in SUBSET votes, NEW new \in SUBSET Row,
         votes' = (votes \ rows) \cup new, TallyNext(r, rows), UNCHANGED <<multi, tally, missed>>,
         \A v \in rows \cup new : v.user = tx[r].user,
         \A q \in Req \ {r} : rows \cap tx[q].gone = {},
         \A q \in Req \ {r} : new \cap (tx[q].gone \cup tx[q].new) = {},
         new \cap votes \subseteq rows,
         tx[r].stage = "remove" \/ (tx[r].stage = "commit" /\ rows = tx[r].gone /\ new = tx[r].new)
  PROVE  PollInv'
<1> DEFINE done == [Idle EXCEPT !.stage = "tally"]
<1>1. /\ done \in Tx /\ done.stage = "tally" /\ done.beside = {}
      /\ done.seen = {} /\ done.gone = {} /\ done.new = {}
  BY IdleFields DEF Tx, Stage
<1>2. tx' = [q \in Req |-> IF q = r THEN done ELSE [tx[q] EXCEPT !.seen = @ \ rows]]
  BY DEF TallyNext
<1>3. tx'[r] = done
  BY <1>2
<1>4. \A q \in Req \ {r} :
        /\ Parts(tx[q], tx'[q])
        /\ tx'[q].stage = tx[q].stage /\ tx'[q].seen = tx[q].seen \ rows
        /\ tx'[q].gone = tx[q].gone /\ tx'[q].new = tx[q].new
  <2> SUFFICES ASSUME NEW q \in Req \ {r}
               PROVE  /\ Parts(tx[q], tx'[q])
                      /\ tx'[q].stage = tx[q].stage /\ tx'[q].seen = tx[q].seen \ rows
                      /\ tx'[q].gone = tx[q].gone /\ tx'[q].new = tx[q].new
    OBVIOUS
  <2>1. tx[q] \in Tx /\ tx'[q] = [tx[q] EXCEPT !.seen = @ \ rows]
    BY <1>2 DEF PollInv, TypeOK
  <2> QED
    BY <2>1 DEF Parts, Tx
<1> HIDE DEF done
<1>5. TypeOK'
  <2>1. tx' \in [Req -> Tx]
    BY <1>1, <1>2, <1>3, <1>4 DEF Parts
  <2>2. \A q \in Req : tx'[q].gone \subseteq votes'
    BY <1>1, <1>3, <1>4 DEF PollInv, TypeOK
  <2> QED
    BY <2>1, <2>2 DEF PollInv, TypeOK
<1>6. LockInv'
  BY <1>1, <1>3, <1>4 DEF Parts, PollInv, LockInv, Open
<1>7. InsertInv'
  <2> SUFFICES ASSUME NEW q \in Req
               PROVE  /\ tx'[q].new \cap votes' \subseteq tx'[q].gone
                      /\ \A p \in Req \ {q} : tx'[q].new \cap (tx'[p].gone \cup tx'[p].new) = {}
    BY DEF InsertInv
  <2>1. CASE q = r
    BY <1>1, <1>3, <2>1
  <2>2. CASE q # r
    <3>1. tx[q].new \cap votes \subseteq tx[q].gone /\ tx[q].new \cap new = {}
      BY <2>2 DEF PollInv, InsertInv
    <3>2. \A p \in Req \ {q} : tx'[q].new \cap (tx'[p].gone \cup tx'[p].new) = {}
      BY <1>1, <1>3, <1>4, <2>2 DEF PollInv, InsertInv
    <3> QED
      BY <3>1, <3>2, <1>4, <2>2
  <2> QED
    BY <2>1, <2>2
<1>8. BesideInv'
  BY <1>1, <1>3, <1>4 DEF Parts, PollInv, BesideInv, Changing, Open, KindOf
<1>9. SoleInv'
  <2> SUFFICES ASSUME NEW q \in Req, tx'[q].beside = {},
                      tx'[q].stage \in {"delete", "locks", "insert", "commit"}
               PROVE  /\ tx'[q].stage \in {"delete", "locks"} => ~multi
                      /\ tx'[q].stage = "locks" =>
                            tx'[q].seen \cup tx'[q].gone = {v \in votes' : v.user = tx'[q].user}
                      /\ tx'[q].stage \in {"insert", "commit"} =>
                            tx'[q].gone = IF multi THEN {} ELSE {v \in votes' : v.user = tx'[q].user}
                      /\ tx'[q].stage = "commit" =>
                            tx'[q].new = {RowOf(q)'} \ (votes' \ tx'[q].gone)
    BY DEF SoleInv, VotesOf
  <2>1. q # r /\ tx[q].beside = {} /\ RowOf(q)' = RowOf(q) /\ tx'[q].user = tx[q].user
    BY <1>1, <1>3, <1>4 DEF Parts, RowOf
  <2>2. tx[q].user # tx[r].user
    BY <1>4, <2>1 DEF PollInv, BesideInv, Changing, Open
  <2>3. {v \in votes' : v.user = tx'[q].user} = VotesOf(tx[q].user)
    BY <2>1, <2>2 DEF VotesOf
  <2>4. tx[q].seen \cap rows = {}
    BY <2>1, <2>2 DEF PollInv, LockInv
  <2>5. RowOf(q) \in votes' <=> RowOf(q) \in votes
    BY <2>2, RowFields DEF PollInv
  <2> QED
    BY <1>4, <2>1, <2>3, <2>4, <2>5 DEF PollInv, SoleInv
<1>10. VoterInv'
  <2> SUFFICES ASSUME NEW q \in Req, tx'[q].stage = "commit", "remove" \notin tx'[q].beside,
                      tx'[q].new = {}
               PROVE  \E v \in votes' : Lasts(v, q)'
    BY DEF VoterInv
  <2>1. /\ q # r /\ tx[q].stage = "commit" /\ "remove" \notin tx[q].beside /\ tx[q].new = {}
        /\ tx'[q].user = tx[q].user
    BY <1>1, <1>3, <1>4 DEF Parts
  <2>2. PICK v \in votes : Lasts(v, q)
    BY <2>1 DEF PollInv, VoterInv
  <2>3. CASE v \notin rows
    <3>1. Lasts(v, q)'
      BY <1>1, <1>3, <1>4, <2>1, <2>2, <2>3 DEF Lasts, VotesOf
    <3> QED
      BY <3>1, <2>3
  <2>4. CASE v \in rows
    <3>1. tx[q].user = tx[r].user
      BY <2>2, <2>4 DEF Lasts, VotesOf
    <3>2. tx[r].stage # "remove"
      BY <2>1, <3>1 DEF PollInv, BesideInv, Changing, Open, KindOf
    <3>3. PICK w \in new : TRUE
      BY <2>2, <2>4, <3>2 DEF Lasts
    <3>4. w \in votes' /\ w.user = tx[q].user /\ \A p \in Req : w \notin tx'[p].gone
      BY <1>1, <1>3, <1>4, <3>1, <3>3
    <3>5. Lasts(w, q)'
      BY <2>1, <3>4 DEF Lasts, VotesOf
    <3> QED
      BY <3>4, <3>5
  <2> QED
    BY <2>3, <2>4
<1> QED
  BY <1>5, <1>6, <1>7, <1>8, <1>9, <1>10 DEF PollInv

LEMMA CommitInvariant ==
  ASSUME PollInv, NEW r \in Req, Commit(r)
  PROVE  PollInv'
<1>1. /\ Changing(r) /\ tx[r].gone \in SUBSET votes /\ tx[r].new \in SUBSET Row
      /\ UNCHANGED <<multi, tally, missed>>
  BY DEF Commit, PollInv, TypeOK, Tx, Changing, Open
<1>2. /\ votes' = (votes \ tx[r].gone) \cup tx[r].new
      /\ TallyNext(r, tx[r].gone)
      /\ tx[r].stage = "commit"
  BY DEF Commit
<1>3. /\ \A v \in tx[r].gone \cup tx[r].new : v.user = tx[r].user
      /\ \A q \in Req \ {r} : tx[r].gone \cap tx[q].gone = {}
  BY DEF PollInv, LockInv
<1>4. /\ \A q \in Req \ {r} : tx[r].new \cap (tx[q].gone \cup tx[q].new) = {}
      /\ tx[r].new \cap votes \subseteq tx[r].gone
  BY DEF PollInv, InsertInv
<1> QED
  BY <1>1, <1>2, <1>3, <1>4, ChangeInvariant

LEMMA RemovalInvariant ==
  ASSUME PollInv, NEW r \in Req, RemovePollVoteDone(r)
  PROVE  PollInv'
<1>1. /\ Changing(r) /\ tx[r].seen \in SUBSET votes /\ {} \in SUBSET Row
      /\ UNCHANGED <<multi, tally, missed>>
  BY DEF RemovePollVoteDone, PollInv, LockInv, Changing
<1>2. /\ votes' = (votes \ tx[r].seen) \cup {}
      /\ TallyNext(r, tx[r].seen)
      /\ tx[r].stage = "remove"
  BY DEF RemovePollVoteDone
<1>3. /\ \A v \in tx[r].seen \cup {} : v.user = tx[r].user
      /\ \A q \in Req \ {r} : tx[r].seen \cap tx[q].gone = {}
  BY DEF RemovePollVoteDone, Locked, PollInv, LockInv
<1>4. /\ \A q \in Req \ {r} : {} \cap (tx[q].gone \cup tx[q].new) = {}
      /\ {} \cap votes \subseteq tx[r].seen
  OBVIOUS
<1> QED
  BY <1>1, <1>2, <1>3, <1>4, ChangeInvariant

-----------------------------------------------------------------------------
(* Theorems                                                                *)

LEMMA StepInvariant ==
  ASSUME PollInv, NEW r \in Req, Step(r)
  PROVE  PollInv'
<1>1. CASE DeleteVotes(r)
  BY <1>1, DeleteVotesInvariant
<1>2. CASE \E v \in tx[r].seen : LockVote(r, v)
  BY <1>2, LockVoteInvariant
<1>3. CASE DeleteVotesDone(r)
  BY <1>3, DeleteVotesDoneInvariant
<1>4. CASE InsertVote(r)
  BY <1>4, InsertVoteInvariant
<1>5. CASE Commit(r)
  BY <1>5, CommitInvariant
<1>6. CASE RemovePollVoteDone(r)
  BY <1>6, RemovalInvariant
<1>7. CASE ListPollOptionsTally(r)
  BY <1>7, EndInvariant DEF ListPollOptionsTally, PollInv, TypeOK
<1> QED
  BY <1>1, <1>2, <1>3, <1>4, <1>5, <1>6, <1>7 DEF Step

LEMMA PollInvariant == PollInv /\ [Next]_vars => PollInv'
<1> SUFFICES ASSUME PollInv, [Next]_vars PROVE PollInv'
  OBVIOUS
<1>1. ASSUME NEW r \in Req, NEW u \in User, NEW o \in Option, VoteOnPoll(r, u, o)
      PROVE  PollInv'
  <2>1. {} \in SUBSET VotesOf(u)
    OBVIOUS
  <2> QED
    BY <1>1, <2>1, BeginsInvariant DEF VoteOnPoll
<1>2. ASSUME NEW r \in Req, NEW u \in User, NEW o \in Option, RemovePollVote(r, u, o)
      PROVE  PollInv'
  <2>1. votes \cap {[option |-> o, user |-> u]} \in SUBSET VotesOf(u)
    BY DEF VotesOf
  <2> QED
    BY <1>2, <2>1, BeginsInvariant DEF RemovePollVote
<1>3. ASSUME NEW r \in Req, Step(r)
      PROVE  PollInv'
  BY <1>3, StepInvariant
<1>4. ASSUME NEW r \in Req,
             Rollback(r) \/ RemovePollVoteFails(r) \/ ListPollOptionsTallyFails(r)
      PROVE  PollInv'
  BY <1>4, EndInvariant DEF Rollback, RemovePollVoteFails, ListPollOptionsTallyFails,
     PollInv, TypeOK
<1>5. CASE UNCHANGED vars
  <2>1. TypeOK' /\ LockInv' /\ InsertInv'
    BY <1>5 DEF vars, PollInv, TypeOK, LockInv, InsertInv
  <2>2. BesideInv' /\ SoleInv'
    BY <1>5 DEF vars, PollInv, BesideInv, SoleInv, VotesOf, RowOf, Changing
  <2>3. VoterInv'
    BY <1>5 DEF vars, PollInv, VoterInv, Lasts, VotesOf
  <2> QED
    BY <2>1, <2>2, <2>3 DEF PollInv
<1> QED
  BY <1>1, <1>2, <1>3, <1>4, <1>5 DEF Next

\* Votes and transactions stay well formed; in particular a transaction never
\* deletes a row that another one has taken away (VoteOnPoll, RemovePollVote).
THEOREM TypeCorrect == Spec => []TypeOK
<1>1. PollInv => TypeOK
  BY DEF PollInv
<1> QED
  BY <1>1, InitInvariant, PollInvariant, PTL DEF Spec

\* Whenever no change waits for its tally and the latest reading did not fail,
\* the tally that was broadcast last is that of the votes (VoteOnPollHandler,
\* RemovePollVoteHandler, ListPollOptionsTally).
THEOREM TallyIsUpToDate == Spec => []TallyCatchesUp
<1>1. Init => TallyCatchesUp
  BY DEF Init, TallyCatchesUp
<1>2. ASSUME TypeOK, TallyCatchesUp, [Next]_vars PROVE TallyCatchesUp'
  <2>1. CASE UNCHANGED vars
    BY <1>2, <2>1 DEF vars, TallyCatchesUp
  <2>2. ASSUME NEW r \in Req, NEW rows, TallyNext(r, rows) PROVE TallyCatchesUp'
    <3>1. tx'[r].stage = "tally"
      BY <2>2, IdleFields DEF TallyNext, Tx
    <3> QED
      BY <3>1 DEF TallyCatchesUp
  <2>3. ASSUME NEW r \in Req, ListPollOptionsTally(r) \/ ListPollOptionsTallyFails(r)
        PROVE  TallyCatchesUp'
    BY <2>3 DEF ListPollOptionsTally, ListPollOptionsTallyFails, TallyCatchesUp
  <2>4. ASSUME NEW r \in Req, tx[r].stage # "tally", UNCHANGED <<votes, tally, missed>>,
               \A q \in Req \ {r} : tx'[q].stage = tx[q].stage
        PROVE  TallyCatchesUp'
    BY <1>2, <2>4 DEF TallyCatchesUp
  <2>5. ASSUME NEW r \in Req, NEW u \in User, NEW o \in Option,
               VoteOnPoll(r, u, o) \/ RemovePollVote(r, u, o)
        PROVE  TallyCatchesUp'
    <3>1. PICK stage, seen : Begins(r, u, o, stage, seen)
      BY <2>5 DEF VoteOnPoll, RemovePollVote
    <3>2. tx[r].stage # "tally" /\ \A q \in Req \ {r} : tx'[q].stage = tx[q].stage
      BY <1>2, <3>1 DEF Begins, TypeOK, Tx
    <3> QED
      BY <2>4, <2>5, <3>2 DEF VoteOnPoll, RemovePollVote
  <2>6. ASSUME NEW r \in Req,
               \/ DeleteVotes(r) \/ DeleteVotesDone(r) \/ InsertVote(r)
               \/ \E v \in tx[r].seen : LockVote(r, v)
               \/ Rollback(r) \/ RemovePollVoteFails(r)
        PROVE  TallyCatchesUp'
    <3>1. tx[r].stage # "tally"
      BY <2>6 DEF DeleteVotes, DeleteVotesDone, InsertVote, LockVote, Rollback,
         RemovePollVoteFails, Open
    <3>2. \A q \in Req \ {r} : tx'[q] = tx[q]
      BY <1>2, <2>6 DEF DeleteVotes, DeleteVotesDone, InsertVote, LockVote, Rollback,
         RemovePollVoteFails, End, TypeOK
    <3>3. UNCHANGED <<votes, tally, missed>>
      BY <2>6 DEF DeleteVotes, DeleteVotesDone, InsertVote, LockVote, Rollback,
         RemovePollVoteFails
    <3> QED
      BY <2>4, <3>1, <3>2, <3>3
  <2>7. ASSUME NEW r \in Req, Commit(r) \/ RemovePollVoteDone(r)
        PROVE  TallyCatchesUp'
    BY <2>2, <2>7 DEF Commit, RemovePollVoteDone
  <2> QED
    BY <1>2, <2>1, <2>3, <2>5, <2>6, <2>7 DEF Next, Step
<1> QED
  BY <1>1, <1>2, TypeCorrect, PTL DEF Spec

\* Only a commit or a removal changes anybody's votes.
LEMMA WhoChangesVotes ==
  ASSUME [Next]_vars, votes' # votes
  PROVE  \E r \in Req : Commit(r) \/ RemovePollVoteDone(r)
BY DEF Next, Step, vars, VoteOnPoll, RemovePollVote, DeleteVotes, LockVote, DeleteVotesDone,
   InsertVote, ListPollOptionsTally, Rollback, RemovePollVoteFails, ListPollOptionsTallyFails

\* Nothing but its commit takes a vote from there to its tally.
LEMMA WhoCommits ==
  ASSUME TypeOK, [Next]_vars, NEW r \in Req, tx[r].stage = "commit", tx'[r].stage = "tally"
  PROVE  Commit(r)
<1>1. \A q \in Req : tx[q] \in Tx
  BY DEF TypeOK
<1>2. PICK q \in Req :
        \/ \E u \in User, o \in Option : VoteOnPoll(q, u, o) \/ RemovePollVote(q, u, o)
        \/ Step(q)
        \/ Rollback(q) \/ RemovePollVoteFails(q) \/ ListPollOptionsTallyFails(q)
  BY DEF Next, vars
<1>3. CASE q # r
  <2>1. ASSUME NEW u \in User, NEW o \in Option, NEW stage, NEW seen, Begins(q, u, o, stage, seen)
        PROVE  tx'[r].stage = tx[r].stage
    BY <1>1, <1>3, <2>1 DEF Begins, Tx
  <2>2. ASSUME NEW rows, TallyNext(q, rows)
        PROVE  tx'[r].stage = tx[r].stage
    BY <1>1, <1>3, <2>2 DEF TallyNext, Tx
  <2>3. CASE End(q)
    BY <1>3, <2>3 DEF End, TypeOK
  <2>4. CASE DeleteVotes(q) \/ DeleteVotesDone(q) \/ InsertVote(q)
    BY <1>3, <2>4 DEF DeleteVotes, DeleteVotesDone, InsertVote, TypeOK
  <2>5. ASSUME NEW v \in tx[q].seen, LockVote(q, v)
        PROVE  tx'[r].stage = tx[r].stage
    BY <1>3, <2>5 DEF LockVote, TypeOK
  <2> QED
    BY <1>2, <2>1, <2>2, <2>3, <2>4, <2>5 DEF VoteOnPoll, RemovePollVote, Step, Commit,
       RemovePollVoteDone, ListPollOptionsTally, Rollback, RemovePollVoteFails,
       ListPollOptionsTallyFails
<1>4. CASE q = r
  BY <1>1, <1>2, <1>4, IdleFields DEF VoteOnPoll, RemovePollVote, Begins, Step, DeleteVotes,
     LockVote, DeleteVotesDone, InsertVote, RemovePollVoteDone, ListPollOptionsTally, Rollback,
     RemovePollVoteFails, ListPollOptionsTallyFails, End, TypeOK
<1> QED
  BY <1>3, <1>4

\* A vote that no other request of its user overlaps leaves that user with the
\* option voted for, besides the earlier ones if the poll is multi-choice
\* (VoteOnPoll: the DELETE, the INSERT and the COMMIT of one transaction).
THEOREM LoneVoteCounts == Spec => SoleVoteCounts
<1>1. ASSUME PollInv, [Next]_vars, NEW r \in Req, NEW u \in User,
             Committing(r), tx[r].beside = {}, tx[r].user = u
      PROVE  {v.option : v \in VotesOf(u)'} =
                {tx[r].option} \cup (IF multi THEN {v.option : v \in VotesOf(u)} ELSE {})
  <2>1. Commit(r)
    BY <1>1, WhoCommits DEF PollInv, Committing
  <2>2. PICK row \in Row : row = RowOf(r)
    BY <1>1, RowFields DEF PollInv
  <2>3. row.user = u /\ row.option = tx[r].option
    BY <1>1, <2>2, RowFields DEF PollInv
  <2>4. /\ tx[r].gone = IF multi THEN {} ELSE VotesOf(u)
        /\ tx[r].new = {row} \ (votes \ tx[r].gone)
    BY <1>1, <2>2 DEF PollInv, SoleInv, Committing
  <2>5. votes' = (votes \ tx[r].gone) \cup tx[r].new
    BY <2>1 DEF Commit
  <2>6. VotesOf(u)' = {row} \cup (IF multi THEN VotesOf(u) ELSE {})
    BY <2>3, <2>4, <2>5 DEF VotesOf
  <2> QED
    BY <2>3, <2>6
<1>2. PollInv /\ [Next]_vars =>
        \A r \in Req, u \in User :
            Committing(r) /\ tx[r].beside = {} /\ tx[r].user = u =>
                {v.option : v \in VotesOf(u)'} =
                    {tx[r].option} \cup (IF multi THEN {v.option : v \in VotesOf(u)} ELSE {})
  BY <1>1
<1> QED
  BY <1>2, InitInvariant, PollInvariant, PTL DEF Spec, SoleVoteCounts

\* A user who has voted keeps a vote unless a removal is asked for, alone or next
\* to a vote (VoteOnPoll's ON CONFLICT DO NOTHING, RemovePollVote).
THEOREM VotersKeepAVote == Spec => VotersStay
<1>1. ASSUME PollInv, [Next]_vars, NEW u \in User, VotesOf(u) # {}, VotesOf(u)' = {}
      PROVE  \E r \in Req :
                /\ tx[r].user = u /\ Changing(r)
                /\ tx[r].stage = "remove" \/ "remove" \in tx[r].beside
  <2>1. votes' # votes
    BY <1>1 DEF VotesOf
  <2>2. PICK r \in Req : Commit(r) \/ RemovePollVoteDone(r)
    BY <1>1, <2>1, WhoChangesVotes
  <2>3. tx[r].user = u
    BY <1>1, <2>2 DEF VotesOf, Commit, RemovePollVoteDone, PollInv, LockInv
  <2>4. CASE RemovePollVoteDone(r)
    BY <2>3, <2>4 DEF RemovePollVoteDone, Changing
  <2>5. CASE Commit(r)
    <3>1. tx[r].new = {}
      BY <1>1, <2>3, <2>5 DEF Commit, VotesOf, PollInv, LockInv
    <3>2. ASSUME "remove" \notin tx[r].beside PROVE FALSE
      <4>1. PICK v \in votes : Lasts(v, r)
        BY <1>1, <2>5, <3>1, <3>2 DEF Commit, PollInv, VoterInv
      <4> QED
        BY <1>1, <2>3, <2>5, <4>1 DEF Commit, Lasts, VotesOf
    <3> QED
      BY <2>3, <2>5, <3>2 DEF Commit, Changing, Open
  <2> QED
    BY <2>2, <2>4, <2>5
<1>2. PollInv /\ [Next]_vars =>
        \A u \in User : VotesOf(u) # {} /\ VotesOf(u)' = {} =>
            \E r \in Req :
                /\ tx[r].user = u /\ Changing(r)
                /\ tx[r].stage = "remove" \/ "remove" \in tx[r].beside
  BY <1>1
<1> QED
  BY <1>2, InitInvariant, PollInvariant, PTL DEF Spec, VotersStay

=============================================================================
