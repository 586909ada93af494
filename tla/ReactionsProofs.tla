--------------------------- MODULE ReactionsProofs ---------------------------
(***************************************************************************)
(* Reactions to one message, for any number of members, requests and       *)
(* faults.                                                                 *)
(*                                                                         *)
(* The argument: a request that no other one's change of its row has come  *)
(* between finds its change when it reads; and once every request has      *)
(* read, nothing has changed since the last of the reads.                  *)
(***************************************************************************)
EXTENDS Reactions, TLAPS

Answered(q) == reqs[q].stage = "answered"

\* Each event is posted at most once to each member, after its request was
\* answered, and posts are of the members that the loop has served.
PostInv ==
    /\ \A q \in Req, m \in Member :
        /\ <<q, m, "event">> \in posts \/ q \in got[m] => Answered(q)
        /\ m \in casts[q].left \/ casts[q].stage \in {"none", "listing"} =>
              <<q, m, "event">> \notin posts /\ q \notin got[m]
    /\ \A q \in Req : Answered(q) => casts[q].stage # "none"

\* Between its change and its read a request's change stands, if it is alone.
AloneInv ==
    \A q \in Req : reqs[q].stage \in {"changed", "answered"} /\ reqs[q].alone =>
        (reqs[q].row \in (IF Answered(q) THEN reqs[q].snap ELSE reactions) <=> reqs[q].kind = "add")

\* Reads are numbered: the latest is some request's, and unless a request is
\* between its change and its read, or failed there, it saw what there is.
ReadInv ==
    /\ reads # 0 => \E q \in Req : Answered(q) /\ reqs[q].at = reads
    /\ (\A q \in Req : Asked(q) => Answered(q)) =>
          \A q \in Req : Asked(q) /\ reqs[q].at = reads => reqs[q].snap = reactions

ReactionsInv == TypeOK /\ PostInv /\ AloneInv /\ ReadInv

-----------------------------------------------------------------------------
(* Each action                                                             *)

\* A request between its change and its read, or after it, is a record.
LEMMA RequestTypes ==
  ASSUME TypeOK, NEW q \in Req
  PROVE  /\ reqs[q] \in Request \cup {NoRequest}
         /\ Asked(q) => reqs[q] \in Request
         /\ casts[q] \in Cast
BY DEF TypeOK, NoRequest, Asked

LEMMA InitInvariant == Init => ReactionsInv
<1> SUFFICES ASSUME Init PROVE ReactionsInv
  OBVIOUS
<1>1. \A q \in Req : reqs[q] = NoRequest /\ casts[q] = NoCast
  BY DEF Init
<1>2. TypeOK
  BY <1>1, ReactionsAssumption DEF Init, TypeOK, NoRequest, NoCast, Cast
<1>3. PostInv
  BY <1>1 DEF Init, PostInv, Answered, NoRequest, NoCast
<1>4. AloneInv
  BY <1>1 DEF AloneInv, NoRequest
<1>5. ReadInv
  BY <1>1 DEF Init, ReadInv, Asked, NoRequest
<1> QED
  BY <1>2, <1>3, <1>4, <1>5 DEF ReactionsInv

LEMMA ChangeInvariant ==
  ASSUME ReactionsInv, NEW q \in Req, Change(q)
  PROVE  ReactionsInv'
<1>1. PICK row \in Row, kind \in {"add", "remove"} :
        /\ reactions' = IF kind = "add" THEN AddReaction(row) ELSE RemoveReaction(row)
        /\ reqs' = [r \in Req |->
            IF r = q
            THEN [stage |-> "changed", kind |-> kind, row |-> row,
                  alone |-> TRUE, at |-> 0, snap |-> {}]
            ELSE IF reqs[r].stage = "changed" /\ reqs[r].row = row
                 THEN [reqs[r] EXCEPT !.alone = FALSE]
                 ELSE reqs[r]]
  BY DEF Change
<1>2. UNCHANGED <<casts, posts, got, reads, faults>> /\ ~Asked(q)
  BY DEF Change
<1>3. /\ reqs'[q] \in Request /\ reqs'[q].stage = "changed" /\ reqs'[q].kind = kind
      /\ reqs'[q].row = row
  BY <1>1 DEF Request
<1>4. \A r \in Req \ {q} :
        /\ reqs'[r] \in Request \cup {NoRequest}
        /\ reqs'[r].stage = reqs[r].stage
        /\ Asked(r) => /\ reqs'[r].row = reqs[r].row /\ reqs'[r].kind = reqs[r].kind
                       /\ reqs'[r].at = reqs[r].at /\ reqs'[r].snap = reqs[r].snap
                       /\ reqs'[r].alone => reqs[r].alone
        /\ reqs[r].stage = "changed" /\ reqs'[r].alone => reqs[r].row # row
  <2> SUFFICES ASSUME NEW r \in Req \ {q}
               PROVE  /\ reqs'[r] \in Request \cup {NoRequest}
                      /\ reqs'[r].stage = reqs[r].stage
                      /\ Asked(r) =>
                            /\ reqs'[r].row = reqs[r].row /\ reqs'[r].kind = reqs[r].kind
                            /\ reqs'[r].at = reqs[r].at /\ reqs'[r].snap = reqs[r].snap
                            /\ reqs'[r].alone => reqs[r].alone
                      /\ reqs[r].stage = "changed" /\ reqs'[r].alone => reqs[r].row # row
    OBVIOUS
  <2>1. CASE reqs[r].stage = "changed" /\ reqs[r].row = row
    <3>1. reqs[r] \in Request /\ reqs'[r] = [reqs[r] EXCEPT !.alone = FALSE]
      BY <1>1, <2>1, RequestTypes DEF ReactionsInv, Asked
    <3> QED
      BY <2>1, <3>1 DEF Request
  <2>2. CASE ~(reqs[r].stage = "changed" /\ reqs[r].row = row)
    <3>1. reqs'[r] = reqs[r]
      BY <1>1, <2>2
    <3> QED
      BY <2>2, <3>1, RequestTypes DEF ReactionsInv
  <2> QED
    BY <2>1, <2>2
<1>5. reactions' \subseteq Row
  BY <1>1 DEF ReactionsInv, TypeOK, AddReaction, RemoveReaction
<1>6. TypeOK'
  <2>1. reqs' \in [Req -> Request \cup {NoRequest}]
    BY <1>1, <1>3, <1>4
  <2>2. \A r \in Req : /\ reqs'[r].stage = "answered" => reqs'[r].at \in 1..reads
                       /\ casts[r].stage # "none" => reqs'[r].stage = "answered"
    BY <1>2, <1>3, <1>4 DEF ReactionsInv, TypeOK, Asked
  <2> QED
    BY <1>2, <1>5, <2>1, <2>2 DEF ReactionsInv, TypeOK
<1>7. PostInv'
  BY <1>2, <1>3, <1>4 DEF ReactionsInv, PostInv, Answered, Asked
<1>8. AloneInv'
  <2> SUFFICES ASSUME NEW r \in Req, reqs'[r].stage \in {"changed", "answered"}, reqs'[r].alone
               PROVE  reqs'[r].row \in (IF Answered(r)' THEN reqs'[r].snap ELSE reactions') <=>
                        reqs'[r].kind = "add"
    BY DEF AloneInv
  <2>1. CASE r = q
    BY <1>1, <1>3, <2>1 DEF Answered, AddReaction, RemoveReaction
  <2>2. CASE r # q /\ reqs[r].stage = "changed"
    <3>1. reqs[r].row # row /\ ~Answered(r)'
      BY <1>4, <2>2 DEF Answered
    <3>2. reqs[r].row \in reactions' <=> reqs[r].row \in reactions
      BY <1>1, <3>1 DEF AddReaction, RemoveReaction
    <3>3. reqs[r].row \in reactions <=> reqs[r].kind = "add"
      BY <1>4, <2>2 DEF ReactionsInv, AloneInv, Answered, Asked
    <3> QED
      BY <1>4, <2>2, <3>1, <3>2, <3>3 DEF Asked
  <2>3. CASE r # q /\ reqs[r].stage = "answered"
    BY <1>4, <2>3 DEF ReactionsInv, AloneInv, Answered, Asked
  <2> QED
    BY <1>4, <2>1, <2>2, <2>3
<1>9. ReadInv'
  <2>1. Asked(q)' /\ ~Answered(q)'
    BY <1>3 DEF Asked, Answered
  <2>2. reads' # 0 => \E r \in Req : Answered(r)' /\ reqs'[r].at = reads'
    <3> SUFFICES ASSUME reads # 0
                 PROVE  \E r \in Req : Answered(r)' /\ reqs'[r].at = reads
      BY <1>2
    <3>1. PICK r \in Req : Answered(r) /\ reqs[r].at = reads
      BY DEF ReactionsInv, ReadInv
    <3> QED
      BY <1>2, <1>4, <3>1 DEF Answered, Asked
  <2> QED
    BY <2>1, <2>2 DEF ReadInv
<1> QED
  BY <1>6, <1>7, <1>8, <1>9 DEF ReactionsInv

LEMMA ListReactionsInvariant ==
  ASSUME ReactionsInv, NEW q \in Req, ListReactions(q)
  PROVE  ReactionsInv'
<1>1. /\ UNCHANGED <<reactions, posts, got, faults>>
      /\ reads' = reads + 1 /\ reads \in Nat
      /\ reqs[q].stage = "changed"
      /\ \A r \in Req \ {q} : reqs'[r] = reqs[r] /\ casts'[r] = casts[r]
  BY DEF ListReactions, ReactionsInv, TypeOK
<1>2. /\ reqs'[q] \in Request /\ reqs'[q].stage = "answered" /\ reqs'[q].at = reads + 1
      /\ reqs'[q].snap = reactions /\ reqs'[q].row = reqs[q].row
      /\ reqs'[q].kind = reqs[q].kind /\ reqs'[q].alone = reqs[q].alone
  <2>1. reqs[q] \in Request /\ reactions \in SUBSET Row
    BY <1>1, RequestTypes DEF ReactionsInv, TypeOK, Asked
  <2>2. reqs'[q] = [reqs[q] EXCEPT !.stage = "answered", !.at = reads + 1, !.snap = reactions]
    BY DEF ListReactions, ReactionsInv, TypeOK
  <2>3. reads + 1 \in Nat
    BY <1>1
  <2> QED
    BY <2>1, <2>2, <2>3 DEF Request
<1>3. casts'[q] \in Cast /\ casts'[q].stage = "listing" /\ casts'[q].left = casts[q].left
  <2>1. casts[q] \in Cast /\ casts'[q] = [casts[q] EXCEPT !.stage = "listing"]
    BY DEF ListReactions, ReactionsInv, TypeOK
  <2> QED
    BY <2>1 DEF Cast
<1>4. casts[q].stage = "none" /\ casts[q].left = {}
  BY <1>1 DEF ReactionsInv, TypeOK
<1>5. TypeOK'
  <2>1. /\ reqs' \in [Req -> Request \cup {NoRequest}]
        /\ casts' \in [Req -> Cast]
    BY <1>2, <1>3 DEF ListReactions, ReactionsInv, TypeOK
  <2>2. \A r \in Req : reqs'[r].stage = "answered" => reqs'[r].at \in 1..reads'
    BY <1>1, <1>2 DEF ReactionsInv, TypeOK
  <2> QED
    BY <1>1, <1>2, <1>3, <1>4, <2>1, <2>2 DEF ReactionsInv, TypeOK
<1>6. PostInv'
  BY <1>1, <1>2, <1>3, <1>4 DEF ReactionsInv, PostInv, Answered
<1>7. AloneInv'
  BY <1>1, <1>2 DEF ReactionsInv, AloneInv, Answered
<1>8. ReadInv'
  <2>1. \A r \in Req \ {q} : Answered(r) => reqs'[r].at # reads'
    BY <1>1 DEF ReactionsInv, TypeOK, Answered
  <2> QED
    BY <1>1, <1>2, <2>1 DEF ReadInv, Answered, Asked
<1> QED
  BY <1>5, <1>6, <1>7, <1>8 DEF ReactionsInv

\* Requests that fail between their change and their read: one whose statement
\* fails, or those that a crash finds there.
LEMMA FailInvariant ==
  ASSUME ReactionsInv, UNCHANGED <<reactions, got, reads>>, posts' \subseteq posts,
         faults' \in 0..MaxFaults, casts' \in [Req -> Cast],
         reqs' \in [Req -> Request \cup {NoRequest}],
         \A q \in Req : \/ reqs'[q] = reqs[q]
                        \/ reqs[q].stage = "changed" /\ reqs'[q].stage = "failed",
         \A q \in Req : \/ casts'[q] = casts[q]
                        \/ /\ casts[q].stage # "none" /\ casts'[q].stage = "failed"
                           /\ casts'[q].left = {}
  PROVE  ReactionsInv'
<1>1. TypeOK'
  BY DEF ReactionsInv, TypeOK
<1>2. PostInv'
  BY DEF ReactionsInv, PostInv, Answered
<1>3. AloneInv'
  BY DEF ReactionsInv, AloneInv, Answered
<1>4. ReadInv'
  BY DEF ReactionsInv, ReadInv, Answered, Asked
<1> QED
  BY <1>1, <1>2, <1>3, <1>4 DEF ReactionsInv

\* A step of the telling of q: others, requests and reactions stay.
Tells(q) ==
    /\ UNCHANGED <<reactions, reqs, reads>>
    /\ casts' \in [Req -> Cast] /\ \A r \in Req \ {q} : casts'[r] = casts[r]

\* The telling leaves what was read alone.
LEMMA TellingKeepsReads ==
  ASSUME ReactionsInv, UNCHANGED <<reactions, reqs, reads>>
  PROVE  AloneInv' /\ ReadInv'
BY DEF ReactionsInv, AloneInv, ReadInv, Answered, Asked

LEMMA ListMemberIDsInvariant ==
  ASSUME ReactionsInv, NEW q \in Req, ListMemberIDs(q)
  PROVE  ReactionsInv'
<1>1. /\ UNCHANGED <<reactions, reqs, posts, got, reads, faults>>
      /\ casts[q].stage = "listing" /\ casts'[q] = [stage |-> "posting", left |-> Member]
      /\ \A r \in Req \ {q} : casts'[r] = casts[r]
  BY DEF ListMemberIDs, ReactionsInv, TypeOK
<1>2. casts' \in [Req -> Cast]
  BY DEF ListMemberIDs, ReactionsInv, TypeOK, Cast
<1>3. TypeOK'
  BY <1>1, <1>2 DEF ReactionsInv, TypeOK
<1>4. PostInv'
  BY <1>1 DEF ReactionsInv, PostInv, Answered
<1> QED
  BY <1>1, <1>3, <1>4, TellingKeepsReads DEF ReactionsInv

LEMMA NotifyInvariant ==
  ASSUME ReactionsInv, NEW q \in Req, NEW m \in Member, Notify(q, m)
  PROVE  ReactionsInv'
<1> DEFINE left == casts[q].left \ {m}
<1>1. /\ UNCHANGED <<reactions, reqs, got, reads, faults>>
      /\ casts[q].stage = "posting" /\ m \in casts[q].left
      /\ \A r \in Req \ {q} : casts'[r] = casts[r]
      /\ posts \subseteq posts' /\ <<q, m, "event">> \in posts'
      /\ posts' \subseteq posts \cup {<<q, m, "event">>, <<q, m, "notification">>}
  BY DEF Notify, ReactionsInv, TypeOK
<1>2. /\ casts'[q].stage = (IF casts[q].left = {m} THEN "posted" ELSE "posting")
      /\ casts'[q].left = left
      /\ casts' \in [Req -> Cast]
  <2>1. casts' = [casts EXCEPT ![q] =
            [stage |-> IF casts[q].left = {m} THEN "posted" ELSE "posting", left |-> left]]
    BY DEF Notify, ReactionsInv, TypeOK
  <2>2. left \in SUBSET Member
    BY DEF ReactionsInv, TypeOK, Cast
  <2> QED
    BY <2>1, <2>2 DEF ReactionsInv, TypeOK, Cast
<1>3. \A r \in Req, k \in Member :
        <<r, k, "event">> \in posts' => <<r, k, "event">> \in posts \/ (r = q /\ k = m)
  BY <1>1
<1>4. Answered(q)
  BY <1>1 DEF ReactionsInv, TypeOK, Answered
<1>5. q \notin got[m]
  BY <1>1 DEF ReactionsInv, PostInv
<1>6. TypeOK'
  <2>1. posts' \subseteq Req \X Member \X {"event", "notification"}
    BY <1>1 DEF ReactionsInv, TypeOK
  <2>2. \A r \in Req :
          /\ casts'[r].stage # "none" => reqs[r].stage = "answered"
          /\ casts'[r].left # {} => casts'[r].stage = "posting"
    BY <1>1, <1>2, <1>4 DEF ReactionsInv, TypeOK, Answered
  <2>3. \A r \in Req, k \in Member : <<r, k, "event">> \in posts' => r \notin got[k]
    BY <1>3, <1>5 DEF ReactionsInv, TypeOK
  <2> QED
    BY <1>1, <1>2, <2>1, <2>2, <2>3 DEF ReactionsInv, TypeOK
<1>7. PostInv'
  <2>1. \A r \in Req, k \in Member :
          <<r, k, "event">> \in posts' \/ r \in got'[k] => Answered(r)'
    BY <1>1, <1>3, <1>4 DEF ReactionsInv, PostInv, Answered
  <2>2. \A r \in Req, k \in Member :
          k \in casts'[r].left \/ casts'[r].stage \in {"none", "listing"} =>
              <<r, k, "event">> \notin posts' /\ r \notin got'[k]
    BY <1>1, <1>2, <1>3 DEF ReactionsInv, PostInv
  <2>3. \A r \in Req : Answered(r)' => casts'[r].stage # "none"
    BY <1>1, <1>2 DEF ReactionsInv, PostInv, Answered
  <2> QED
    BY <2>1, <2>2, <2>3 DEF PostInv
<1> QED
  BY <1>1, <1>6, <1>7, TellingKeepsReads DEF ReactionsInv

\* A post arrives or ends.
LEMMA PostsInvariant ==
  ASSUME ReactionsInv, NEW p \in posts, Deliver(p) \/ PostFails(p)
  PROVE  ReactionsInv'
<1>1. /\ UNCHANGED <<reactions, reqs, casts, reads, faults>>
      /\ posts' = posts \ {p}
      /\ \/ got' = got
         \/ /\ p[3] = "event"
            /\ got' = [got EXCEPT ![p[2]] = @ \cup {p[1]}]
  BY DEF Deliver, PostFails, Reaches, ReactionsInv, TypeOK
<1>2. PICK q \in Req, m \in Member, k \in {"event", "notification"} : p = <<q, m, k>>
  BY DEF ReactionsInv, TypeOK
<1>3. /\ got' \in [Member -> SUBSET Req]
      /\ \A r \in Req, n \in Member :
            r \in got'[n] => r \in got[n] \/ (r = q /\ n = m /\ k = "event")
  BY <1>1, <1>2 DEF ReactionsInv, TypeOK
<1>4. TypeOK'
  <2>1. \A r \in Req, n \in Member : <<r, n, "event">> \in posts' => r \notin got'[n]
    BY <1>1, <1>2, <1>3 DEF ReactionsInv, TypeOK
  <2> QED
    BY <1>1, <1>3, <2>1 DEF ReactionsInv, TypeOK
<1>5. PostInv'
  BY <1>1, <1>2, <1>3 DEF ReactionsInv, PostInv, Answered
<1> QED
  BY <1>1, <1>4, <1>5, TellingKeepsReads DEF ReactionsInv

LEMMA CrashInvariant ==
  ASSUME ReactionsInv, Crash
  PROVE  ReactionsInv'
<1>1. /\ UNCHANGED <<reactions, got, reads>> /\ posts' \subseteq posts
      /\ faults' \in 0..MaxFaults
  BY ReactionsAssumption DEF Crash, ReactionsInv, TypeOK
<1>2. ASSUME NEW q \in Req
      PROVE  /\ reqs'[q] \in Request \cup {NoRequest}
             /\ \/ reqs'[q] = reqs[q]
                \/ reqs[q].stage = "changed" /\ reqs'[q].stage = "failed"
  <2>1. CASE reqs[q].stage = "changed"
    <3>1. reqs[q] \in Request /\ reqs'[q] = [reqs[q] EXCEPT !.stage = "failed"]
      BY <2>1, RequestTypes DEF Crash, ReactionsInv, Asked
    <3> QED
      BY <2>1, <3>1 DEF Request
  <2>2. CASE reqs[q].stage # "changed"
    BY <2>2, RequestTypes DEF Crash, ReactionsInv
  <2> QED
    BY <2>1, <2>2
<1>3. \A q \in Req :
        /\ casts'[q] \in Cast
        /\ \/ casts'[q] = casts[q]
           \/ /\ casts[q].stage # "none" /\ casts'[q].stage = "failed"
              /\ casts'[q].left = {}
  BY RequestTypes DEF Crash, ReactionsInv, Cast
<1>4. reqs' \in [Req -> Request \cup {NoRequest}] /\ casts' \in [Req -> Cast]
  BY <1>2, <1>3 DEF Crash
<1> QED
  BY <1>1, <1>2, <1>3, <1>4, FailInvariant

LEMMA FailuresInvariant ==
  ASSUME ReactionsInv, NEW q \in Req, ListReactionsFails(q) \/ ListMemberIDsFails(q)
  PROVE  ReactionsInv'
<1>1. CASE ListReactionsFails(q)
  <2>1. /\ UNCHANGED <<reactions, casts, posts, got, reads, faults>>
        /\ reqs[q].stage = "changed" /\ reqs' = [reqs EXCEPT ![q].stage = "failed"]
    BY <1>1 DEF ListReactionsFails
  <2>2. reqs[q] \in Request
    BY <2>1, RequestTypes DEF ReactionsInv, Asked
  <2>3. reqs'[q] \in Request /\ reqs'[q].stage = "failed"
    BY <2>1, <2>2 DEF ReactionsInv, TypeOK, Request
  <2>4. reqs' \in [Req -> Request \cup {NoRequest}]
    BY <2>1, <2>3 DEF ReactionsInv, TypeOK
  <2>5. \A r \in Req : r # q => reqs'[r] = reqs[r]
    BY <2>1 DEF ReactionsInv, TypeOK
  <2> QED
    BY <2>1, <2>3, <2>4, <2>5, FailInvariant DEF ReactionsInv, TypeOK
<1>2. CASE ListMemberIDsFails(q)
  <2>1. /\ UNCHANGED <<reactions, reqs, posts, got, reads>>
        /\ casts[q].stage = "listing" /\ casts' = [casts EXCEPT ![q].stage = "failed"]
        /\ faults' \in 0..MaxFaults
    BY <1>2, ReactionsAssumption DEF ListMemberIDsFails, ReactionsInv, TypeOK
  <2>2. casts'[q].stage = "failed" /\ casts'[q].left = {} /\ casts'[q] \in Cast
    BY <2>1 DEF ReactionsInv, TypeOK, Cast
  <2>3. \A r \in Req : r # q => casts'[r] = casts[r]
    BY <2>1 DEF ReactionsInv, TypeOK
  <2>4. casts' \in [Req -> Cast]
    BY <2>1, <2>2 DEF ReactionsInv, TypeOK
  <2> QED
    BY <2>1, <2>2, <2>3, <2>4, FailInvariant DEF ReactionsInv, TypeOK
<1> QED
  BY <1>1, <1>2

-----------------------------------------------------------------------------
(* Theorems                                                                *)

LEMMA ReactionsInvariant == ReactionsInv /\ [Next]_vars => ReactionsInv'
<1> SUFFICES ASSUME ReactionsInv, [Next]_vars PROVE ReactionsInv'
  OBVIOUS
<1>1. ASSUME NEW q \in Req, Change(q) \/ ListReactions(q) \/ ListMemberIDs(q)
      PROVE  ReactionsInv'
  BY <1>1, ChangeInvariant, ListReactionsInvariant, ListMemberIDsInvariant
<1>2. ASSUME NEW q \in Req, ListReactionsFails(q) \/ ListMemberIDsFails(q)
      PROVE  ReactionsInv'
  BY <1>2, FailuresInvariant
<1>3. ASSUME NEW q \in Req, NEW m \in Member, Notify(q, m)
      PROVE  ReactionsInv'
  BY <1>3, NotifyInvariant
<1>4. ASSUME NEW p \in posts, Deliver(p) \/ PostFails(p)
      PROVE  ReactionsInv'
  BY <1>4, PostsInvariant
<1>5. CASE Crash
  BY <1>5, CrashInvariant
<1>6. CASE UNCHANGED vars
  <2>1. TypeOK' /\ PostInv'
    BY <1>6 DEF vars, ReactionsInv, TypeOK, PostInv, Answered
  <2> QED
    BY <1>6, <2>1, TellingKeepsReads DEF vars, ReactionsInv
<1> QED
  BY <1>1, <1>2, <1>3, <1>4, <1>5, <1>6 DEF Next

\* Requests, goroutines and posts stay well formed: only an answered request is
\* told, and no member gets its event twice (broadcastReactions).
THEOREM TypeCorrect == Spec => []TypeOK
<1>1. ReactionsInv => TypeOK
  BY DEF ReactionsInv
<1> QED
  BY <1>1, InitInvariant, ReactionsInvariant, PTL DEF Spec

\* An answer shows the change it was asked for, unless another request changed
\* the same row before the read (AddReactionHandler, RemoveReactionHandler).
THEOREM AnswersAreTrue == Spec => []AnswersShowTheChange
<1>1. ReactionsInv => AnswersShowTheChange
  BY DEF ReactionsInv, AloneInv, Answered, AnswersShowTheChange
<1> QED
  BY <1>1, InitInvariant, ReactionsInvariant, PTL DEF Spec

\* A member who got every event, however ordered, finds the current reactions
\* in the one that was read last (broadcastReactions, BackendClient).
THEOREM LatestEventSuffices == Spec => []EventsSuffice
<1>1. ReactionsInv => EventsSuffice
  <2> SUFFICES ASSUME ReactionsInv, NEW m \in Member, NEW q \in Req,
                      \A r \in Req : Asked(r) => r \in got[m],
                      Asked(q),
                      \A r \in Req : Asked(r) => reqs[r].at <= reqs[q].at
               PROVE  reqs[q].snap = reactions
    BY DEF EventsSuffice
  <2>1. \A r \in Req : Asked(r) => Answered(r)
    BY DEF ReactionsInv, PostInv
  <2>2. reads \in Nat /\ reqs[q].at \in 1..reads
    BY <2>1 DEF ReactionsInv, TypeOK, Answered
  <2>3. PICK r \in Req : Answered(r) /\ reqs[r].at = reads
    BY <2>2 DEF ReactionsInv, ReadInv
  <2>4. reqs[q].at = reads
    BY <2>2, <2>3 DEF Answered, Asked
  <2> QED
    BY <2>1, <2>4 DEF ReactionsInv, ReadInv
<1> QED
  BY <1>1, InitInvariant, ReactionsInvariant, PTL DEF Spec

=============================================================================
