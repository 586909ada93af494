---------------------------- MODULE InboxProofs ----------------------------
(***************************************************************************)
(* Proofs about Inbox, for any number of users, conversations, messages    *)
(* and requests in flight: what a request for a direct conversation finds  *)
(* and creates, and what stops a message from counting as unread.          *)
(***************************************************************************)
EXTENDS Inbox, FiniteSetTheorems, TLAPS

\* A request that found nothing is for somebody. As long as it is alone there
\* is no direct conversation of the two, and no other request is to create one.
CreateInv == \A r \in Call : calls[r].kind = "create" =>
    /\ calls[r].pair # {}
    /\ calls[r].alone =>
          /\ \A d \in Conv : convs[d].type = "direct" => convs[d].members # calls[r].pair
          /\ \A q \in Call \ {r} : calls[q].kind = "create" => calls[q].pair # calls[r].pair

\* No two transactions insert the same row.
SendInv == \A r, q \in Call : \A m \in MsgId : Sends(r, m) /\ Sends(q, m) => r = q

\* A read is a member's, of a time that has come.
ReadInv == \A r \in Call : calls[r].kind = "read" =>
    IsMember(calls[r].conv, calls[r].user) /\ calls[r].at \in 1..now

InboxInv == TypeOK /\ AnswersAreDirect /\ CreateInv /\ SendInv /\ ReadInv

-----------------------------------------------------------------------------
(* What the tables and the requests hold                                   *)

\* A request has the fields of its kind.
LEMMA RequestTypes ==
  ASSUME TypeOK, NEW r \in Call
  PROVE  /\ calls[r] = Free \/ calls[r] \in Request
         /\ calls[r].kind = "create" =>
              calls[r] \in [kind : {"create"}, pair : SUBSET User, alone : BOOLEAN]
         /\ calls[r].kind = "send" =>
              calls[r] \in [kind : {"send"}, msg : MsgId, scheduled : BOOLEAN]
         /\ calls[r].kind = "read" =>
              calls[r] \in [kind : {"read"}, user : User, conv : Conv, at : Nat]
<1>1. calls[r] \in Request \cup {Free}
  BY DEF TypeOK
<1> QED
  BY <1>1 DEF Request, Free

\* The query of FindDirectConversation returns the direct conversations of
\* exactly the two users, also when the two are one.
LEMMA FindsThePair ==
  ASSUME TypeOK, NEW u \in User, NEW v \in User, NEW c \in Conv
  PROVE  c \in DirectConversations(u, v) <=>
           convs[c] = [type |-> "direct", members |-> {u, v}]
<1> DEFINE members == convs[c].members
           size == IF u = v THEN 1 ELSE 2
<1>1. /\ convs[c] \in Conversation
      /\ members \in SUBSET User
  BY DEF TypeOK, Conversation
<1>2. IsFiniteSet({u, v}) /\ Cardinality({u, v}) = size
  <2>1. IsFiniteSet({u}) /\ Cardinality({u}) = 1
    BY FS_Singleton
  <2>2. {u, v} = {u} \cup {v}
    OBVIOUS
  <2>3. /\ IsFiniteSet({u} \cup {v})
        /\ Cardinality({u} \cup {v}) = IF v \in {u} THEN 1 ELSE 1 + 1
    BY <2>1, FS_AddElement
  <2> QED
    BY <2>2, <2>3
<1>3. IsFiniteSet(members)
  BY <1>1, InboxAssumption, FS_Subset
<1>4. ASSUME {u, v} \subseteq members, Cardinality(members) = size
      PROVE  members = {u, v}
  <2>1. {u, v} \in SUBSET members
    BY <1>4
  <2> QED
    BY <1>2, <1>3, <1>4, <2>1, FS_Subset
<1>5. c \in DirectConversations(u, v) <=>
        convs[c].type = "direct" /\ {u, v} \subseteq members /\ Cardinality(members) = size
  BY DEF DirectConversations
<1>6. convs[c].type = "direct" /\ members = {u, v} <=>
        convs[c] = [type |-> "direct", members |-> {u, v}]
  BY <1>1 DEF Conversation
<1> QED
  BY <1>2, <1>4, <1>5, <1>6

LEMMA InitInvariant ==
  ASSUME Init
  PROVE  InboxInv
<1>1. TypeOK
  <2>1. \A r \in Call, m \in MsgId : ~Sends(r, m)
    BY DEF Init, Free, Sends
  <2> QED
    BY <2>1, InboxAssumption
    DEF Init, TypeOK, Conversation, NoConversation, Unsent, Free
<1> QED
  BY <1>1 DEF Init, InboxInv, AnswersAreDirect, CreateInv, SendInv, ReadInv, Sends, Free

-----------------------------------------------------------------------------
(* Steps on conversations                                                  *)

LEMMA FindDirectConversationInvariant ==
  ASSUME InboxInv, NEW p \in Call, NEW u \in User, NEW v \in User,
         FindDirectConversation(p, u, v)
  PROVE  InboxInv'
<1> DEFINE rivals == {q \in Call : calls[q].kind = "create" /\ calls[q].pair = {u, v}}
<1>1. /\ UNCHANGED <<now, convs, lastRead, msgs>>
      /\ calls[p] = Free
      /\ TypeOK
  BY DEF FindDirectConversation, InboxInv
<1>2. CASE \E c \in DirectConversations(u, v) :
              /\ answered' = answered \cup {[pair |-> {u, v}, conv |-> c]}
              /\ UNCHANGED calls
  <2>1. PICK c \in DirectConversations(u, v) :
              /\ answered' = answered \cup {[pair |-> {u, v}, conv |-> c]}
              /\ UNCHANGED calls
    BY <1>2
  <2>2. c \in Conv /\ convs[c] = [type |-> "direct", members |-> {u, v}]
    BY <1>1, FindsThePair DEF DirectConversations
  <2>3. TypeOK'
    BY <1>1, <2>1, <2>2 DEF TypeOK, Sends
  <2>4. AnswersAreDirect'
    <3> SUFFICES ASSUME NEW a \in answered'
                 PROVE  convs[a.conv] = [type |-> "direct", members |-> a.pair]
      BY <1>1 DEF AnswersAreDirect
    <3>1. CASE a \in answered
      BY <3>1 DEF InboxInv, AnswersAreDirect
    <3>2. CASE a = [pair |-> {u, v}, conv |-> c]
      <4>1. a.pair = {u, v} /\ a.conv = c
        BY <3>2
      <4> QED
        BY <2>2, <4>1
    <3> QED
      BY <2>1, <3>1, <3>2
  <2>5. CreateInv' /\ SendInv' /\ ReadInv'
    BY <1>1, <2>1 DEF InboxInv, CreateInv, SendInv, ReadInv, Sends, IsMember
  <2> QED
    BY <2>3, <2>4, <2>5 DEF InboxInv
<1>3. CASE /\ DirectConversations(u, v) = {}
           /\ calls' = [q \in Call |->
                IF q = p THEN [kind |-> "create", pair |-> {u, v}, alone |-> rivals = {}]
                ELSE IF q \in rivals THEN [calls[q] EXCEPT !.alone = FALSE]
                ELSE calls[q]]
           /\ UNCHANGED answered
  <2>1. calls'[p] = [kind |-> "create", pair |-> {u, v}, alone |-> rivals = {}]
    BY <1>3
  <2>2. \A q \in rivals : /\ q # p
                          /\ calls'[q] = [calls[q] EXCEPT !.alone = FALSE]
                          /\ calls[q] \in [kind : {"create"}, pair : SUBSET User, alone : BOOLEAN]
    BY <1>1, <1>3, RequestTypes DEF Free
  <2>3. \A q \in Call : q # p /\ q \notin rivals => calls'[q] = calls[q]
    BY <1>3
  <2>4. \A q \in rivals : /\ calls'[q].kind = "create"
                          /\ calls'[q].pair = calls[q].pair
                          /\ calls'[q].alone = FALSE
                          /\ calls'[q] \in Request
    <3> SUFFICES ASSUME NEW q \in rivals
                 PROVE  /\ calls'[q].kind = "create"
                        /\ calls'[q].pair = calls[q].pair
                        /\ calls'[q].alone = FALSE
                        /\ calls'[q] \in [kind : {"create"}, pair : SUBSET User, alone : BOOLEAN]
      BY DEF Request
    <3> QED
      BY <2>2
  <2>5. \A q \in Call : /\ calls'[q].kind \in {"send", "read"} <=> calls[q].kind \in {"send", "read"}
                        /\ calls[q].kind \in {"send", "read"} => calls'[q] = calls[q]
    BY <1>1, <2>1, <2>2, <2>3, <2>4 DEF Free
  <2>6. calls' \in [Call -> Request \cup {Free}]
    <3>1. calls'[p] \in Request
      BY <2>1 DEF Request
    <3>2. \A q \in Call : calls'[q] \in Request \cup {Free}
      BY <1>1, <2>3, <2>4, <3>1 DEF TypeOK
    <3> QED
      BY <1>3, <3>2
  <2>7. \A r \in Call, m \in MsgId : Sends(r, m)' <=> Sends(r, m)
    BY <2>5 DEF Sends
  <2>8. TypeOK'
    BY <1>1, <1>3, <2>6, <2>7 DEF TypeOK
  <2>9. SendInv' /\ ReadInv' /\ AnswersAreDirect'
    BY <1>1, <1>3, <2>5, <2>7 DEF InboxInv, SendInv, ReadInv, IsMember, AnswersAreDirect
  <2>10. \A d \in Conv : convs[d].type = "direct" => convs[d].members # {u, v}
    BY <1>1, <1>3, FindsThePair DEF TypeOK, Conversation
  <2>11. CreateInv'
    <3> SUFFICES ASSUME NEW r \in Call, calls'[r].kind = "create"
                 PROVE  /\ calls'[r].pair # {}
                        /\ calls'[r].alone =>
                             /\ \A d \in Conv : convs[d].type = "direct" =>
                                   convs[d].members # calls'[r].pair
                             /\ \A q \in Call \ {r} : calls'[q].kind = "create" =>
                                   calls'[q].pair # calls'[r].pair
      BY <1>1 DEF CreateInv
    <3>1. CASE r = p
      <4>1. calls'[r].pair = {u, v} /\ (calls'[r].alone => rivals = {})
        <5>1. CASE rivals = {}
          BY <2>1, <3>1, <5>1
        <5>2. CASE rivals # {}
          <6>1. (rivals = {}) = FALSE
            BY <5>2
          <6>2. calls'[r] = [kind |-> "create", pair |-> {u, v}, alone |-> FALSE]
            BY <2>1, <3>1, <6>1, Zenon
          <6> QED
            BY <6>2
        <5> QED
          BY <5>1, <5>2
      <4>2. rivals = {} => \A q \in Call \ {r} : calls'[q].kind = "create" => calls'[q].pair # {u, v}
        BY <2>3, <3>1
      <4> QED
        BY <2>10, <4>1, <4>2
    <3>2. CASE r \in rivals
      BY <2>4, <3>2
    <3>3. CASE r # p /\ r \notin rivals
      <4>1. calls'[r] = calls[r] /\ calls[r].kind = "create" /\ calls[r].pair # {u, v}
        BY <2>3, <3>3
      <4>2. \A q \in Call \ {r} : calls'[q].kind = "create" =>
               calls'[q].pair = {u, v} \/ (calls[q].kind = "create" /\ calls'[q].pair = calls[q].pair)
        BY <2>1, <2>3, <2>4
      <4> QED
        BY <4>1, <4>2 DEF InboxInv, CreateInv
    <3> QED
      BY <3>1, <3>2, <3>3
  <2> QED
    BY <2>8, <2>9, <2>11 DEF InboxInv
<1> QED
  BY <1>2, <1>3 DEF FindDirectConversation

\* Ending a request concerns no other one.
LEMMA OneEnds ==
  ASSUME InboxInv, NEW p \in Call, Ends(p)
  PROVE  /\ calls' \in [Call -> Request \cup {Free}]
         /\ calls'[p] = Free
         /\ \A q \in Call \ {p} : calls'[q] = calls[q]
         /\ \A q \in Call : calls'[q].kind # "free" => q # p /\ calls'[q] = calls[q]
         /\ \A q \in Call, m \in MsgId : Sends(q, m)' <=> q # p /\ Sends(q, m)
BY DEF InboxInv, TypeOK, Ends, Sends, Free

\* A step that creates no conversation and adds no request to create one, or to
\* read, and does not turn the clock back keeps what is said of those requests.
LEMMA NoneIsAdded ==
  ASSUME InboxInv, UNCHANGED convs, now' \in Nat, now' >= now,
         \A q \in Call : calls'[q].kind \in {"create", "read"} => calls'[q] = calls[q]
  PROVE  CreateInv' /\ ReadInv'
<1>1. CreateInv'
  BY DEF InboxInv, CreateInv
<1>2. ReadInv'
  <2> SUFFICES ASSUME NEW r \in Call, calls'[r].kind = "read"
               PROVE  IsMember(calls'[r].conv, calls'[r].user) /\ calls'[r].at \in 1..now'
    BY DEF ReadInv, IsMember
  <2>1. calls'[r] = calls[r]
    OBVIOUS
  <2>2. IsMember(calls[r].conv, calls[r].user) /\ calls[r].at \in 1..now
    BY <2>1 DEF InboxInv, ReadInv
  <2> QED
    BY <2>1, <2>2 DEF InboxInv, TypeOK
<1> QED
  BY <1>1, <1>2

LEMMA CreateDirectInvariant ==
  ASSUME InboxInv, NEW p \in Call, NEW c \in Conv, CreateDirect(p, c)
  PROVE  InboxInv'
<1> DEFINE pair == calls[p].pair
<1>1. /\ UNCHANGED <<now, lastRead, msgs>>
      /\ calls[p].kind = "create" /\ pair \in SUBSET User /\ pair # {}
      /\ convs[c] = NoConversation
      /\ answered' = answered \cup {[pair |-> pair, conv |-> c]}
  BY RequestTypes DEF CreateDirect, CreateConversation, InboxInv, CreateInv
<1>2. /\ convs'[c].type = "direct" /\ convs'[c].members = pair
      /\ convs'[c] = [type |-> "direct", members |-> pair]
      /\ \A d \in Conv \ {c} : convs'[d] = convs[d]
      /\ convs' \in [Conv -> Conversation]
  BY <1>1 DEF CreateDirect, CreateConversation, InboxInv, TypeOK, Conversation
<1>3. /\ calls' \in [Call -> Request \cup {Free}]
      /\ \A q \in Call : calls'[q].kind # "free" => q # p /\ calls'[q] = calls[q]
      /\ \A q \in Call, m \in MsgId : Sends(q, m)' <=> q # p /\ Sends(q, m)
  BY OneEnds DEF CreateDirect
<1>4. \A m \in MsgId : ~Sends(p, m)
  BY <1>1 DEF Sends
<1>5. TypeOK'
  <2>1. \A d \in Conv : convs'[d].type = "none" <=> convs'[d].members = {}
    BY <1>1, <1>2 DEF InboxInv, TypeOK
  <2>2. \A d \in Conv, u \in User : lastRead[d][u] # 0 => u \in convs'[d].members
    BY <1>1, <1>2 DEF InboxInv, TypeOK, NoConversation
  <2>3. answered' \subseteq [pair : SUBSET User, conv : Conv]
    BY <1>1 DEF InboxInv, TypeOK
  <2> QED
    BY <1>1, <1>2, <1>3, <1>4, <2>1, <2>2, <2>3 DEF InboxInv, TypeOK
<1>6. AnswersAreDirect'
  <2> SUFFICES ASSUME NEW a \in answered'
               PROVE  convs'[a.conv] = [type |-> "direct", members |-> a.pair]
    BY DEF AnswersAreDirect
  <2>1. CASE a \in answered
    <3>1. convs[a.conv] = [type |-> "direct", members |-> a.pair] /\ a.conv \in Conv
      BY <2>1 DEF InboxInv, AnswersAreDirect, TypeOK
    <3>2. a.conv # c
      BY <1>1, <3>1 DEF NoConversation
    <3> QED
      BY <1>2, <3>1, <3>2
  <2>2. CASE a = [pair |-> pair, conv |-> c]
    <3>1. a.pair = pair /\ a.conv = c
      BY <2>2
    <3> QED
      BY <1>2, <3>1
  <2> QED
    BY <1>1, <2>1, <2>2
\* Another request for the same two was in flight beside this one, so it is not
\* alone.
<1>7. CreateInv'
  <2> SUFFICES ASSUME NEW r \in Call, calls'[r].kind = "create"
               PROVE  /\ calls'[r].pair # {}
                      /\ calls'[r].alone =>
                           /\ \A d \in Conv : convs'[d].type = "direct" =>
                                 convs'[d].members # calls'[r].pair
                           /\ \A q \in Call \ {r} : calls'[q].kind = "create" =>
                                 calls'[q].pair # calls'[r].pair
    BY DEF CreateInv
  <2>1. r # p /\ calls'[r] = calls[r]
    BY <1>3
  <2>2. calls[r].alone =>
           /\ \A d \in Conv : convs[d].type = "direct" => convs[d].members # calls[r].pair
           /\ \A q \in Call \ {r} : calls[q].kind = "create" => calls[q].pair # calls[r].pair
    BY <2>1 DEF InboxInv, CreateInv
  <2>3. calls[r].pair # {} /\ (calls[r].alone => pair # calls[r].pair)
    BY <1>1, <2>1, <2>2 DEF InboxInv, CreateInv
  <2> QED
    BY <1>2, <1>3, <2>1, <2>2, <2>3
<1>8. SendInv'
  BY <1>3 DEF InboxInv, SendInv
<1>9. ReadInv'
  <2> SUFFICES ASSUME NEW r \in Call, calls'[r].kind = "read"
               PROVE  calls'[r].user \in convs'[calls'[r].conv].members /\ calls'[r].at \in 1..now
    BY <1>1 DEF ReadInv, IsMember
  <2>1. calls'[r] = calls[r]
    BY <1>3
  <2>2. calls[r].user \in convs[calls[r].conv].members /\ calls[r].at \in 1..now
    BY <2>1 DEF InboxInv, ReadInv, IsMember
  <2>3. calls[r].conv \in Conv
    BY <2>1, RequestTypes DEF InboxInv
  <2>4. calls[r].conv # c
    BY <1>1, <2>2 DEF NoConversation
  <2> QED
    BY <1>2, <2>1, <2>2, <2>3, <2>4
<1> QED
  BY <1>5, <1>6, <1>7, <1>8, <1>9 DEF InboxInv

LEMMA CreateGroupInvariant ==
  ASSUME InboxInv, NEW c \in Conv, NEW u \in User, NEW others \in SUBSET User,
         CreateGroup(c, u, others)
  PROVE  InboxInv'
<1>1. /\ UNCHANGED <<now, lastRead, msgs, calls, answered>>
      /\ convs[c] = NoConversation
  BY DEF CreateGroup, CreateConversation
<1>2. /\ convs'[c].type = "group" /\ convs'[c].members = {u} \cup others
      /\ \A d \in Conv \ {c} : convs'[d] = convs[d]
      /\ convs' \in [Conv -> Conversation]
  BY DEF CreateGroup, CreateConversation, InboxInv, TypeOK, Conversation
<1>3. TypeOK'
  <2>1. \A d \in Conv : convs'[d].type = "none" <=> convs'[d].members = {}
    BY <1>2 DEF InboxInv, TypeOK
  <2>2. \A d \in Conv, v \in User : lastRead[d][v] # 0 => v \in convs'[d].members
    <3>1. \A d \in Conv, v \in User : lastRead[d][v] # 0 => v \in convs[d].members /\ d # c
      BY <1>1 DEF InboxInv, TypeOK, NoConversation
    <3> QED
      BY <1>2, <3>1
  <2> QED
    BY <1>1, <1>2, <2>1, <2>2 DEF InboxInv, TypeOK, Sends
<1>4. AnswersAreDirect'
  <2> SUFFICES ASSUME NEW a \in answered
               PROVE  convs'[a.conv] = [type |-> "direct", members |-> a.pair]
    BY <1>1 DEF AnswersAreDirect
  <2>1. convs[a.conv] = [type |-> "direct", members |-> a.pair] /\ a.conv \in Conv
    BY DEF InboxInv, AnswersAreDirect, TypeOK
  <2>2. a.conv # c
    BY <1>1, <2>1 DEF NoConversation
  <2> QED
    BY <1>2, <2>1, <2>2
<1>5. CreateInv' /\ SendInv'
  BY <1>1, <1>2 DEF InboxInv, CreateInv, SendInv, Sends
<1>6. ReadInv'
  <2> SUFFICES ASSUME NEW r \in Call, calls[r].kind = "read"
               PROVE  calls[r].user \in convs'[calls[r].conv].members /\ calls[r].at \in 1..now
    BY <1>1 DEF ReadInv, IsMember
  <2>1. calls[r].user \in convs[calls[r].conv].members /\ calls[r].at \in 1..now
    BY DEF InboxInv, ReadInv, IsMember
  <2>2. calls[r].conv \in Conv
    BY RequestTypes DEF InboxInv
  <2>3. calls[r].conv # c
    BY <1>1, <2>1 DEF NoConversation
  <2> QED
    BY <1>2, <2>1, <2>2, <2>3
<1> QED
  BY <1>3, <1>4, <1>5, <1>6 DEF InboxInv

-----------------------------------------------------------------------------
(* Steps on messages                                                       *)

LEMMA BeginSendInvariant ==
  ASSUME InboxInv, NEW p \in Call, NEW n \in MsgId, NEW c \in Conv, NEW u \in User,
         NEW s \in BOOLEAN, BeginSend(p, n, c, u, s)
  PROVE  InboxInv'
<1>1. /\ UNCHANGED <<now, convs, lastRead, answered>>
      /\ calls[p] = Free /\ msgs[n] = Unsent /\ now \in Nat
  BY DEF BeginSend, InboxInv, TypeOK
<1>2. /\ msgs'[n].state = "open"
      /\ \A m \in MsgId \ {n} : msgs'[m] = msgs[m]
      /\ msgs' \in [MsgId -> Message \cup {Unsent}]
  BY <1>1 DEF BeginSend, InboxInv, TypeOK, Message
<1>3. /\ calls'[p].kind = "send" /\ calls'[p].msg = n
      /\ \A q \in Call \ {p} : calls'[q] = calls[q]
      /\ calls' \in [Call -> Request \cup {Free}]
  BY DEF BeginSend, InboxInv, TypeOK, Request
<1>4. \A q \in Call, m \in MsgId : Sends(q, m)' <=> (IF q = p THEN m = n ELSE Sends(q, m))
  BY <1>3 DEF Sends
<1>5. \A q \in Call : ~Sends(q, n)
  BY <1>1 DEF InboxInv, TypeOK, Unsent
<1>6. \A m \in MsgId : ~Sends(p, m)
  BY <1>1 DEF Sends, Free
<1>7. TypeOK'
  <2>1. \A m \in MsgId : msgs'[m].state = "open" <=> \E r \in Call : Sends(r, m)'
    <3>1. \A m \in MsgId : msgs[m].state = "open" <=> \E r \in Call : Sends(r, m)
      BY DEF InboxInv, TypeOK
    <3> QED
      BY <1>2, <1>4, <1>6, <3>1
  <2> QED
    BY <1>1, <1>2, <1>3, <2>1 DEF InboxInv, TypeOK
<1>8. AnswersAreDirect'
  BY <1>1 DEF InboxInv, AnswersAreDirect
<1>9. SendInv'
  BY <1>4, <1>5 DEF InboxInv, SendInv
<1>10. CreateInv' /\ ReadInv'
  BY <1>1, <1>3, NoneIsAdded
<1> QED
  BY <1>7, <1>8, <1>9, <1>10 DEF InboxInv

LEMMA CommitSendInvariant ==
  ASSUME InboxInv, NEW p \in Call, CommitSend(p)
  PROVE  InboxInv'
<1> DEFINE n == calls[p].msg
<1>1. /\ UNCHANGED <<now, convs, lastRead, answered>>
      /\ calls[p].kind = "send" /\ n \in MsgId /\ now \in Nat
      /\ Sends(p, n)
  BY RequestTypes DEF CommitSend, InboxInv, TypeOK, Sends
<1>2. msgs[n] \in Message
  BY <1>1 DEF InboxInv, TypeOK, Unsent
<1>3. /\ msgs'[n].state # "open"
      /\ \A m \in MsgId \ {n} : msgs'[m] = msgs[m]
      /\ msgs' \in [MsgId -> Message \cup {Unsent}]
  BY <1>1, <1>2 DEF CommitSend, InboxInv, TypeOK, Message
<1>4. /\ calls' \in [Call -> Request \cup {Free}]
      /\ \A q \in Call : calls'[q].kind # "free" => q # p /\ calls'[q] = calls[q]
      /\ \A q \in Call, m \in MsgId : Sends(q, m)' <=> q # p /\ Sends(q, m)
  BY OneEnds DEF CommitSend
<1>5. \A m \in MsgId \ {n} : ~Sends(p, m)
  BY DEF Sends
<1>6. TypeOK'
  <2>1. \A m \in MsgId : msgs'[m].state = "open" <=> \E r \in Call : Sends(r, m)'
    <3>1. \A m \in MsgId : msgs[m].state = "open" <=> \E r \in Call : Sends(r, m)
      BY DEF InboxInv, TypeOK
    <3>2. \A q \in Call \ {p} : ~Sends(q, n)
      BY <1>1 DEF InboxInv, SendInv
    <3> QED
      BY <1>3, <1>4, <1>5, <3>1, <3>2
  <2> QED
    BY <1>1, <1>3, <1>4, <2>1 DEF InboxInv, TypeOK
<1>7. AnswersAreDirect' /\ SendInv'
  BY <1>1, <1>4 DEF InboxInv, AnswersAreDirect, SendInv
<1>8. CreateInv' /\ ReadInv'
  BY <1>1, <1>4, NoneIsAdded
<1> QED
  BY <1>6, <1>7, <1>8 DEF InboxInv

LEMMA OneMessageInvariant ==
  ASSUME InboxInv, NEW n \in MsgId, MarkMessageSent(n) \/ DeleteMessage(n)
  PROVE  InboxInv'
<1>1. /\ UNCHANGED <<now, convs, lastRead, calls, answered>>
      /\ msgs[n].state \in {"scheduled", "sent"} /\ now \in Nat
  BY DEF MarkMessageSent, DeleteMessage, InboxInv, TypeOK
<1>2. msgs[n] \in Message
  BY <1>1 DEF InboxInv, TypeOK, Unsent
<1>3. /\ msgs'[n].state # "open"
      /\ \A m \in MsgId \ {n} : msgs'[m] = msgs[m]
      /\ msgs' \in [MsgId -> Message \cup {Unsent}]
  <2>1. PICK state \in {"sent", "deleted"} : msgs' = [msgs EXCEPT ![n].state = state]
    BY DEF MarkMessageSent, DeleteMessage
  <2>2. msgs'[n] = [msgs[n] EXCEPT !.state = state] /\ \A m \in MsgId \ {n} : msgs'[m] = msgs[m]
    BY <2>1 DEF InboxInv, TypeOK
  <2>3. msgs'[n] \in Message /\ msgs'[n].state # "open"
    BY <1>2, <2>2 DEF Message
  <2> QED
    BY <2>1, <2>2, <2>3 DEF InboxInv, TypeOK
<1>4. \A q \in Call, m \in MsgId : Sends(q, m)' <=> Sends(q, m)
  BY <1>1 DEF Sends
<1>5. TypeOK'
  <2>1. \A m \in MsgId : msgs'[m].state = "open" <=> \E r \in Call : Sends(r, m)'
    <3>1. \A m \in MsgId : msgs[m].state = "open" <=> \E r \in Call : Sends(r, m)
      BY DEF InboxInv, TypeOK
    <3> QED
      BY <1>1, <1>3, <1>4, <3>1
  <2> QED
    BY <1>1, <1>3, <2>1 DEF InboxInv, TypeOK
<1>6. AnswersAreDirect' /\ SendInv'
  BY <1>1, <1>4 DEF InboxInv, AnswersAreDirect, SendInv
<1>7. CreateInv' /\ ReadInv'
  BY <1>1, NoneIsAdded
<1> QED
  BY <1>5, <1>6, <1>7 DEF InboxInv

-----------------------------------------------------------------------------
(* Reading, failing, and the clock                                         *)

LEMMA BeginReadInvariant ==
  ASSUME InboxInv, NEW p \in Call, NEW c \in Conv, NEW u \in User, BeginRead(p, c, u)
  PROVE  InboxInv'
<1>1. /\ UNCHANGED <<now, convs, lastRead, msgs, answered>>
      /\ calls[p] = Free /\ IsMember(c, u) /\ now \in Nat /\ now >= 1
  BY DEF BeginRead, InboxInv, TypeOK
<1>2. /\ calls'[p].kind = "read" /\ calls'[p].user = u /\ calls'[p].conv = c
      /\ calls'[p].at = now
      /\ \A q \in Call \ {p} : calls'[q] = calls[q]
      /\ calls' \in [Call -> Request \cup {Free}]
  BY <1>1 DEF BeginRead, InboxInv, TypeOK, Request
<1>3. \A q \in Call, m \in MsgId : Sends(q, m)' <=> Sends(q, m)
  BY <1>1, <1>2 DEF Sends, Free
<1>4. TypeOK'
  BY <1>1, <1>2, <1>3 DEF InboxInv, TypeOK
<1>5. AnswersAreDirect' /\ SendInv'
  BY <1>1, <1>3 DEF InboxInv, AnswersAreDirect, SendInv
<1>6. CreateInv'
  BY <1>1, <1>2 DEF InboxInv, CreateInv
<1>7. ReadInv'
  BY <1>1, <1>2 DEF InboxInv, ReadInv, IsMember
<1> QED
  BY <1>4, <1>5, <1>6, <1>7 DEF InboxInv

LEMMA MarkConversationReadInvariant ==
  ASSUME InboxInv, NEW p \in Call, MarkConversationRead(p)
  PROVE  InboxInv'
<1> DEFINE c == calls[p].conv
           u == calls[p].user
<1>1. /\ UNCHANGED <<now, convs, msgs, answered>>
      /\ calls[p].kind = "read" /\ c \in Conv /\ u \in User /\ now \in 1..MaxTime
      /\ u \in convs[c].members /\ calls[p].at \in 1..now
  BY RequestTypes DEF MarkConversationRead, InboxInv, TypeOK, ReadInv, IsMember
<1>2. calls[p].at \in 0..MaxTime
  BY <1>1, InboxAssumption
<1>3. /\ calls' \in [Call -> Request \cup {Free}]
      /\ \A q \in Call : calls'[q].kind # "free" => q # p /\ calls'[q] = calls[q]
      /\ \A q \in Call, m \in MsgId : Sends(q, m)' <=> q # p /\ Sends(q, m)
  BY OneEnds DEF MarkConversationRead
<1>4. \A m \in MsgId : ~Sends(p, m)
  BY <1>1 DEF Sends
<1>5. /\ lastRead' \in [Conv -> [User -> 0..MaxTime]]
      /\ \A d \in Conv, v \in User : lastRead'[d][v] # lastRead[d][v] => d = c /\ v = u
  <2>1. lastRead' = [lastRead EXCEPT ![c] = [lastRead[c] EXCEPT ![u] = calls[p].at]]
    BY <1>1 DEF MarkConversationRead, InboxInv, TypeOK
  <2>2. lastRead[c] \in [User -> 0..MaxTime]
    BY <1>1 DEF InboxInv, TypeOK
  <2>3. [lastRead[c] EXCEPT ![u] = calls[p].at] \in [User -> 0..MaxTime]
    BY <1>2, <2>2
  <2>4. \A d \in Conv : lastRead'[d] = IF d = c THEN [lastRead[c] EXCEPT ![u] = calls[p].at]
                                              ELSE lastRead[d]
    BY <1>1, <2>1 DEF InboxInv, TypeOK
  <2>5. lastRead' \in [Conv -> [User -> 0..MaxTime]]
    BY <1>1, <2>1, <2>3 DEF InboxInv, TypeOK
  <2> QED
    BY <2>2, <2>4, <2>5
<1>6. TypeOK'
  <2>1. \A d \in Conv, v \in User : lastRead'[d][v] # 0 => v \in convs[d].members
    BY <1>1, <1>5 DEF InboxInv, TypeOK
  <2>2. \A m \in MsgId : msgs[m].state = "open" <=> \E r \in Call : Sends(r, m)'
    BY <1>3, <1>4 DEF InboxInv, TypeOK
  <2> QED
    BY <1>1, <1>3, <1>5, <2>1, <2>2 DEF InboxInv, TypeOK
<1>7. AnswersAreDirect' /\ SendInv'
  BY <1>1, <1>3 DEF InboxInv, AnswersAreDirect, SendInv
<1>8. CreateInv' /\ ReadInv'
  BY <1>1, <1>3, NoneIsAdded
<1> QED
  BY <1>6, <1>7, <1>8 DEF InboxInv

LEMMA AbandonInvariant ==
  ASSUME InboxInv, NEW p \in Call, Abandon(p)
  PROVE  InboxInv'
<1>1. UNCHANGED <<now, convs, lastRead, answered>> /\ now \in Nat
  BY DEF Abandon, InboxInv, TypeOK
<1>2. /\ calls' \in [Call -> Request \cup {Free}]
      /\ \A q \in Call : calls'[q].kind # "free" => q # p /\ calls'[q] = calls[q]
      /\ \A q \in Call, m \in MsgId : Sends(q, m)' <=> q # p /\ Sends(q, m)
  BY OneEnds DEF Abandon
\* Only the row that was open goes, and no other request has it open.
<1>3. /\ msgs' \in [MsgId -> Message \cup {Unsent}]
      /\ \A m \in MsgId : msgs'[m] = IF Sends(p, m) THEN Unsent ELSE msgs[m]
  <2>1. CASE calls[p].kind = "send"
    <3>1. calls[p].msg \in MsgId
      BY <2>1, RequestTypes DEF InboxInv
    <3> QED
      BY <2>1, <3>1 DEF Abandon, InboxInv, TypeOK, Sends
  <2>2. CASE calls[p].kind # "send"
    BY <2>2 DEF Abandon, InboxInv, TypeOK, Sends
  <2> QED
    BY <2>1, <2>2
<1>4. \A m \in MsgId : msgs'[m].state = "open" <=> \E r \in Call : Sends(r, m)'
  <2>1. \A m \in MsgId : msgs[m].state = "open" <=> \E r \in Call : Sends(r, m)
    BY DEF InboxInv, TypeOK
  <2>2. \A q \in Call \ {p}, m \in MsgId : Sends(p, m) => ~Sends(q, m)
    BY DEF InboxInv, SendInv
  <2> QED
    BY <1>2, <1>3, <2>1, <2>2 DEF Unsent
<1>5. TypeOK'
  BY <1>1, <1>2, <1>3, <1>4 DEF InboxInv, TypeOK
<1>6. AnswersAreDirect' /\ SendInv'
  BY <1>1, <1>2 DEF InboxInv, AnswersAreDirect, SendInv
<1>7. CreateInv' /\ ReadInv'
  BY <1>1, <1>2, NoneIsAdded
<1> QED
  BY <1>5, <1>6, <1>7 DEF InboxInv

LEMMA TimePassesInvariant ==
  ASSUME InboxInv, TimePasses
  PROVE  InboxInv'
<1>1. /\ UNCHANGED <<convs, lastRead, msgs, calls, answered>>
      /\ now' \in 1..MaxTime /\ now' >= now
  BY InboxAssumption DEF TimePasses, InboxInv, TypeOK
<1>2. TypeOK' /\ AnswersAreDirect' /\ SendInv'
  BY <1>1 DEF InboxInv, TypeOK, AnswersAreDirect, SendInv, Sends
<1>3. CreateInv' /\ ReadInv'
  BY <1>1, InboxAssumption, NoneIsAdded
<1> QED
  BY <1>2, <1>3 DEF InboxInv

LEMMA Invariant ==
  Spec => []InboxInv
<1>1. ASSUME InboxInv, [Next]_vars
      PROVE  InboxInv'
  <2>1. CASE \E r \in Call, u, v \in User : FindDirectConversation(r, u, v)
    BY <1>1, <2>1, FindDirectConversationInvariant
  <2>2. CASE \E r \in Call, c \in Conv : CreateDirect(r, c)
    BY <1>1, <2>2, CreateDirectInvariant
  <2>3. CASE \E r \in Call, m \in MsgId, c \in Conv, u \in User, s \in BOOLEAN :
                BeginSend(r, m, c, u, s)
    BY <1>1, <2>3, BeginSendInvariant
  <2>4. CASE \E r \in Call : CommitSend(r)
    BY <1>1, <2>4, CommitSendInvariant
  <2>5. CASE \E r \in Call, c \in Conv, u \in User : BeginRead(r, c, u)
    BY <1>1, <2>5, BeginReadInvariant
  <2>6. CASE \E r \in Call : MarkConversationRead(r)
    BY <1>1, <2>6, MarkConversationReadInvariant
  <2>7. CASE \E r \in Call : Abandon(r)
    BY <1>1, <2>7, AbandonInvariant
  <2>8. CASE \E c \in Conv, u \in User, others \in SUBSET User : CreateGroup(c, u, others)
    BY <1>1, <2>8, CreateGroupInvariant
  <2>9. CASE \E m \in MsgId : MarkMessageSent(m) \/ DeleteMessage(m)
    BY <1>1, <2>9, OneMessageInvariant
  <2>10. CASE TimePasses
    BY <1>1, <2>10, TimePassesInvariant
  <2>11. CASE UNCHANGED vars
    BY <1>1, <2>11
    DEF vars, InboxInv, TypeOK, AnswersAreDirect, CreateInv, SendInv, ReadInv, Sends, IsMember
  <2> QED
    BY <1>1, <2>1, <2>2, <2>3, <2>4, <2>5, <2>6, <2>7, <2>8, <2>9, <2>10, <2>11 DEF Next
<1> QED
  BY <1>1, InitInvariant, PTL DEF Spec

-----------------------------------------------------------------------------
(* Results                                                                 *)

\* The state of Inbox has its types. Of several transactions each inserts a
\* message of its own (messaging_db.go, CreateMessage), and whoever has read a
\* conversation is its member.
THEOREM TypeCorrect ==
  Spec => []TypeOK
BY Invariant, PTL DEF InboxInv

\* A request for a direct conversation is answered with one of exactly the two
\* members, found or created, of however many users and conversations
\* (messaging.go, CreateConversationHandler; FindDirectConversation).
THEOREM DirectMeansTheTwo ==
  Spec => []AnswersAreDirect
BY Invariant, PTL DEF InboxInv

\* A request creates a second direct conversation of the same two members only
\* if another such request was in flight beside it: finding and creating are
\* two transactions, and nothing else can come between.
THEOREM NoSecondWithoutARival ==
  Spec => SoleRequestFinds
<1>1. ASSUME InboxInv
      PROVE  \A r \in Call, c, d \in Conv :
                Creates(r, c) /\ calls[r].alone /\ convs[d].type = "direct" =>
                    convs[d].members # calls[r].pair
  BY <1>1 DEF InboxInv, CreateInv, Creates
<1>2. InboxInv /\ [Next]_vars =>
        [\A r \in Call, c, d \in Conv :
            Creates(r, c) /\ calls[r].alone /\ convs[d].type = "direct" =>
                convs[d].members # calls[r].pair]_vars
  BY <1>1
<1> QED
  BY <1>2, Invariant, PTL DEF Spec, SoleRequestFinds

\* A message stops being unread for a member only by being deleted, or by that
\* member's own read, which began when the message had been written or later
\* (MarkConversationRead, ListConversations): not by a commit, a rollback, the
\* worker or another member's read.
THEOREM OnlyReadingReads ==
  Spec => UnreadUntilRead
<1> DEFINE Kept == \A c \in Conv, u \in User : \A m \in Unread(c, u) \ Unread(c, u)' :
      \/ msgs'[m].state = "deleted"
      \/ \E r \in Call :
            /\ calls[r].kind = "read" /\ calls[r].conv = c /\ calls[r].user = u
            /\ calls[r].at >= msgs[m].created /\ calls'[r] = Free
<1>1. ASSUME InboxInv, [Next]_vars
      PROVE  Kept
  <2> SUFFICES ASSUME NEW c \in Conv, NEW u \in User, NEW m \in MsgId,
                      m \in Unread(c, u), m \notin Unread(c, u)', msgs'[m].state # "deleted"
               PROVE  \E r \in Call :
                         /\ calls[r].kind = "read" /\ calls[r].conv = c /\ calls[r].user = u
                         /\ calls[r].at >= msgs[m].created /\ calls'[r] = Free
    BY DEF Unread, Sent
  <2>1. /\ msgs[m].state = "sent" /\ msgs[m].conv = c /\ msgs[m].sender # u
        /\ msgs[m].created > lastRead[c][u] /\ msgs[m].created \in Nat
        /\ lastRead[c][u] \in 0..MaxTime
    BY <1>1 DEF Unread, Sent, InboxInv, TypeOK, Message, Unsent
  \* No open transaction has the message, so no step but a deletion touches it.
  <2>2. \A r \in Call : ~Sends(r, m)
    BY <1>1, <2>1 DEF InboxInv, TypeOK
  <2>3. msgs'[m] = msgs[m]
    <3>1. msgs \in [MsgId -> Message \cup {Unsent}]
      BY <1>1 DEF InboxInv, TypeOK
    <3>2. CASE UNCHANGED msgs
      BY <3>2
    <3>3. ASSUME NEW r \in Call, NEW n \in MsgId, NEW d \in Conv, NEW v \in User,
                 NEW s \in BOOLEAN, BeginSend(r, n, d, v, s)
          PROVE  msgs'[m] = msgs[m]
      BY <2>1, <3>1, <3>3 DEF BeginSend, Unsent
    <3>4. ASSUME NEW r \in Call, CommitSend(r) \/ Abandon(r)
          PROVE  msgs'[m] = msgs[m]
      <4>1. calls[r].kind = "send" => calls[r].msg # m
        BY <2>2 DEF Sends
      <4> QED
        BY <3>1, <3>4, <4>1 DEF CommitSend, Abandon
    <3>5. ASSUME NEW n \in MsgId, MarkMessageSent(n) \/ DeleteMessage(n)
          PROVE  msgs'[m] = msgs[m]
      <4>1. m # n
        <5>1. ~MarkMessageSent(m)
          BY <2>1 DEF MarkMessageSent
        <5>2. msgs[m] \in Message
          BY <2>1, <3>1 DEF Unsent
        <5>3. ~DeleteMessage(m)
          BY <3>1, <5>2 DEF DeleteMessage, Message
        <5> QED
          BY <3>5, <5>1, <5>3
      <4> QED
        BY <3>1, <3>5, <4>1 DEF MarkMessageSent, DeleteMessage
    <3>6. \/ UNCHANGED msgs
          \/ \E r \in Call, n \in MsgId, d \in Conv, v \in User, s \in BOOLEAN :
                BeginSend(r, n, d, v, s)
          \/ \E r \in Call : CommitSend(r) \/ Abandon(r)
          \/ \E n \in MsgId : MarkMessageSent(n) \/ DeleteMessage(n)
      BY <1>1 DEF Next, FindDirectConversation, CreateDirect, CreateConversation,
                  CreateGroup, BeginRead, MarkConversationRead, TimePasses, vars
    <3> QED
      BY <3>2, <3>3, <3>4, <3>5, <3>6
  <2>4. lastRead'[c][u] # lastRead[c][u]
    BY <2>1, <2>3 DEF Unread, Sent
  <2>5. PICK r \in Call : MarkConversationRead(r)
    BY <1>1, <2>4
    DEF Next, FindDirectConversation, CreateDirect, CreateConversation, CreateGroup,
        BeginSend, CommitSend, MarkMessageSent, DeleteMessage, BeginRead, Abandon,
        TimePasses, vars
  <2>6. /\ calls[r].kind = "read" /\ calls'[r] = Free
        /\ lastRead' = [lastRead EXCEPT ![calls[r].conv][calls[r].user] = calls[r].at]
        /\ calls[r].conv \in Conv /\ calls[r].user \in User /\ calls[r].at \in Nat
    BY <1>1, <2>5, RequestTypes, OneEnds DEF MarkConversationRead, InboxInv
  <2>7. calls[r].conv = c /\ calls[r].user = u /\ lastRead'[c][u] = calls[r].at
    BY <1>1, <2>4, <2>6 DEF InboxInv, TypeOK
  <2>8. calls[r].at >= msgs[m].created
    BY <2>1, <2>3, <2>6, <2>7 DEF Unread, Sent
  <2> QED
    BY <2>6, <2>7, <2>8
<1>2. InboxInv /\ [Next]_vars => [Kept]_vars
  BY <1>1
<1> QED
  BY <1>2, Invariant, PTL DEF Spec, UnreadUntilRead

=============================================================================
