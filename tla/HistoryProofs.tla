---------------------------- MODULE HistoryProofs ----------------------------
(***************************************************************************)
(* What one member sees of a conversation, for any number of messages and  *)
(* devices and any size of a page.                                         *)
(***************************************************************************)
EXTENDS History, TLAPS

\* A message that was not viewed was given to nobody, and is in no call's
\* hands; one in a call's hands was given to nobody and is in no other's.
ViewInv ==
    /\ \A m \in Msg : m \notin viewed =>
        /\ given[m] = 0
        /\ \A d \in Device : m \notin lists[d].urls
    /\ \A m \in Msg, d \in Device : m \in lists[d].urls =>
        /\ given[m] = 0
        /\ \A e \in Device : m \in lists[e].urls => e = d
    /\ \A m \in Msg : given[m] <= 1

\* Shown messages were sent, and what was sent keeps its created_at.
Shown(m) == msgs[m].state \in {"sent", "deleted"}

\* Earlier pages end where the cursor is, and the present one begins after it.
CursorInv ==
    /\ \A m \in Msg : msgs[m].state # "none" => msgs[m].at >= 1
    /\ \A d \in Pager :
        /\ lists[d].before = 0 => lists[d].got = {}
        /\ lists[d].stage = "between" => lists[d].before # 0
        /\ \A m \in lists[d].got \cup lists[d].page \cup lists[d].owed : Shown(m)
        /\ \A m \in lists[d].got : msgs[m].at >= lists[d].before
        /\ \A m \in lists[d].page : lists[d].before = 0 \/ msgs[m].at < lists[d].before

\* A message that the walk owes and has not shown lies after the cursor or
\* has the timestamp of one that was shown; when a page was read, it lies
\* behind that page, which is then full.
WalkInv ==
    \A d \in Pager : \A m \in (lists[d].owed \cap Visible) \ lists[d].got :
        /\ lists[d].before # 0 =>
            \/ msgs[m].at < lists[d].before
            \/ \E k \in lists[d].got : msgs[k].at = msgs[m].at
        /\ lists[d].stage \in {"paged", "resolving"} =>
            \/ m \in lists[d].page
            \/ ~LastPage(d) /\ \A k \in lists[d].page : Ahead(k, m)
            \/ \E k \in lists[d].got : msgs[k].at = msgs[m].at

HistoryInv == TypeOK /\ ViewInv /\ CursorInv /\ WalkInv

-----------------------------------------------------------------------------
(* What leaves a part of the invariant alone                               *)

\* Views only grow, answers stay, and calls let go of URLs.
LEMMA ViewKept ==
  ASSUME ViewInv, given' = given, viewed \subseteq viewed',
         \A d \in Device : lists'[d].urls \subseteq lists[d].urls
  PROVE  ViewInv'
BY DEF ViewInv

\* Others write, the member hides: what was sent keeps its timestamp, nothing
\* that is owed becomes visible again.
LEMMA WritersKeepWalks ==
  ASSUME HistoryInv, lists' = lists, hidden \subseteq hidden',
         \A m \in Msg : Shown(m) =>
            /\ Shown(m)'
            /\ msgs'[m].at = msgs[m].at
            /\ msgs'[m].state = "sent" => msgs[m].state = "sent",
         \A m \in Msg : msgs'[m].state # "none" => msgs'[m].at >= 1
  PROVE  CursorInv' /\ WalkInv'
<1>1. \A d \in Pager :
        /\ d \in Device
        /\ lists[d].got \subseteq Msg /\ lists[d].page \subseteq Msg /\ lists[d].owed \subseteq Msg
  BY DEF HistoryInv, TypeOK, Device, List
<1>2. CursorInv'
  BY <1>1 DEF HistoryInv, CursorInv
<1>3. WalkInv'
  <2> SUFFICES ASSUME NEW d \in Pager, NEW m \in (lists[d].owed \cap Visible') \ lists[d].got
               PROVE  /\ lists[d].before # 0 =>
                          \/ msgs'[m].at < lists[d].before
                          \/ \E k \in lists[d].got : msgs'[k].at = msgs'[m].at
                      /\ lists[d].stage \in {"paged", "resolving"} =>
                          \/ m \in lists[d].page
                          \/ ~LastPage(d) /\ \A k \in lists[d].page : Ahead(k, m)'
                          \/ \E k \in lists[d].got : msgs'[k].at = msgs'[m].at
    BY DEF WalkInv, LastPage
  <2>1. m \in Msg /\ Shown(m) /\ m \in Visible
    BY <1>1 DEF HistoryInv, CursorInv, Visible, Sent
  <2>2. /\ msgs'[m].at = msgs[m].at
        /\ \A k \in lists[d].got \cup lists[d].page : msgs'[k].at = msgs[k].at
    BY <1>1, <2>1 DEF HistoryInv, CursorInv
  <2>3. \A k \in lists[d].page : Ahead(k, m) => Ahead(k, m)'
    BY <2>2 DEF Ahead
  <2>4. /\ lists[d].before # 0 =>
            \/ msgs[m].at < lists[d].before
            \/ \E k \in lists[d].got : msgs[k].at = msgs[m].at
        /\ lists[d].stage \in {"paged", "resolving"} =>
            \/ m \in lists[d].page
            \/ ~LastPage(d) /\ \A k \in lists[d].page : Ahead(k, m)
            \/ \E k \in lists[d].got : msgs[k].at = msgs[m].at
    BY <2>1 DEF HistoryInv, WalkInv
  <2> QED
    BY <2>2, <2>3, <2>4
<1> QED
  BY <1>2, <1>3

\* The steps of a call between its first statement and its answer.
LEMMA CallsKeepWalks ==
  ASSUME HistoryInv, msgs' = msgs, hidden' = hidden,
         \A d \in Pager :
            /\ lists'[d].before = lists[d].before
            /\ lists'[d].got = lists[d].got
            /\ lists'[d].owed = lists[d].owed
            /\ lists'[d].page = lists[d].page
            /\ lists'[d].stage = lists[d].stage
                \/ {lists'[d].stage, lists[d].stage} \subseteq {"paged", "resolving"}
  PROVE  CursorInv' /\ WalkInv'
<1>1. Visible' = Visible /\ \A d \in Pager : LastPage(d)' = LastPage(d)
  BY DEF Visible, Sent, LastPage
<1>2. CursorInv'
  BY DEF HistoryInv, CursorInv, Shown
<1>3. WalkInv'
  BY <1>1 DEF HistoryInv, WalkInv, Ahead
<1> QED
  BY <1>2, <1>3

-----------------------------------------------------------------------------
(* Others write, the member hides                                          *)

LEMMA InitInvariant == Init => HistoryInv
<1> SUFFICES ASSUME Init
             PROVE  HistoryInv
  OBVIOUS
<1>1. \A d \in Device : lists[d] = NoList
  BY DEF Init
<1>2. TypeOK
  <2>1. NoList \in List
    BY DEF NoList, List
  <2> QED
    BY <1>1, <2>1, HistoryAssumption DEF Init, TypeOK, Message, NoList
<1>3. ViewInv
  BY <1>1 DEF Init, ViewInv, NoList
<1>4. CursorInv /\ WalkInv
  BY <1>1 DEF Init, CursorInv, WalkInv, NoList, Device
<1> QED
  BY <1>2, <1>3, <1>4 DEF HistoryInv

LEMMA SendInvariant ==
  ASSUME HistoryInv, NEW m \in Msg, SendMessage(m) \/ ScheduleMessage(m)
  PROVE  HistoryInv'
<1>1. PICK at \in Nat, s \in {"sent", "scheduled"} :
        at >= 1 /\ msgs' = [msgs EXCEPT ![m] = [state |-> s, at |-> at]]
  <2>1. now \in Nat /\ now >= 1
    BY HistoryAssumption DEF HistoryInv, TypeOK
  <2>2. CASE SendMessage(m)
    <3>1. PICK at \in {now, now - 1} \ {0} :
            msgs' = [msgs EXCEPT ![m] = [state |-> "sent", at |-> at]]
      BY <2>2 DEF SendMessage
    <3>2. at \in Nat /\ at >= 1
      BY <2>1
    <3> QED
      BY <3>1, <3>2
  <2>3. CASE ScheduleMessage(m)
    BY <2>1, <2>3 DEF ScheduleMessage
  <2> QED
    BY <2>2, <2>3
<1>2. /\ msgs[m].state = "none" /\ lists' = lists /\ now' = now /\ hidden' = hidden
      /\ viewed' = viewed /\ given' = given /\ told' \subseteq Msg
  BY DEF SendMessage, ScheduleMessage, HistoryInv, TypeOK
<1>3. TypeOK'
  BY <1>1, <1>2 DEF HistoryInv, TypeOK, Message
<1>4. ViewInv'
  BY <1>2, ViewKept DEF HistoryInv
<1>5. CursorInv' /\ WalkInv'
  <2>1. \A k \in Msg : k # m => msgs'[k] = msgs[k]
    BY <1>1 DEF HistoryInv, TypeOK
  <2>2. ~Shown(m) /\ msgs'[m].at >= 1
    BY <1>1, <1>2 DEF Shown, HistoryInv, TypeOK
  <2> QED
    BY <1>2, <2>1, <2>2, WritersKeepWalks DEF Shown, HistoryInv, CursorInv
<1> QED
  BY <1>3, <1>4, <1>5 DEF HistoryInv

\* A message changes its state and keeps its timestamp.
LEMMA StateChangeInvariant ==
  ASSUME HistoryInv, NEW m \in Msg, MarkMessageSent(m) \/ DeleteMessage(m)
  PROVE  HistoryInv'
<1>1. PICK s \in {"sent", "deleted"} : msgs' = [msgs EXCEPT ![m].state = s]
  BY DEF MarkMessageSent, DeleteMessage
<1>2. /\ lists' = lists /\ now' = now /\ hidden' = hidden
      /\ viewed' = viewed /\ given' = given /\ told' = told
      /\ msgs[m].state \in {"scheduled", "sent"}
      /\ Shown(m) => msgs'[m].state = "deleted"
  BY DEF MarkMessageSent, DeleteMessage, HistoryInv, TypeOK, Message, Shown
<1>3. /\ \A k \in Msg : k # m => msgs'[k] = msgs[k]
      /\ msgs'[m].at = msgs[m].at /\ msgs'[m].state = s
      /\ msgs' \in [Msg -> Message]
  BY <1>1 DEF HistoryInv, TypeOK, Message
<1>4. TypeOK'
  BY <1>2, <1>3 DEF HistoryInv, TypeOK
<1>5. ViewInv'
  BY <1>2, ViewKept DEF HistoryInv
<1>6. CursorInv' /\ WalkInv'
  BY <1>2, <1>3, WritersKeepWalks DEF Shown, HistoryInv, CursorInv
<1> QED
  BY <1>4, <1>5, <1>6 DEF HistoryInv

\* Messages and lists stay as they are.
LEMMA AsideInvariant ==
  ASSUME HistoryInv, msgs' = msgs, lists' = lists, given' = given, now' \in 1..MaxTime,
         hidden \subseteq hidden', hidden' \subseteq Msg,
         viewed \subseteq viewed', viewed' \subseteq Msg, told' \subseteq Msg
  PROVE  HistoryInv'
<1>1. TypeOK'
  BY DEF HistoryInv, TypeOK
<1>2. ViewInv'
  BY ViewKept DEF HistoryInv
<1>3. CursorInv' /\ WalkInv'
  BY WritersKeepWalks DEF Shown, HistoryInv, CursorInv
<1> QED
  BY <1>1, <1>2, <1>3 DEF HistoryInv

-----------------------------------------------------------------------------
(* The calls                                                               *)

\* What the types say of one place.
LEMMA ListTypes ==
  ASSUME TypeOK, NEW d \in Device
  PROVE  /\ lists[d] \in List
         /\ lists[d].before \in Nat /\ lists[d].got \subseteq Msg
         /\ lists[d].owed \subseteq Msg /\ lists[d].page \subseteq Msg
         /\ lists[d].todo \subseteq Msg /\ lists[d].urls \subseteq Msg
         /\ lists[d].stage \in {"idle", "between", "paged", "resolving"}
BY DEF TypeOK, List

\* One place changes to a well formed list, and so does nothing else typed.
LEMMA ListTyped ==
  ASSUME TypeOK, NEW d \in Device, NEW l \in List,
         lists' = [lists EXCEPT ![d] = l],
         l.todo \cup l.urls \subseteq l.page,
         l.page # {} => l.stage \in {"paged", "resolving"},
         now' = now, msgs' = msgs, hidden' = hidden, told' = told,
         viewed' \subseteq Msg, given' \in [Msg -> Nat]
  PROVE  TypeOK'
<1>1. \A e \in Device : lists'[e] = IF e = d THEN l ELSE lists[e]
  BY DEF TypeOK
<1>2. lists' \in [Device -> List]
  BY DEF TypeOK
<1> QED
  BY <1>1, <1>2 DEF TypeOK

LEMMA ListMessagesInvariant ==
  ASSUME HistoryInv, NEW d \in Device, ListMessages(d)
  PROVE  HistoryInv'
<1> DEFINE l == IF lists[d].stage = "between" THEN lists[d]
                ELSE [NoList EXCEPT !.owed = Visible]
<1>1. PICK P \in SUBSET Before(l.before) :
        /\ IsPage(P, Before(l.before))
        /\ lists' = [lists EXCEPT ![d] = [l EXCEPT !.stage = "paged", !.page = P]]
  BY DEF ListMessages
<1>2. /\ d \in Pager /\ now' = now /\ msgs' = msgs /\ hidden' = hidden /\ told' = told
      /\ viewed' = viewed /\ given' = given
  BY DEF ListMessages
<1>3. Visible \subseteq Msg /\ P \subseteq Visible
  BY <1>1 DEF Visible, Sent, Before
<1>4. /\ l \in List /\ l.before \in Nat /\ l.got \subseteq Msg /\ l.owed \subseteq Msg
      /\ l.todo = {} /\ l.urls = {}
      /\ l.before = 0 => l.got = {}
      /\ \A m \in l.got \cup l.owed : Shown(m)
      /\ \A m \in l.got : msgs[m].at >= l.before
      /\ \A m \in (l.owed \cap Visible) \ l.got : l.before # 0 =>
            \/ msgs[m].at < l.before
            \/ \E k \in l.got : msgs[k].at = msgs[m].at
  <2>1. CASE lists[d].stage = "between"
    <3>1. l = lists[d]
      BY <2>1
    <3>2. lists[d].page = {}
      BY <2>1, ListTypes DEF HistoryInv, TypeOK
    <3>3. lists[d].todo = {} /\ lists[d].urls = {}
      BY <3>2 DEF HistoryInv, TypeOK
    <3> HIDE DEF l
    <3> QED
      BY <1>2, <3>1, <3>3, ListTypes DEF HistoryInv, CursorInv, WalkInv
  <2>2. CASE lists[d].stage # "between"
    <3>1. l = [stage |-> "idle", before |-> 0, got |-> {},
               owed |-> Visible, page |-> {}, todo |-> {}, urls |-> {}]
      BY <2>2 DEF NoList
    <3> HIDE DEF l
    <3> QED
      BY <1>3, <3>1 DEF List, Shown, Visible, Sent
  <2> QED
    BY <2>1, <2>2
<1> DEFINE n == [l EXCEPT !.stage = "paged", !.page = P]
<1> HIDE DEF l
<1>5. /\ n \in List /\ n.stage = "paged" /\ n.page = P /\ n.before = l.before
      /\ n.got = l.got /\ n.owed = l.owed /\ n.todo = {} /\ n.urls = {}
  BY <1>3, <1>4 DEF List
<1>6. lists' = [lists EXCEPT ![d] = n]
  BY <1>1
<1> HIDE DEF n
<1>7. \A e \in Device : lists'[e] = IF e = d THEN n ELSE lists[e]
  BY <1>6 DEF HistoryInv, TypeOK
<1>8. TypeOK'
  BY <1>2, <1>5, <1>6, ListTyped DEF HistoryInv, TypeOK
<1>9. ViewInv'
  BY <1>2, <1>5, <1>7, ViewKept DEF HistoryInv
<1>10. CursorInv'
  <2>1. \A m \in P : Shown(m) /\ (l.before = 0 \/ msgs[m].at < l.before)
    BY <1>1, <1>3 DEF Before, Shown, Visible, Sent
  <2>2. ASSUME NEW e \in Pager
        PROVE  /\ lists'[e].before = 0 => lists'[e].got = {}
               /\ lists'[e].stage = "between" => lists'[e].before # 0
               /\ \A m \in lists'[e].got \cup lists'[e].page \cup lists'[e].owed : Shown(m)
               /\ \A m \in lists'[e].got : msgs[m].at >= lists'[e].before
               /\ \A m \in lists'[e].page :
                    lists'[e].before = 0 \/ msgs[m].at < lists'[e].before
    <3>1. CASE e = d
      BY <1>2, <1>4, <1>5, <1>7, <2>1, <3>1 DEF Device
    <3>2. CASE e # d
      BY <1>7, <3>2 DEF HistoryInv, CursorInv, Device
    <3> QED
      BY <3>1, <3>2
  <2> QED
    BY <1>2, <2>2 DEF HistoryInv, CursorInv, Shown
<1>11. WalkInv'
  <2>1. Visible' = Visible
    BY <1>2 DEF Visible, Sent
  <2>2. ASSUME NEW m \in (l.owed \cap Visible) \ l.got
        PROVE  \/ m \in P
               \/ ~(Cardinality(P) < PageSize) /\ \A k \in P : Ahead(k, m)
               \/ \E k \in l.got : msgs[k].at = msgs[m].at
    <3>1. CASE m \in Before(l.before)
      BY <1>1, <3>1, HistoryAssumption DEF IsPage
    <3>2. CASE m \notin Before(l.before)
      BY <1>4, <3>2 DEF Before
    <3> QED
      BY <3>1, <3>2
  <2>3. ASSUME NEW e \in Pager, NEW m \in (lists'[e].owed \cap Visible) \ lists'[e].got
        PROVE  /\ lists'[e].before # 0 =>
                    \/ msgs[m].at < lists'[e].before
                    \/ \E k \in lists'[e].got : msgs[k].at = msgs[m].at
               /\ lists'[e].stage \in {"paged", "resolving"} =>
                    \/ m \in lists'[e].page
                    \/ ~(Cardinality(lists'[e].page) < PageSize)
                       /\ \A k \in lists'[e].page : Ahead(k, m)
                    \/ \E k \in lists'[e].got : msgs[k].at = msgs[m].at
    <3>1. CASE e = d
      <4>1. lists'[e] = n
        BY <1>7, <3>1
      <4> QED
        BY <1>4, <1>5, <2>2, <2>3, <4>1
    <3>2. CASE e # d
      <4>1. lists'[e] = lists[e]
        BY <1>7, <3>2 DEF Device
      <4> QED
        BY <2>3, <4>1 DEF HistoryInv, WalkInv, LastPage
    <3> QED
      BY <3>1, <3>2
  <2>4. \A k, m \in Msg : Ahead(k, m)' = Ahead(k, m)
    BY <1>2 DEF Ahead
  <2> QED
    BY <1>2, <2>1, <2>3 DEF WalkInv, LastPage, Ahead
<1> QED
  BY <1>8, <1>9, <1>10, <1>11 DEF HistoryInv

LEMMA ListThreadMessagesInvariant ==
  ASSUME HistoryInv, NEW d \in Device, ListThreadMessages(d)
  PROVE  HistoryInv'
<1> DEFINE n == [lists[d] EXCEPT !.stage = "paged", !.page = Thread \cap Sent]
<1>1. /\ d \in Opener /\ lists[d].stage = "idle" /\ lists' = [lists EXCEPT ![d] = n]
      /\ now' = now /\ msgs' = msgs /\ hidden' = hidden /\ told' = told
      /\ viewed' = viewed /\ given' = given
  BY DEF ListThreadMessages, HistoryInv, TypeOK, List
<1>2. lists[d].page = {} /\ lists[d].todo = {} /\ lists[d].urls = {}
  <2>1. lists[d].page = {}
    BY <1>1, ListTypes DEF HistoryInv, TypeOK
  <2> QED
    BY <2>1 DEF HistoryInv, TypeOK
<1>3. n \in List /\ n.stage = "paged" /\ n.todo = {} /\ n.urls = {}
  BY <1>2, ListTypes, HistoryAssumption DEF HistoryInv, List
<1> HIDE DEF n
<1>4. \A e \in Device : lists'[e] = IF e = d THEN n ELSE lists[e]
  BY <1>1 DEF HistoryInv, TypeOK
<1>5. TypeOK'
  BY <1>1, <1>3, ListTyped DEF HistoryInv, TypeOK
<1>6. ViewInv'
  BY <1>1, <1>3, <1>4, ViewKept DEF HistoryInv
<1>7. CursorInv' /\ WalkInv'
  <2>1. \A e \in Pager : lists'[e] = lists[e]
    BY <1>1, <1>4, HistoryAssumption DEF Device
  <2> QED
    BY <1>1, <2>1, CallsKeepWalks
<1> QED
  BY <1>5, <1>6, <1>7 DEF HistoryInv

\* Writing fields that a list has already changes nothing.
LEMMA SameFields ==
  ASSUME NEW l \in List, l.stage = "resolving", NEW T, NEW U
  PROVE  /\ [l EXCEPT !.todo = T] = [l EXCEPT !.stage = "resolving", !.todo = T, !.urls = l.urls]
         /\ [l EXCEPT !.todo = T, !.urls = U] =
              [l EXCEPT !.stage = "resolving", !.todo = T, !.urls = U]
BY DEF List

\* A call resolves its view-once messages: what it lists stays.
LEMMA ResolvingInvariant ==
  ASSUME HistoryInv, NEW d \in Device,
         \/ AttachViewOnceState(d)
         \/ \E m \in Msg : ResolveAttachmentURL(d, m) \/ MarkMessageViewedFails(d, m)
  PROVE  HistoryInv'
<1>1. PICK todo \in SUBSET lists[d].page, urls \in SUBSET lists[d].page :
        /\ lists' = [lists EXCEPT ![d] =
              [lists[d] EXCEPT !.stage = "resolving", !.todo = todo, !.urls = urls]]
        /\ viewed \subseteq viewed' /\ viewed' \subseteq Msg
        /\ \A k \in urls \ lists[d].urls : k \in viewed' \ viewed
  <2>1. lists[d].todo \cup lists[d].urls \subseteq lists[d].page /\ viewed \subseteq Msg
    BY DEF HistoryInv, TypeOK
  <2>2. CASE AttachViewOnceState(d)
    <3>1. lists' = [lists EXCEPT ![d] = [lists[d] EXCEPT !.stage = "resolving",
              !.todo = (lists[d].page \cap Once) \ viewed, !.urls = lists[d].urls]]
      BY <2>2, ListTypes DEF AttachViewOnceState, HistoryInv, TypeOK, List
    <3> QED
      BY <2>1, <2>2, <3>1 DEF AttachViewOnceState
  <2>3. ASSUME NEW m \in Msg, ResolveAttachmentURL(d, m)
        PROVE  \E todo \in SUBSET lists[d].page, urls \in SUBSET lists[d].page :
                /\ lists' = [lists EXCEPT ![d] =
                      [lists[d] EXCEPT !.stage = "resolving", !.todo = todo, !.urls = urls]]
                /\ viewed \subseteq viewed' /\ viewed' \subseteq Msg
                /\ \A k \in urls \ lists[d].urls : k \in viewed' \ viewed
    <3>1. PICK u \in {{}, {m} \ viewed} :
            lists' = [lists EXCEPT ![d] = [lists[d] EXCEPT
                        !.todo = lists[d].todo \ {m}, !.urls = lists[d].urls \cup u]]
      BY <2>3 DEF ResolveAttachmentURL
    <3>2. lists' = [lists EXCEPT ![d] = [lists[d] EXCEPT !.stage = "resolving",
              !.todo = lists[d].todo \ {m}, !.urls = lists[d].urls \cup u]]
      <4>1. lists[d] \in List /\ lists[d].stage = "resolving"
        BY <2>3, ListTypes DEF ResolveAttachmentURL, HistoryInv
      <4>2. [lists[d] EXCEPT !.todo = lists[d].todo \ {m}, !.urls = lists[d].urls \cup u] =
              [lists[d] EXCEPT !.stage = "resolving",
                  !.todo = lists[d].todo \ {m}, !.urls = lists[d].urls \cup u]
        BY <4>1, SameFields
      <4> QED
        BY <3>1, <4>2, Zenon
    <3>3. /\ lists[d].todo \ {m} \in SUBSET lists[d].page
          /\ lists[d].urls \cup u \in SUBSET lists[d].page
      BY <2>1, <2>3 DEF ResolveAttachmentURL
    <3>4. viewed' = viewed \cup {m}
      BY <2>3 DEF ResolveAttachmentURL
    <3>5. \A k \in (lists[d].urls \cup u) \ lists[d].urls : k \in viewed' \ viewed
      BY <3>1, <3>4
    <3>6. viewed \subseteq viewed' /\ viewed' \subseteq Msg
      BY <2>1, <3>4
    <3> QED
      BY <3>2, <3>3, <3>5, <3>6
  <2>4. ASSUME NEW m \in Msg, MarkMessageViewedFails(d, m)
        PROVE  \E todo \in SUBSET lists[d].page, urls \in SUBSET lists[d].page :
                /\ lists' = [lists EXCEPT ![d] =
                      [lists[d] EXCEPT !.stage = "resolving", !.todo = todo, !.urls = urls]]
                /\ viewed \subseteq viewed' /\ viewed' \subseteq Msg
                /\ urls \subseteq lists[d].urls
    <3>1. lists' = [lists EXCEPT ![d] = [lists[d] EXCEPT !.stage = "resolving",
              !.todo = lists[d].todo \ {m}, !.urls = lists[d].urls]]
      <4>1. lists' = [lists EXCEPT ![d] = [lists[d] EXCEPT !.todo = lists[d].todo \ {m}]]
        BY <2>4 DEF MarkMessageViewedFails, HistoryInv, TypeOK
      <4>2. lists[d] \in List /\ lists[d].stage = "resolving"
        BY <2>4, ListTypes DEF MarkMessageViewedFails, HistoryInv
      <4> QED
        BY <4>1, <4>2, SameFields
    <3>2. viewed' = viewed
      BY <2>4 DEF MarkMessageViewedFails
    <3> QED
      BY <2>1, <3>1, <3>2
  <2> QED
    BY <2>2, <2>3, <2>4
<1>2. /\ now' = now /\ msgs' = msgs /\ hidden' = hidden /\ told' = told /\ given' = given
      /\ lists[d].stage \in {"paged", "resolving"}
  BY DEF AttachViewOnceState, ResolveAttachmentURL, MarkMessageViewedFails
<1> DEFINE n == [lists[d] EXCEPT !.stage = "resolving", !.todo = todo, !.urls = urls]
<1>3. /\ n \in List /\ n.stage = "resolving" /\ n.before = lists[d].before
      /\ n.got = lists[d].got /\ n.owed = lists[d].owed /\ n.page = lists[d].page
      /\ n.todo = todo /\ n.urls = urls
  BY ListTypes DEF HistoryInv, List
<1> HIDE DEF n
<1>4. lists' = [lists EXCEPT ![d] = n]
  BY <1>1 DEF n
<1>5. \A e \in Device : lists'[e] = IF e = d THEN n ELSE lists[e]
  BY <1>4 DEF HistoryInv, TypeOK
<1>6. TypeOK'
  BY <1>1, <1>2, <1>3, <1>4, ListTyped DEF HistoryInv, TypeOK
<1>7. ViewInv'
  <2>1. \A k \in Msg, e \in Device : k \in lists'[e].urls =>
          k \in lists[e].urls \/ (e = d /\ k \in viewed' \ viewed)
    BY <1>1, <1>3, <1>5
  <2>2. \A k \in Msg : k \notin viewed' =>
          given[k] = 0 /\ \A e \in Device : k \notin lists'[e].urls
    BY <1>1, <2>1 DEF HistoryInv, ViewInv
  <2>3. \A k \in Msg, e \in Device : k \in lists'[e].urls =>
          given[k] = 0 /\ \A f \in Device : k \in lists'[f].urls => f = e
    BY <2>1 DEF HistoryInv, ViewInv
  <2> QED
    BY <1>2, <2>2, <2>3 DEF HistoryInv, ViewInv
<1>8. CursorInv' /\ WalkInv'
  BY <1>2, <1>3, <1>5, CallsKeepWalks DEF Device
<1> QED
  BY <1>6, <1>7, <1>8 DEF HistoryInv

\* A call ends, answered or lost, with its place idle or between two pages.
LEMMA EndInvariant ==
  ASSUME HistoryInv, NEW d \in Device, NEW l \in List,
         lists' = [lists EXCEPT ![d] = l],
         now' = now, msgs' = msgs, hidden' = hidden, told' = told, viewed' = viewed,
         l.page = {}, l.todo = {}, l.urls = {}, l.stage \in {"idle", "between"},
         ViewInv', given' \in [Msg -> Nat],
         d \in Pager =>
            /\ l.before = 0 => l.got = {} /\ l.stage = "idle" /\ l.owed = {}
            /\ \A m \in l.got \cup l.owed : Shown(m)
            /\ \A m \in l.got : msgs[m].at >= l.before
            /\ \A m \in (l.owed \cap Visible) \ l.got :
                  msgs[m].at < l.before \/ \E k \in l.got : msgs[k].at = msgs[m].at
  PROVE  HistoryInv'
<1>1. \A e \in Device : lists'[e] = IF e = d THEN l ELSE lists[e]
  BY DEF HistoryInv, TypeOK
<1>2. TypeOK'
  BY ListTyped DEF HistoryInv, TypeOK
<1>3. CursorInv'
  <2>1. ASSUME NEW e \in Pager
        PROVE  /\ lists'[e].before = 0 => lists'[e].got = {}
               /\ lists'[e].stage = "between" => lists'[e].before # 0
               /\ \A m \in lists'[e].got \cup lists'[e].page \cup lists'[e].owed : Shown(m)
               /\ \A m \in lists'[e].got : msgs[m].at >= lists'[e].before
               /\ \A m \in lists'[e].page :
                    lists'[e].before = 0 \/ msgs[m].at < lists'[e].before
    BY <1>1 DEF HistoryInv, CursorInv, Device
  <2> QED
    BY <2>1 DEF HistoryInv, CursorInv, Shown
<1>4. WalkInv'
  <2>1. ASSUME NEW e \in Pager, NEW m \in (lists'[e].owed \cap Visible) \ lists'[e].got
        PROVE  /\ lists'[e].before # 0 =>
                    \/ msgs[m].at < lists'[e].before
                    \/ \E k \in lists'[e].got : msgs[k].at = msgs[m].at
               /\ lists'[e].stage \in {"paged", "resolving"} =>
                    \/ m \in lists'[e].page
                    \/ ~(Cardinality(lists'[e].page) < PageSize)
                       /\ \A k \in lists'[e].page : Ahead(k, m)
                    \/ \E k \in lists'[e].got : msgs[k].at = msgs[m].at
    BY <1>1, <2>1 DEF HistoryInv, WalkInv, LastPage, Device
  <2>2. Visible' = Visible
    BY DEF Visible, Sent
  <2> QED
    BY <2>1, <2>2 DEF WalkInv, LastPage, Ahead
<1> QED
  BY <1>2, <1>3, <1>4 DEF HistoryInv

LEMMA AnswerInvariant ==
  ASSUME HistoryInv, NEW d \in Device, Answer(d)
  PROVE  HistoryInv'
<1>1. /\ lists[d].stage = "resolving" /\ now' = now /\ msgs' = msgs /\ hidden' = hidden
      /\ viewed' = viewed /\ told' = told
      /\ given' = [m \in Msg |-> given[m] + IF m \in lists[d].urls THEN 1 ELSE 0]
  BY DEF Answer
<1>2. /\ given' \in [Msg -> Nat]
      /\ \A m \in Msg : given'[m] = IF m \in lists[d].urls THEN given[m] + 1 ELSE given[m]
  BY <1>1 DEF HistoryInv, TypeOK
<1>3. ASSUME \A e \in Device : lists'[e].urls = IF e = d THEN {} ELSE lists[e].urls
      PROVE  ViewInv'
  <2>1. \A m \in Msg : m \notin viewed =>
          given'[m] = 0 /\ \A e \in Device : m \notin lists'[e].urls
    BY <1>2, <1>3 DEF HistoryInv, ViewInv
  <2>2. \A m \in Msg, e \in Device : m \in lists'[e].urls =>
          given'[m] = 0 /\ \A f \in Device : m \in lists'[f].urls => f = e
    BY <1>2, <1>3 DEF HistoryInv, ViewInv
  <2>3. \A m \in Msg : given'[m] <= 1
    BY <1>2 DEF HistoryInv, ViewInv
  <2> QED
    BY <1>1, <2>1, <2>2, <2>3 DEF ViewInv
<1>4. CASE lists' = [lists EXCEPT ![d] = NoList]
  <2>1. NoList \in List /\ NoList.page = {} /\ NoList.todo = {} /\ NoList.urls = {}
        /\ NoList.before = 0 /\ NoList.got = {} /\ NoList.owed = {} /\ NoList.stage = "idle"
    BY DEF NoList, List
  <2>2. ViewInv'
    BY <1>3, <1>4, <2>1 DEF HistoryInv, TypeOK
  <2> QED
    BY <1>1, <1>2, <1>4, <2>1, <2>2, EndInvariant
<1>5. ASSUME NEW at \in 0..MaxTime, d \in Pager, ~LastPage(d), IsOldest(at, lists[d].page),
             lists' = [lists EXCEPT ![d] = AfterPage(d, at)]
      PROVE  HistoryInv'
  <2> DEFINE l == AfterPage(d, at)
  <2>1. at \in Nat
    BY <1>5, HistoryAssumption
  <2>2. /\ lists[d].got \subseteq Msg /\ lists[d].page \subseteq Msg
        /\ lists[d].owed \subseteq Msg /\ lists[d].before \in Nat
    BY ListTypes DEF HistoryInv
  <2>3. /\ l \in List /\ l.stage = "between" /\ l.before = at
        /\ l.got = lists[d].got \cup lists[d].page /\ l.owed = lists[d].owed
        /\ l.page = {} /\ l.todo = {} /\ l.urls = {}
    BY <2>1, <2>2 DEF AfterPage, NoList, List
  <2> HIDE DEF l
  <2>4. ViewInv'
    BY <1>3, <1>5, <2>3 DEF HistoryInv, TypeOK, l
  <2>5. PICK k \in lists[d].page : msgs[k].at = at
    BY <1>5 DEF IsOldest
  <2>6. at # 0
    BY <1>5, <2>2, <2>5 DEF HistoryInv, CursorInv, Shown
  <2>7. \A m \in l.got \cup l.owed : Shown(m)
    BY <1>5, <2>3 DEF HistoryInv, CursorInv
  <2>8. \A m \in l.got : msgs[m].at >= at
    <3>1. \A m \in lists[d].page : msgs[m].at >= at
      BY <1>5 DEF IsOldest
    <3>2. \A m \in lists[d].got : msgs[m].at >= at
      <4> SUFFICES ASSUME NEW m \in lists[d].got
                   PROVE  msgs[m].at >= at
        OBVIOUS
      <4>1. lists[d].before # 0 /\ msgs[m].at >= lists[d].before /\ msgs[m].at \in Nat
        BY <1>5, <2>2 DEF HistoryInv, CursorInv, TypeOK, Message
      <4>2. at < lists[d].before
        BY <1>5, <2>5, <4>1 DEF HistoryInv, CursorInv
      <4> QED
        BY <2>1, <2>2, <4>1, <4>2
    <3> QED
      BY <2>3, <3>1, <3>2
  <2>9. \A m \in (l.owed \cap Visible) \ l.got :
          msgs[m].at < l.before \/ \E j \in l.got : msgs[j].at = msgs[m].at
    <3> SUFFICES ASSUME NEW m \in (l.owed \cap Visible) \ l.got
                 PROVE  msgs[m].at < at \/ \E j \in l.got : msgs[j].at = msgs[m].at
      BY <2>3
    <3>1. \/ \A j \in lists[d].page : Ahead(j, m)
          \/ \E j \in lists[d].got : msgs[j].at = msgs[m].at
      BY <1>1, <1>5, <2>3 DEF HistoryInv, WalkInv
    <3>2. ASSUME Ahead(k, m)
          PROVE  msgs[m].at < at \/ msgs[k].at = msgs[m].at
      <4>1. msgs[m].at \in Nat
        BY <2>2, <2>3 DEF HistoryInv, TypeOK, Message
      <4> QED
        BY <2>1, <2>5, <3>2, <4>1 DEF Ahead
    <3> QED
      BY <2>3, <2>5, <3>1, <3>2
  <2>10. lists' = [lists EXCEPT ![d] = l]
    BY <1>5 DEF l
  <2> QED
    BY <1>1, <1>2, <2>3, <2>4, <2>6, <2>7, <2>8, <2>9, <2>10, EndInvariant
<1> QED
  BY <1>4, <1>5 DEF Answer, Device

LEMMA LostInvariant ==
  ASSUME HistoryInv, NEW d \in Device, Lost(d)
  PROVE  HistoryInv'
<1>1. /\ lists[d].stage \in {"paged", "resolving"} /\ now' = now /\ msgs' = msgs
      /\ hidden' = hidden /\ viewed' = viewed /\ told' = told /\ given' = given
      /\ given \in [Msg -> Nat]
  BY DEF Lost, HistoryInv, TypeOK
<1> DEFINE l == IF lists[d].before = 0 THEN NoList
                ELSE [lists[d] EXCEPT !.stage = "between", !.page = {}, !.todo = {}, !.urls = {}]
<1>2. lists' = [lists EXCEPT ![d] = l]
  BY DEF Lost, HistoryInv, TypeOK
<1>3. /\ l \in List /\ l.page = {} /\ l.todo = {} /\ l.urls = {}
      /\ l.stage \in {"idle", "between"}
      /\ l.before = 0 => l.got = {} /\ l.stage = "idle" /\ l.owed = {}
      /\ l.before # 0 => /\ l.before = lists[d].before
                         /\ l.got = lists[d].got /\ l.owed = lists[d].owed
  <2>1. CASE lists[d].before = 0
    BY <2>1 DEF NoList, List
  <2>2. CASE lists[d].before # 0
    BY <2>2, ListTypes DEF List, HistoryInv
  <2> QED
    BY <2>1, <2>2
<1> HIDE DEF l
<1>4. \A e \in Device : lists'[e] = IF e = d THEN l ELSE lists[e]
  BY <1>2 DEF HistoryInv, TypeOK
<1>5. ViewInv'
  BY <1>1, <1>3, <1>4, ViewKept DEF HistoryInv
<1>6. d \in Pager =>
        /\ \A m \in l.got \cup l.owed : Shown(m)
        /\ \A m \in l.got : msgs[m].at >= l.before
        /\ \A m \in (l.owed \cap Visible) \ l.got :
              msgs[m].at < l.before \/ \E k \in l.got : msgs[k].at = msgs[m].at
  <2>1. CASE l.before = 0
    BY <1>3, <2>1
  <2>2. CASE l.before # 0
    BY <1>3, <2>2 DEF HistoryInv, CursorInv, WalkInv
  <2> QED
    BY <2>1, <2>2
<1> QED
  BY <1>1, <1>2, <1>3, <1>5, <1>6, EndInvariant

-----------------------------------------------------------------------------
(* The theorems                                                            *)

LEMMA HistoryInvariant == HistoryInv /\ [Next]_vars => HistoryInv'
<1> SUFFICES ASSUME HistoryInv, [Next]_vars
             PROVE  HistoryInv'
  OBVIOUS
<1>1. ASSUME NEW m \in Msg, SendMessage(m) \/ ScheduleMessage(m)
      PROVE  HistoryInv'
  BY <1>1, SendInvariant
<1>2. ASSUME NEW m \in Msg, MarkMessageSent(m) \/ DeleteMessage(m)
      PROVE  HistoryInv'
  BY <1>2, StateChangeInvariant
<1>3. ASSUME NEW m \in Msg, UpdateMessage(m) \/ DeleteMessageForMe(m) \/ MarkViewed(m)
      PROVE  HistoryInv'
  <2>1. /\ msgs' = msgs /\ lists' = lists /\ given' = given /\ now' = now
        /\ hidden \subseteq hidden' /\ hidden' \subseteq hidden \cup {m}
        /\ viewed \subseteq viewed' /\ viewed' \subseteq viewed \cup {m}
        /\ told' \subseteq told \cup {m}
    BY <1>3 DEF UpdateMessage, DeleteMessageForMe, MarkViewed
  <2>2. now \in 1..MaxTime /\ hidden \subseteq Msg /\ viewed \subseteq Msg /\ told \subseteq Msg
    BY DEF HistoryInv, TypeOK
  <2> QED
    BY <2>1, <2>2, AsideInvariant
<1>4. CASE TimePasses
  <2>1. now + 1 \in 1..MaxTime
    BY <1>4, HistoryAssumption DEF TimePasses, HistoryInv, TypeOK
  <2> QED
    BY <1>4, <2>1, AsideInvariant DEF TimePasses, HistoryInv, TypeOK
<1>5. ASSUME NEW d \in Device, ListMessages(d)
      PROVE  HistoryInv'
  BY <1>5, ListMessagesInvariant
<1>6. ASSUME NEW d \in Device, ListThreadMessages(d)
      PROVE  HistoryInv'
  BY <1>6, ListThreadMessagesInvariant
<1>7. ASSUME NEW d \in Device,
             \/ AttachViewOnceState(d)
             \/ \E m \in Msg : ResolveAttachmentURL(d, m) \/ MarkMessageViewedFails(d, m)
      PROVE  HistoryInv'
  BY <1>7, ResolvingInvariant
<1>8. ASSUME NEW d \in Device, Answer(d)
      PROVE  HistoryInv'
  BY <1>8, AnswerInvariant
<1>9. ASSUME NEW d \in Device, Lost(d)
      PROVE  HistoryInv'
  BY <1>9, LostInvariant
<1>10. CASE UNCHANGED vars
  BY <1>10, AsideInvariant DEF vars, HistoryInv, TypeOK
<1> QED
  BY <1>1, <1>2, <1>3, <1>4, <1>5, <1>6, <1>7, <1>8, <1>9, <1>10 DEF Next, Others, Member

\* Messages, views and what each place is reading stay well formed: what a call
\* resolves is of its page, and nothing of it is kept when the call ends
\* (ListMessagesHandler, ListThreadHandler).
THEOREM TypeCorrect == Spec => []TypeOK
<1>1. HistoryInv => TypeOK
  BY DEF HistoryInv
<1> QED
  BY <1>1, InitInvariant, HistoryInvariant, PTL DEF Spec

\* On however many devices a member lists messages at the same time, the URL of
\* a view-once message is in one answer at most (attachViewOnceState,
\* resolveAttachmentURL, MarkMessageViewed).
THEOREM UrlListedOnce == Spec => []ListedOnce
<1>1. HistoryInv => ListedOnce
  BY HistoryAssumption DEF HistoryInv, ViewInv, ListedOnce
<1> QED
  BY <1>1, InitInvariant, HistoryInvariant, PTL DEF Spec

\* No page of a walk repeats a message of an earlier page (ListMessages).
THEOREM PagesAreDisjoint == Spec => []PagesDoNotRepeat
<1>1. HistoryInv => PagesDoNotRepeat
  <2> SUFFICES ASSUME HistoryInv, NEW d \in Pager, NEW m \in lists[d].page, m \in lists[d].got
               PROVE  FALSE
    BY DEF PagesDoNotRepeat
  <2>1. /\ msgs[m].at \in Nat /\ lists[d].before \in Nat
    BY ListTypes DEF HistoryInv, TypeOK, Message, Device
  <2>2. lists[d].before # 0 /\ msgs[m].at >= lists[d].before /\ msgs[m].at < lists[d].before
    BY DEF HistoryInv, CursorInv
  <2> QED
    BY <2>1, <2>2
<1> QED
  BY <1>1, InitInvariant, HistoryInvariant, PTL DEF Spec

\* A walk that reaches a page that is not full has shown every message that
\* could be seen throughout, except where one with the same timestamp was
\* shown (ListMessages).
THEOREM WalksMissNothing == Spec => []WalksAreComplete
<1>1. HistoryInv => WalksAreComplete
  <2> SUFFICES ASSUME HistoryInv, NEW d \in Pager, lists[d].stage = "resolving", LastPage(d),
                      NEW m \in (lists[d].owed \cap Visible) \ (lists[d].got \cup lists[d].page)
               PROVE  \E k \in lists[d].got \cup lists[d].page : msgs[k].at = msgs[m].at
    BY DEF WalksAreComplete
  <2> QED
    BY DEF HistoryInv, WalkInv
<1> QED
  BY <1>1, InitInvariant, HistoryInvariant, PTL DEF Spec

=============================================================================
