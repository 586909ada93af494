------------------------------- MODULE History -------------------------------
(***************************************************************************)
(* What one member sees of a conversation that others write to: pages of   *)
(* its history, one of its threads, the messages the member has hidden,    *)
(* and the messages with an attachment that may be seen once.              *)
(*                                                                         *)
(* The member may use several devices. Deletions and views are rows of the *)
(* member alone, so one member stands for all. A call is a statement that  *)
(* reads a snapshot, a statement that looks up views, a statement for each *)
(* message that may be seen once, and the answer. Ids are ordered, as the  *)
(* tie-break by message_id needs, but used in any order.                   *)
(***************************************************************************)
EXTENDS Naturals, FiniteSets

CONSTANTS
    Msg,        \* message ids
    Once,       \* those sent with view_once
    Thread,     \* those of the one thread the member opens
    Pager,      \* places on the member's devices that follow the history,
    Opener,     \* and that open the thread; each has one call in flight at most
    PageSize,   \* limit: 50, at most 100
    MaxTime     \* bound on the clock, for TLC

ASSUME HistoryAssumption ==
    /\ Msg \subseteq Nat
    /\ Once \subseteq Msg
    /\ Thread \subseteq Msg
    /\ Pager \cap Opener = {}
    /\ PageSize \in Nat \ {0}
    /\ MaxTime \in Nat \ {0}

VARIABLES
    now,        \* the clock
    msgs,       \* public.messages: state and created_at
    hidden,     \* message_deletions of the member
    viewed,     \* message_views of the member
    lists,      \* what each place is reading
    given,      \* how many answers carried a URL of the message
    told        \* messages whose URL went out in an event to all members

vars == <<now, msgs, hidden, viewed, lists, given, told>>

Message == [state : {"none", "scheduled", "sent", "deleted"}, at : Nat]

\* Of a pager's walk, before is the cursor of the next page, 0 for none; got is
\* what its pages showed so far; owed is what could be seen when it began. Of
\* a call, page is what it lists, todo those of them still to be resolved, and
\* urls those of which it has the URL.
Device == Pager \cup Opener
List == [stage : {"idle", "between", "paged", "resolving"},
         before : Nat, got : SUBSET Msg, owed : SUBSET Msg,
         page : SUBSET Msg, todo : SUBSET Msg, urls : SUBSET Msg]
NoList == [stage |-> "idle", before |-> 0, got |-> {},
           owed |-> {}, page |-> {}, todo |-> {}, urls |-> {}]

TypeOK ==
    /\ now \in 1..MaxTime
    /\ msgs \in [Msg -> Message]
    /\ hidden \subseteq Msg
    /\ viewed \subseteq Msg
    /\ lists \in [Device -> List]
    /\ given \in [Msg -> Nat]
    /\ told \subseteq Msg
    /\ \A d \in Device :
        /\ lists[d].todo \cup lists[d].urls \subseteq lists[d].page
        /\ lists[d].page # {} => lists[d].stage \in {"paged", "resolving"}

Init ==
    /\ now = 1
    /\ msgs = [m \in Msg |-> [state |-> "none", at |-> 0]]
    /\ hidden = {}
    /\ viewed = {}
    /\ lists = [d \in Device |-> NoList]
    /\ given = [m \in Msg |-> 0]
    /\ told = {}

-----------------------------------------------------------------------------
(* Others write                                                            *)

\* created_at is the start of the transaction that now commits. Its sender's
\* answer has the URL, if it could be signed, and so has the event to all.
SendMessage(m) ==
    /\ msgs[m].state = "none"
    /\ \E at \in {now, now - 1} \ {0} : msgs' = [msgs EXCEPT ![m] = [state |-> "sent", at |-> at]]
    /\ told' \in {told, told \cup {m}}
    /\ UNCHANGED <<now, hidden, viewed, lists, given>>

ScheduleMessage(m) ==
    /\ msgs[m].state = "none"
    /\ msgs' = [msgs EXCEPT ![m] = [state |-> "scheduled", at |-> now]]
    /\ UNCHANGED <<now, hidden, viewed, lists, given, told>>

\* The worker's event has no URL.
MarkMessageSent(m) ==
    /\ msgs[m].state = "scheduled"
    /\ msgs' = [msgs EXCEPT ![m].state = "sent"]
    /\ UNCHANGED <<now, hidden, viewed, lists, given, told>>

UpdateMessage(m) ==
    /\ msgs[m].state \in {"scheduled", "sent"}
    /\ told' = told \cup {m}
    /\ UNCHANGED <<now, msgs, hidden, viewed, lists, given>>

DeleteMessage(m) ==
    /\ msgs[m].state \in {"scheduled", "sent"}
    /\ msgs' = [msgs EXCEPT ![m].state = "deleted"]
    /\ UNCHANGED <<now, hidden, viewed, lists, given, told>>

-----------------------------------------------------------------------------
(* The member reads                                                        *)

DeleteMessageForMe(m) ==
    /\ msgs[m].state # "none"
    /\ hidden' = hidden \cup {m}
    /\ UNCHANGED <<now, msgs, viewed, lists, given, told>>

\* POST .../view: the client marks a message without asking for its URL.
MarkViewed(m) ==
    /\ msgs[m].state # "none"
    /\ viewed' = viewed \cup {m}
    /\ UNCHANGED <<now, msgs, hidden, lists, given, told>>

Sent == {m \in Msg : msgs[m].state = "sent"}
Visible == Sent \ hidden

Before_OrEqual(cursor) == {m \in Visible : cursor = 0 \/ msgs[m].at <= cursor}
Before(cursor) == {m \in Visible : cursor = 0 \/ msgs[m].at < cursor}

\* k comes before m in ORDER BY created_at DESC, message_id DESC.
Ahead_None(k, m) == TRUE
Ahead(k, m) ==
    \/ msgs[k].at > msgs[m].at
    \/ msgs[k].at = msgs[m].at /\ k > m

\* P is what the LIMIT leaves of the rows S.
IsPage(P, S) ==
    \/ P = S /\ Cardinality(S) <= PageSize
    \/ /\ Cardinality(P) = PageSize
       /\ \A k \in P, m \in S \ P : Ahead(k, m)

\* First statement of a call for a page of the history.
ListMessages(d) ==
    /\ d \in Pager
    /\ lists[d].stage \in {"idle", "between"}
    /\ LET l == IF lists[d].stage = "between" THEN lists[d]
                ELSE [NoList EXCEPT !.owed = Visible]
       IN  \E P \in SUBSET Before(l.before) :
            /\ IsPage(P, Before(l.before))
            /\ lists' = [lists EXCEPT ![d] = [l EXCEPT !.stage = "paged", !.page = P]]
    /\ UNCHANGED <<now, msgs, hidden, viewed, given, told>>

\* First statement of a call for the thread: message_deletions is not read.
ListThreadMessages(d) ==
    /\ d \in Opener
    /\ lists[d].stage = "idle"
    /\ lists' = [lists EXCEPT ![d].stage = "paged", ![d].page = Thread \cap Sent]
    /\ UNCHANGED <<now, msgs, hidden, viewed, given, told>>

\* Second statement: the key is dropped from what was viewed before.
AttachViewOnceState(d) ==
    /\ lists[d].stage = "paged"
    /\ lists' = [lists EXCEPT ![d].stage = "resolving",
                              ![d].todo = (lists[d].page \cap Once) \ viewed]
    /\ UNCHANGED <<now, msgs, hidden, viewed, given, told>>

\* resolveAttachmentURL: the insert tells whether it is the first, and the
\* URL of the first is then signed, which may fail.
ResolveAttachmentURL_Keyed(d, m) ==
    /\ lists[d].stage = "resolving"
    /\ m \in lists[d].todo
    /\ viewed' = viewed \cup {m}
    /\ \E urls \in {{}, {m}} :
        lists' = [lists EXCEPT ![d] = [lists[d] EXCEPT
                    !.todo = lists[d].todo \ {m}, !.urls = lists[d].urls \cup urls]]
    /\ UNCHANGED <<now, msgs, hidden, given, told>>
ResolveAttachmentURL(d, m) ==
    /\ lists[d].stage = "resolving"
    /\ m \in lists[d].todo
    /\ viewed' = viewed \cup {m}
    /\ \E urls \in {{}, {m} \ viewed} :
        lists' = [lists EXCEPT ![d] = [lists[d] EXCEPT
                    !.todo = lists[d].todo \ {m}, !.urls = lists[d].urls \cup urls]]
    /\ UNCHANGED <<now, msgs, hidden, given, told>>

\* The insert fails: no URL, and the message remains to be seen.
MarkMessageViewedFails(d, m) ==
    /\ lists[d].stage = "resolving"
    /\ m \in lists[d].todo
    /\ lists' = [lists EXCEPT ![d].todo = @ \ {m}]
    /\ UNCHANGED <<now, msgs, hidden, viewed, given, told>>

IsOldest(at, P) ==
    /\ \E m \in P : msgs[m].at = at
    /\ \A m \in P : msgs[m].at >= at

\* A full page's oldest created_at is the cursor of the next one; a walk ends
\* with a page that is not full.
LastPage(d) == Cardinality(lists[d].page) < PageSize
AfterPage_KeepsPage(d, at) ==
    [lists[d] EXCEPT !.stage = "between", !.before = at, !.got = @ \cup lists[d].page]
AfterPage(d, at) ==
    [NoList EXCEPT !.stage = "between", !.before = at,
                   !.got = lists[d].got \cup lists[d].page, !.owed = lists[d].owed]

Answer(d) ==
    /\ lists[d].stage = "resolving"
    /\ lists[d].todo = {}
    /\ \/ (d \in Opener \/ LastPage(d)) /\ lists' = [lists EXCEPT ![d] = NoList]
       \/ /\ d \in Pager /\ ~LastPage(d)
          /\ \E at \in 0..MaxTime :
              /\ IsOldest(at, lists[d].page)
              /\ lists' = [lists EXCEPT ![d] = AfterPage(d, at)]
    /\ given' = [m \in Msg |-> given[m] + IF m \in lists[d].urls THEN 1 ELSE 0]
    /\ UNCHANGED <<now, msgs, hidden, viewed, told>>

\* A statement fails, the process stops or the client goes away. A pager
\* may ask for the page again.
Lost(d) ==
    /\ lists[d].stage \in {"paged", "resolving"}
    /\ lists' = [lists EXCEPT ![d] =
        IF lists[d].before = 0 THEN NoList
        ELSE [@ EXCEPT !.stage = "between", !.page = {}, !.todo = {}, !.urls = {}]]
    /\ UNCHANGED <<now, msgs, hidden, viewed, given, told>>

TimePasses ==
    /\ now < MaxTime
    /\ now' = now + 1
    /\ UNCHANGED <<msgs, hidden, viewed, lists, given, told>>

Others ==
    \/ \E m \in Msg :
        \/ SendMessage(m)
        \/ ScheduleMessage(m)
        \/ MarkMessageSent(m)
        \/ UpdateMessage(m)
        \/ DeleteMessage(m)
    \/ TimePasses

Member ==
    \/ \E m \in Msg : DeleteMessageForMe(m) \/ MarkViewed(m)
    \/ \E d \in Device :
        \/ ListMessages(d)
        \/ ListThreadMessages(d)
        \/ AttachViewOnceState(d)
        \/ \E m \in Msg : ResolveAttachmentURL(d, m) \/ MarkMessageViewedFails(d, m)
        \/ Answer(d)
        \/ Lost(d)

Next == Others \/ Member
Spec == Init /\ [][Next]_vars

-----------------------------------------------------------------------------
(* Properties                                                              *)

\* However many lists of the history and of the thread overlap, on however
\* many devices, the URL of a view-once message is in one answer at most.
ListedOnce == \A m \in Once : given[m] <= 1

\* No page repeats a message that an earlier page of the same walk showed:
\* created_at never changes and the cursor is exclusive.
PagesDoNotRepeat ==
    \A d \in Pager : lists[d].page \cap lists[d].got = {}

\* A walk to the end shows every message that could be seen from its beginning
\* to its end, whatever was sent, deleted or hidden meanwhile; only a message
\* with the very timestamp of one that was shown may be missed.
WalksAreComplete ==
    \A d \in Pager : lists[d].stage = "resolving" /\ LastPage(d) =>
        LET shown == lists[d].got \cup lists[d].page
        IN  \A m \in (lists[d].owed \cap Visible) \ shown :
                \E k \in shown : msgs[k].at = msgs[m].at

\* The comment on resolveAttachmentURL: members other than the sender get
\* exactly one successful resolution. Events count as well as answers.
OneReveal ==
    \A m \in Once : m \notin told \/ given[m] = 0

=============================================================================
