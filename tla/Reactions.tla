------------------------------ MODULE Reactions ------------------------------
(***************************************************************************)
(* Reactions to one message, and how members learn of them. A request      *)
(* changes one row, reads all of them in a second statement, answers with  *)
(* what it read and leaves the telling to a goroutine of its own, which    *)
(* lists the members and starts a goroutine for each post. Posts arrive in *)
(* any order, once or never. The message stays: that a purge deletes it,   *)
(* and its reactions by cascade, in the middle of this is left out.        *)
(***************************************************************************)
EXTENDS Naturals

CONSTANTS
    Member,       \* of the conversation, who react and are told
    Emoji,
    Req,          \* requests, each made once
    MaxFaults     \* bound on crashes and failed statements together

ASSUME ReactionsAssumption == MaxFaults \in Nat

VARIABLES
    reactions,    \* public.message_reactions
    reqs,         \* the requests
    casts,        \* the goroutine that each request left behind
    posts,        \* posts in flight: what was read by whom, and to whom it goes
    got,          \* requests whose event reached a member
    reads,        \* how many requests have read
    faults

vars == <<reactions, reqs, casts, posts, got, reads, faults>>

Row == Member \X Emoji

\* at is the place of its read among all reads, snap what it read. alone: no
\* other request changed the row between the change and the read.
Request == [stage : {"changed", "answered", "failed"}, kind : {"add", "remove"},
            row : Row, alone : BOOLEAN, at : Nat, snap : SUBSET Row]
NoRequest == [stage |-> "new"]
Asked(q) == reqs[q].stage # "new"

\* left: the members that the loop of broadcastReactions has still to serve.
Cast == [stage : {"none", "listing", "posting", "posted", "failed"}, left : SUBSET Member]
NoCast == [stage |-> "none", left |-> {}]

TypeOK ==
    /\ reactions \subseteq Row
    /\ reqs \in [Req -> Request \cup {NoRequest}]
    /\ casts \in [Req -> Cast]
    /\ posts \subseteq Req \X Member \X {"event", "notification"}
    /\ got \in [Member -> SUBSET Req]
    /\ reads \in Nat
    /\ faults \in 0..MaxFaults
    /\ \A q \in Req :
        /\ reqs[q].stage = "answered" => reqs[q].at \in 1..reads
        /\ casts[q].stage # "none" => reqs[q].stage = "answered"
        /\ casts[q].left # {} => casts[q].stage = "posting"
        /\ \A m \in Member : <<q, m, "event">> \in posts => q \notin got[m]

Init ==
    /\ reactions = {}
    /\ reqs = [q \in Req |-> NoRequest]
    /\ casts = [q \in Req |-> NoCast]
    /\ posts = {}
    /\ got = [m \in Member |-> {}]
    /\ reads = 0
    /\ faults = 0

-----------------------------------------------------------------------------
(* The handlers                                                            *)

AddReaction(row) == reactions \cup {row}
RemoveReaction(row) == reactions \ {row}

\* The insert or delete, committed at once. Others that are between their own
\* change of that row and their read are no longer alone.
Change_AfterRead(q) ==
    /\ ~Asked(q)
    /\ \E row \in Row, kind \in {"add", "remove"} :
        /\ reactions' = IF kind = "add" THEN AddReaction(row) ELSE RemoveReaction(row)
        /\ reqs' = [reqs EXCEPT ![q] = [stage |-> "answered", kind |-> kind, row |-> row,
                        alone |-> TRUE, at |-> reads + 1, snap |-> reactions]]
    /\ reads' = reads + 1
    /\ casts' = [casts EXCEPT ![q].stage = "listing"]
    /\ UNCHANGED <<posts, got, faults>>
Change(q) ==
    /\ ~Asked(q)
    /\ \E row \in Row, kind \in {"add", "remove"} :
        /\ reactions' = IF kind = "add" THEN AddReaction(row) ELSE RemoveReaction(row)
        /\ reqs' = [r \in Req |->
            IF r = q
            THEN [stage |-> "changed", kind |-> kind, row |-> row,
                  alone |-> TRUE, at |-> 0, snap |-> {}]
            ELSE IF reqs[r].stage = "changed" /\ reqs[r].row = row
                 THEN [reqs[r] EXCEPT !.alone = FALSE]
                 ELSE reqs[r]]
    /\ UNCHANGED <<casts, posts, got, reads, faults>>

\* The read, the goroutine and the answer. No request waits for the telling.
ListReactions(q) ==
    /\ reqs[q].stage = "changed"
    /\ reqs' = [reqs EXCEPT ![q].stage = "answered", ![q].at = reads + 1,
                            ![q].snap = reactions]
    /\ reads' = reads + 1
    /\ casts' = [casts EXCEPT ![q].stage = "listing"]
    /\ UNCHANGED <<reactions, posts, got, faults>>

\* The client goes away or the statement fails: the change stays, untold.
ListReactionsFails(q) ==
    /\ reqs[q].stage = "changed"
    /\ reqs' = [reqs EXCEPT ![q].stage = "failed"]
    /\ UNCHANGED <<reactions, casts, posts, got, reads, faults>>

-----------------------------------------------------------------------------
(* broadcastReactions, in a goroutine with a context of its own            *)

ListMemberIDs_RequestContext(q) ==
    /\ casts[q].stage = "listing"
    /\ \E c \in {[stage |-> "posting", left |-> Member], NoCast} :
        casts' = [casts EXCEPT ![q] = c]
    /\ UNCHANGED <<reactions, reqs, posts, got, reads, faults>>
ListMemberIDs(q) ==
    /\ casts[q].stage = "listing"
    /\ casts' = [casts EXCEPT ![q] = [stage |-> "posting", left |-> Member]]
    /\ UNCHANGED <<reactions, reqs, posts, got, reads, faults>>

ListMemberIDsFails(q) ==
    /\ casts[q].stage = "listing"
    /\ faults < MaxFaults
    /\ faults' = faults + 1
    /\ casts' = [casts EXCEPT ![q].stage = "failed"]
    /\ UNCHANGED <<reactions, reqs, posts, got, reads>>

\* The event goes to every member, the notification to all but the actor.
Notify(q, m) ==
    /\ casts[q].stage = "posting"
    /\ m \in casts[q].left
    /\ posts' = posts \cup {<<q, m, "event">>}
                      \cup (IF m = reqs[q].row[1] THEN {} ELSE {<<q, m, "notification">>})
    /\ casts' = [casts EXCEPT ![q] =
        [stage |-> IF @.left = {m} THEN "posted" ELSE "posting", left |-> @.left \ {m}]]
    /\ UNCHANGED <<reactions, reqs, got, reads, faults>>

-----------------------------------------------------------------------------
(* The posts                                                               *)

Reaches(p) == got' = [got EXCEPT ![p[2]] = IF p[3] = "event" THEN @ \cup {p[1]} ELSE @]

Deliver_MayRepeat(p) ==
    /\ p \in posts
    /\ posts' \in {posts, posts \ {p}}
    /\ Reaches(p)
    /\ UNCHANGED <<reactions, reqs, casts, reads, faults>>
Deliver(p) ==
    /\ p \in posts
    /\ posts' = posts \ {p}
    /\ Reaches(p)
    /\ UNCHANGED <<reactions, reqs, casts, reads, faults>>

\* Refused, lost, or given up after 5 seconds: there is no second attempt.
PostFails(p) ==
    /\ p \in posts
    /\ posts' = posts \ {p}
    /\ UNCHANGED <<reactions, reqs, casts, got, reads, faults>>

\* The process stops, and with it every request and goroutine.
Crash ==
    /\ faults < MaxFaults
    /\ faults' = faults + 1
    /\ reqs' = [q \in Req |-> IF reqs[q].stage = "changed"
                              THEN [reqs[q] EXCEPT !.stage = "failed"] ELSE reqs[q]]
    /\ casts' = [q \in Req |-> IF casts[q].stage \in {"listing", "posting"}
                               THEN [stage |-> "failed", left |-> {}] ELSE casts[q]]
    /\ posts' = {}
    /\ UNCHANGED <<reactions, got, reads>>

Next ==
    \/ \E q \in Req :
        \/ Change(q)
        \/ ListReactions(q)
        \/ ListReactionsFails(q)
        \/ ListMemberIDs(q)
        \/ ListMemberIDsFails(q)
        \/ \E m \in Member : Notify(q, m)
    \/ \E p \in posts : Deliver(p) \/ PostFails(p)
    \/ Crash

\* Goroutines run on, and a post ends by its timeout if not before.
Fairness ==
    /\ \A q \in Req : WF_vars(ListMemberIDs(q)) /\ WF_vars(\E m \in Member : Notify(q, m))
    /\ \A p \in Req \X Member \X {"event", "notification"} : WF_vars(PostFails(p))

Spec == Init /\ [][Next]_vars /\ Fairness

-----------------------------------------------------------------------------
(* Properties                                                              *)

\* The answer shows the change it was asked for, whatever others do between
\* the two statements, unless another request changed the very same row.
AnswersShowTheChange ==
    \A q \in Req : reqs[q].stage = "answered" /\ reqs[q].alone =>
        (reqs[q].row \in reqs[q].snap <=> reqs[q].kind = "add")

\* A member who got every event, in any order, holds the current rows in the
\* one that was read last. One who applies them as they come may not.
EventsSuffice ==
    \A m \in Member, q \in Req :
        /\ \A r \in Req : Asked(r) => r \in got[m]
        /\ Asked(q)
        /\ \A r \in Req : Asked(r) => reqs[r].at <= reqs[q].at
        => reqs[q].snap = reactions

\* Once answered, a change is posted to every member, though its client may be
\* gone; only a crash or a failed statement prevents it. No post lasts for ever.
AllAreTold ==
    \A q \in Req : reqs[q].stage = "answered" ~>
        \/ casts[q].stage = "failed"
        \/ /\ casts[q].stage = "posted"
           /\ \A m \in Member : <<q, m, "event">> \notin posts

=============================================================================
