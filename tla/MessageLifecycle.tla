-------------------------- MODULE MessageLifecycle --------------------------
(***************************************************************************)
(* What the service promises of a message, whatever its parts do: the      *)
(* phases it goes through, in their order, and that it is announced once   *)
(* at most and never while it is held. There are no requests, no worker,   *)
(* no clock and no failures here; MessageService implements this.          *)
(***************************************************************************)
EXTENDS Naturals

CONSTANTS MsgId, NoMsg

VARIABLES
    phase,       \* "none", then "held" or "sent", then "deleted", then "gone"
    root,        \* the thread root of a reply
    announced    \* how often a message was announced

lifeVars == <<phase, root, announced>>

Init ==
    /\ phase = [m \in MsgId |-> "none"]
    /\ root = [m \in MsgId |-> NoMsg]
    /\ announced = [m \in MsgId |-> 0]

\* A root can be replied to: it is in the table and is not a reply itself. It
\* may have been deleted since the reply was checked.
IsRoot(r) == phase[r] \notin {"none", "gone"} /\ root[r] = NoMsg

\* New messages: copies forwarded together, or one message, or one reply.
Create(S, p, r) ==
    /\ S # {} /\ \A m \in S : phase[m] = "none"
    /\ r # NoMsg => IsRoot(r)
    /\ phase' = [m \in MsgId |-> IF m \in S THEN p ELSE phase[m]]
    /\ root' = [m \in MsgId |-> IF m \in S THEN r ELSE root[m]]
    /\ UNCHANGED announced

Release(m) ==
    /\ phase[m] = "held" /\ phase' = [phase EXCEPT ![m] = "sent"]
    /\ UNCHANGED <<root, announced>>

Retract(m) ==
    /\ phase[m] \in {"held", "sent"} /\ phase' = [phase EXCEPT ![m] = "deleted"]
    /\ UNCHANGED <<root, announced>>

\* Only a deleted message is erased; a thread is erased with its root.
Erase(m) ==
    /\ phase[m] = "deleted"
    /\ phase' = [x \in MsgId |->
                    IF x = m \/ root[x] = m THEN "gone" ELSE phase[x]]
    /\ UNCHANGED <<root, announced>>

Announce(m) ==
    /\ phase[m] \notin {"none", "held"} /\ announced[m] = 0
    /\ announced' = [announced EXCEPT ![m] = 1]
    /\ UNCHANGED <<phase, root>>

Next ==
    \/ \E S \in SUBSET MsgId, p \in {"held", "sent"}, r \in MsgId \cup {NoMsg} :
          Create(S, p, r)
    \/ \E m \in MsgId : Release(m) \/ Retract(m) \/ Erase(m) \/ Announce(m)

Spec == Init /\ [][Next]_lifeVars

=============================================================================
