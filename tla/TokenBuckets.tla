---------------------------- MODULE TokenBuckets ----------------------------
(***************************************************************************)
(* What the rate limiter promises each user: a bucket of Burst tokens that *)
(* gains one token per unit of time, and a request that passes if and only *)
(* if there is a token for it to take.                                     *)
(***************************************************************************)
EXTENDS Naturals

CONSTANTS User, Call, Burst

VARIABLES
    tokens,     \* the bucket of each user
    requests    \* who asks, and what came of it

vars == <<tokens, requests>>

None == [stage |-> "none"]
Asking(u) == [stage |-> "asking", user |-> u]

Init ==
    /\ tokens = [u \in User |-> Burst]
    /\ requests = [c \in Call |-> None]

Arrive(c, u) ==
    /\ requests[c] = None
    /\ requests' = [requests EXCEPT ![c] = Asking(u)]
    /\ UNCHANGED tokens

Pass(c, u) ==
    /\ requests[c] = Asking(u)
    /\ tokens[u] > 0
    /\ tokens' = [tokens EXCEPT ![u] = @ - 1]
    /\ requests' = [requests EXCEPT ![c] = [stage |-> "allowed"]]

Refuse(c, u) ==
    /\ requests[c] = Asking(u)
    /\ tokens[u] = 0
    /\ requests' = [requests EXCEPT ![c] = [stage |-> "refused"]]
    /\ UNCHANGED tokens

Leave(c) ==
    /\ requests[c].stage \in {"allowed", "refused"}
    /\ requests' = [requests EXCEPT ![c] = None]
    /\ UNCHANGED tokens

Gain ==
    /\ tokens' = [u \in User |-> IF tokens[u] < Burst THEN tokens[u] + 1 ELSE Burst]
    /\ UNCHANGED requests

Next ==
    \/ \E c \in Call :
        \/ \E u \in User : Arrive(c, u) \/ Pass(c, u) \/ Refuse(c, u)
        \/ Leave(c)
    \/ Gain

Spec == Init /\ [][Next]_vars

=============================================================================
