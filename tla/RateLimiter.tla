----------------------------- MODULE RateLimiter -----------------------------
(***************************************************************************)
(* The limiter of writes per user: a map, under a mutex, from users to the *)
(* limiters of a library, and a loop that evicts those not used of late. A *)
(* request fetches its limiter under the mutex and asks it after letting   *)
(* go of the mutex; the loop fixes its cutoff before it takes the mutex.   *)
(*                                                                         *)
(* The unit of time is what a token takes to come back (100 ms), so that   *)
(* Burst is 20 and Ttl 6000. This is one life of the process: the map is   *)
(* in memory. The library reads the clock before it takes the lock of its  *)
(* own that each limiter has; here the two are one step.                   *)
(***************************************************************************)
EXTENDS Naturals

CONSTANTS
    User,
    Limiter,    \* the objects that the map and requests point to
    NoLimiter,
    Call,       \* places for requests in flight
    Burst, Ttl,
    Pause,      \* the longest that a goroutine ready to run is kept waiting
    MaxTime     \* bound on the clock, for TLC

\* 20 tokens are back in 2 seconds and Ttl is 10 minutes. Were a goroutine
\* kept waiting for that long, a request could use an evicted limiter.
ASSUME RateLimiterAssumption ==
    /\ NoLimiter \notin Limiter
    /\ Burst \in Nat \ {0}
    /\ Pause \in Nat
    /\ Ttl \in Nat
    /\ Burst + Pause <= Ttl
    /\ MaxTime \in Nat

VARIABLES
    now,
    limiters,   \* the map; NoEntry where a user has none
    heap,       \* the library's limiters: tokens left at the time last
    calls,      \* the requests in flight
    evict,      \* the loop of evictLoop
    since,      \* beginning of an arbitrary window, for WindowBound
    spent       \* requests of each user that passed since then

vars == <<now, limiters, heap, calls, evict, since, spent>>

Entry == [limiter : Limiter \cup {NoLimiter}, lastSeen : Nat]
NoEntry == [limiter |-> NoLimiter, lastSeen |-> 0]
Known(u) == limiters[u].limiter # NoLimiter

Asking == [stage : {"asking"}, user : User, limiter : Limiter, at : Nat]
Idle == [stage |-> "none"]

TypeOK ==
    /\ now \in Nat
    /\ limiters \in [User -> Entry]
    /\ heap \in [Limiter -> [tokens : 0..Burst, last : 0..now]]
    /\ calls \in [Call -> Asking \cup [stage : {"allowed", "refused"}] \cup {Idle}]
    /\ evict \in [stage : {"waiting", "woken"}, tick : Nat, cutoff : 0..now]
    /\ since \in Nat
    /\ spent \in [User -> Nat]

Init ==
    /\ now = 0
    /\ limiters = [u \in User |-> NoEntry]
    /\ heap = [l \in Limiter |-> [tokens |-> Burst, last |-> 0]]
    /\ calls = [c \in Call |-> Idle]
    /\ evict = [stage |-> "waiting", tick |-> Ttl, cutoff |-> 0]
    /\ since \in 0..MaxTime
    /\ spent = [u \in User |-> 0]

-----------------------------------------------------------------------------
(* golang.org/x/time/rate: tokens come back as time passes, up to Burst    *)

NewLimiter_Empty == [tokens |-> 0, last |-> now]
NewLimiter == [tokens |-> Burst, last |-> now]

Tokens_Uncapped(l) == heap[l].tokens + (now - heap[l].last)
Tokens(l) ==
    LET sum == heap[l].tokens + (now - heap[l].last)
    IN  IF sum > Burst THEN Burst ELSE sum

-----------------------------------------------------------------------------
(* allow                                                                   *)

Unused(l) ==
    /\ \A u \in User : limiters[u].limiter # l
    /\ \A c \in Call : calls[c].stage = "asking" => calls[c].limiter # l

\* Under the mutex: the entry is found or made, and touched.
Fetch_Untouched(c, u) ==
    /\ calls[c] = Idle
    /\ \E l \in Limiter :
        /\ \/ Known(u) /\ l = limiters[u].limiter /\ UNCHANGED <<heap, limiters>>
           \/ /\ ~Known(u) /\ Unused(l) /\ heap' = [heap EXCEPT ![l] = NewLimiter]
              /\ limiters' = [limiters EXCEPT ![u] = [limiter |-> l, lastSeen |-> now]]
        /\ calls' = [calls EXCEPT ![c] =
            [stage |-> "asking", user |-> u, limiter |-> l, at |-> now]]
    /\ UNCHANGED <<now, evict, since, spent>>
Fetch(c, u) ==
    /\ calls[c] = Idle
    /\ \E l \in Limiter :
        /\ \/ Known(u) /\ l = limiters[u].limiter /\ UNCHANGED heap
           \/ ~Known(u) /\ Unused(l) /\ heap' = [heap EXCEPT ![l] = NewLimiter]
        /\ limiters' = [limiters EXCEPT ![u] = [limiter |-> l, lastSeen |-> now]]
        /\ calls' = [calls EXCEPT ![c] =
            [stage |-> "asking", user |-> u, limiter |-> l, at |-> now]]
    /\ UNCHANGED <<now, evict, since, spent>>

\* limiter.Allow(), without the mutex.
Allow(c) ==
    /\ calls[c].stage = "asking"
    /\ LET l == calls[c].limiter  u == calls[c].user
       IN  IF Tokens(l) > 0
           THEN /\ heap' = [heap EXCEPT ![l] = [tokens |-> Tokens(l) - 1, last |-> now]]
                /\ calls' = [calls EXCEPT ![c] = [stage |-> "allowed"]]
                /\ spent' = IF now < since THEN spent ELSE [spent EXCEPT ![u] = @ + 1]
           ELSE /\ calls' = [calls EXCEPT ![c] = [stage |-> "refused"]]
                /\ UNCHANGED <<heap, spent>>
    /\ UNCHANGED <<now, limiters, evict, since>>

\* The request is served, or answered 429.
Finish(c) ==
    /\ calls[c].stage \in {"allowed", "refused"}
    /\ calls' = [calls EXCEPT ![c] = Idle]
    /\ UNCHANGED <<now, limiters, heap, evict, since, spent>>

-----------------------------------------------------------------------------
(* evictLoop                                                               *)

\* The ticker has fired: the cutoff is Ttl before the time read here.
Wake ==
    /\ evict.stage = "waiting"
    /\ now >= evict.tick
    /\ evict' = [evict EXCEPT !.stage = "woken", !.cutoff = now]
    /\ UNCHANGED <<now, limiters, heap, calls, since, spent>>

Expired_Later(u) == Known(u) /\ limiters[u].lastSeen + 2 * Ttl < evict.cutoff
Expired(u) == Known(u) /\ limiters[u].lastSeen + Ttl < evict.cutoff

Sweep ==
    /\ evict.stage = "woken"
    /\ limiters' = [u \in User |-> IF Expired(u) THEN NoEntry ELSE limiters[u]]
    /\ evict' = [stage |-> "waiting", tick |-> evict.tick + Ttl, cutoff |-> 0]
    /\ UNCHANGED <<now, heap, calls, since, spent>>

-----------------------------------------------------------------------------

\* Nobody who could go on is kept waiting for longer than Pause.
TimePasses ==
    /\ now < MaxTime
    /\ \A c \in Call : calls[c].stage = "asking" => now < calls[c].at + Pause
    /\ now < evict.tick + Pause
    /\ now' = now + 1
    /\ UNCHANGED <<limiters, heap, calls, evict, since, spent>>

Next ==
    \/ \E c \in Call :
        \/ \E u \in User : Fetch(c, u)
        \/ Allow(c)
        \/ Finish(c)
    \/ Wake
    \/ Sweep
    \/ TimePasses

Spec == Init /\ [][Next]_vars

-----------------------------------------------------------------------------
(* Properties                                                              *)

\* In any window of time, however often the user's limiter was evicted and
\* made anew, no more requests pass than the rate and the burst allow.
WindowBound ==
    \A u \in User : now >= since => spent[u] <= Burst + (now - since)

\* The map forgets a user who has not been seen for two periods of the loop,
\* and the time it takes the loop to come round.
IdleEntriesLeave ==
    \A u \in User : Known(u) => now <= limiters[u].lastSeen + 2 * Ttl + Pause

\* Fetching in one step and asking in another, evicting and starting anew are
\* invisible: each user has one token bucket for ever.
RequestOf(c) ==
    IF calls[c].stage = "asking" THEN [stage |-> "asking", user |-> calls[c].user] ELSE calls[c]
BucketOf(u) == IF Known(u) THEN Tokens(limiters[u].limiter) ELSE Burst
Buckets == INSTANCE TokenBuckets WITH
    tokens <- [u \in User |-> BucketOf(u)],
    requests <- [c \in Call |-> RequestOf(c)]
ImplementsTokenBuckets == Buckets!Spec

=============================================================================
