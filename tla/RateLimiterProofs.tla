-------------------------- MODULE RateLimiterProofs --------------------------
(***************************************************************************)
(* The limiter of writes per user implements one token bucket per user,    *)
(* for any number of users and requests, whatever it evicts meanwhile.     *)
(*                                                                         *)
(* The argument: a request that holds a limiter has touched its entry at   *)
(* most Pause ago, so that no sweep evicts it; and a limiter that a sweep  *)
(* evicts was last used so long ago that it is full, as a new one is.      *)
(***************************************************************************)
EXTENDS RateLimiter, TLAPS

Asks(c) == calls[c].stage = "asking"

\* A request in flight uses the limiter that the map has for its user, and no
\* two users share one.
HeldInv ==
    /\ \A c \in Call : Asks(c) =>
        /\ Known(calls[c].user)
        /\ limiters[calls[c].user].limiter = calls[c].limiter
        /\ calls[c].at <= limiters[calls[c].user].lastSeen
        /\ calls[c].at <= now /\ now <= calls[c].at + Pause
    /\ \A u, v \in User : Known(u) /\ limiters[u].limiter = limiters[v].limiter => u = v

\* When limiters were used last, and when the loop wakes next.
TimeInv ==
    /\ \A u \in User : Known(u) =>
        /\ limiters[u].lastSeen <= now
        /\ heap[limiters[u].limiter].last <= limiters[u].lastSeen + Pause
        /\ evict.tick <= limiters[u].lastSeen + 2 * Ttl
    /\ now <= evict.tick + Pause
    /\ evict.tick <= now + Ttl
    /\ evict.stage = "woken" => evict.tick <= evict.cutoff

\* What passed in the window and what is left in the bucket.
WindowInv ==
    \A u \in User :
        /\ now < since => spent[u] = 0
        /\ now >= since => spent[u] + BucketOf(u) <= Burst + (now - since)

LimiterInv == TypeOK /\ HeldInv /\ TimeInv

-----------------------------------------------------------------------------
(* The buckets                                                             *)

LEMMA TokensInRange ==
  ASSUME TypeOK, NEW l \in Limiter
  PROVE  Tokens(l) \in 0..Burst
<1>1. /\ heap[l].tokens \in 0..Burst /\ heap[l].last \in 0..now /\ now \in Nat
  BY DEF TypeOK
<1> QED
  BY <1>1, RateLimiterAssumption DEF Tokens

LEMMA BucketInRange ==
  ASSUME TypeOK, NEW u \in User
  PROVE  BucketOf(u) \in 0..Burst
<1>1. Known(u) => limiters[u].limiter \in Limiter
  BY DEF TypeOK, Entry, Known
<1> QED
  BY <1>1, TokensInRange, RateLimiterAssumption DEF BucketOf

\* A limiter not used for as long as a full bucket takes to fill is full.
LEMMA IdleIsFull ==
  ASSUME TypeOK, NEW l \in Limiter, now >= heap[l].last + Burst
  PROVE  Tokens(l) = Burst
<1>1. /\ heap[l].tokens \in 0..Burst /\ heap[l].last \in 0..now /\ now \in Nat
  BY DEF TypeOK
<1> QED
  BY <1>1, RateLimiterAssumption DEF Tokens

-----------------------------------------------------------------------------
(* Each action                                                             *)

\* A fetched limiter was in the map, or is a new and full one: no bucket
\* changes.
LEMMA FetchKeepsBuckets ==
  ASSUME LimiterInv, NEW c \in Call, NEW u \in User, Fetch(c, u), NEW v \in User
  PROVE  BucketOf(v)' = BucketOf(v)
<1>1. PICK l \in Limiter :
        /\ \/ Known(u) /\ l = limiters[u].limiter /\ UNCHANGED heap
           \/ ~Known(u) /\ Unused(l) /\ heap' = [heap EXCEPT ![l] = NewLimiter]
        /\ limiters' = [limiters EXCEPT ![u] = [limiter |-> l, lastSeen |-> now]]
  BY DEF Fetch
<1>2. now' = now /\ limiters \in [User -> Entry] /\ now \in Nat
      /\ heap \in [Limiter -> [tokens : 0..Burst, last : 0..now]]
  BY DEF Fetch, LimiterInv, TypeOK
<1>3. CASE Known(u)
  <2>1. limiters'[v].limiter = limiters[v].limiter /\ heap' = heap
    BY <1>1, <1>2, <1>3 DEF Entry
  <2> QED
    BY <2>1, <1>2 DEF BucketOf, Known, Tokens
<1>4. CASE ~Known(u) /\ v = u
  <2>1. limiters'[v].limiter = l /\ heap'[l] = NewLimiter
    BY <1>1, <1>2, <1>4
  <2> QED
    BY <2>1, <1>2, <1>4, RateLimiterAssumption DEF BucketOf, Known, Tokens, NewLimiter
<1>5. CASE ~Known(u) /\ v # u
  <2>1. limiters'[v] = limiters[v] /\ limiters[v].limiter # l
    BY <1>1, <1>2, <1>5 DEF Unused
  <2>2. Known(v) => limiters[v].limiter \in Limiter
    BY <1>2 DEF Known, Entry
  <2>3. Known(v) => heap'[limiters[v].limiter] = heap[limiters[v].limiter]
    BY <1>1, <1>2, <1>5, <2>1, <2>2
  <2> QED
    BY <2>1, <2>3, <1>2 DEF BucketOf, Known, Tokens
<1> QED
  BY <1>3, <1>4, <1>5

\* A request takes its token from the bucket of its user, and of no other.
LEMMA AllowTakes ==
  ASSUME LimiterInv, NEW c \in Call, Allow(c), NEW v \in User,
         NEW u \in User, u = calls[c].user, NEW l \in Limiter, l = calls[c].limiter
  PROVE  /\ BucketOf(u) = Tokens(l)
         /\ BucketOf(v)' = IF v = u /\ Tokens(l) > 0 THEN Tokens(l) - 1 ELSE BucketOf(v)
<1>1. /\ limiters' = limiters /\ now' = now /\ now \in Nat
      /\ limiters \in [User -> Entry]
      /\ heap \in [Limiter -> [tokens : 0..Burst, last : 0..now]]
  BY DEF Allow, LimiterInv, TypeOK
<1>2. Known(u) /\ limiters[u].limiter = l
  BY DEF Allow, Asks, LimiterInv, HeldInv
<1>3. BucketOf(u) = Tokens(l) /\ Tokens(l) \in 0..Burst
  BY <1>1, <1>2, TokensInRange DEF BucketOf, LimiterInv
<1>4. Tokens(l) > 0 => heap' = [heap EXCEPT ![l] = [tokens |-> Tokens(l) - 1, last |-> now]]
  BY DEF Allow
<1>5. ~(Tokens(l) > 0) => heap' = heap
  BY DEF Allow
<1>6. CASE ~(Tokens(l) > 0)
  BY <1>1, <1>3, <1>5, <1>6 DEF BucketOf, Known, Tokens
<1>7. CASE Tokens(l) > 0 /\ v = u
  <2>1. heap'[l] = [tokens |-> Tokens(l) - 1, last |-> now]
    BY <1>1, <1>4, <1>7
  <2>2. Tokens(l)' = Tokens(l) - 1
    <3> DEFINE t == Tokens(l)
    <3>1. t \in 0..Burst /\ heap'[l].tokens = t - 1 /\ heap'[l].last = now /\ t > 0
      BY <1>3, <1>7, <2>1
    <3> HIDE DEF t
    <3>2. Tokens(l)' = LET sum == heap'[l].tokens + (now' - heap'[l].last)
                       IN  IF sum > Burst THEN Burst ELSE sum
      BY DEF Tokens
    <3>3. Tokens(l)' = t - 1
      BY <3>1, <3>2, <1>1, RateLimiterAssumption
    <3> QED
      BY <3>3 DEF t
  <2>3. BucketOf(v)' = Tokens(l)'
    BY <1>1, <1>2, <1>7 DEF BucketOf, Known, Tokens
  <2> QED
    BY <1>3, <1>7, <2>2, <2>3
<1>8. CASE Tokens(l) > 0 /\ v # u
  <2>1. Known(v) => limiters[v].limiter \in Limiter /\ limiters[v].limiter # l
    BY <1>1, <1>2, <1>8 DEF Known, Entry, LimiterInv, HeldInv
  <2>2. Known(v) => heap'[limiters[v].limiter] = heap[limiters[v].limiter]
    BY <1>1, <1>4, <1>8, <2>1
  <2> QED
    BY <1>1, <1>3, <1>8, <2>2 DEF BucketOf, Known, Tokens
<1> QED
  BY <1>3, <1>6, <1>7, <1>8

\* Whom a sweep evicts is not being served, and has a full bucket.
LEMMA ExpiredIsIdle ==
  ASSUME LimiterInv, evict.stage = "woken", NEW u \in User, Expired(u)
  PROVE  /\ \A c \in Call : Asks(c) => calls[c].user # u
         /\ BucketOf(u) = Burst
<1>1. /\ now \in Nat /\ evict.cutoff \in 0..now /\ limiters[u].lastSeen \in Nat
      /\ limiters[u].limiter \in Limiter
      /\ heap[limiters[u].limiter].last \in 0..now
  BY DEF LimiterInv, TypeOK, Entry, Expired, Known
<1>2. now > limiters[u].lastSeen + Ttl
  BY <1>1, RateLimiterAssumption DEF Expired
<1>3. ASSUME NEW c \in Call, Asks(c), calls[c].user = u
      PROVE  FALSE
  <2>1. calls[c].at \in Nat
    BY <1>3 DEF Asks, LimiterInv, TypeOK, Asking, Idle
  <2>2. calls[c].at <= limiters[u].lastSeen /\ now <= calls[c].at + Pause
    BY <1>3 DEF LimiterInv, HeldInv
  <2> QED
    BY <1>1, <1>2, <2>1, <2>2, RateLimiterAssumption
<1>4. now >= heap[limiters[u].limiter].last + Burst
  <2>1. heap[limiters[u].limiter].last <= limiters[u].lastSeen + Pause
    BY DEF LimiterInv, TimeInv, Expired
  <2> QED
    BY <1>1, <1>2, <2>1, RateLimiterAssumption
<1> QED
  BY <1>1, <1>3, <1>4, IdleIsFull DEF BucketOf, Expired, LimiterInv

LEMMA SweepKeepsBuckets ==
  ASSUME LimiterInv, Sweep, NEW v \in User
  PROVE  BucketOf(v)' = BucketOf(v)
<1>1. /\ limiters'[v] = IF Expired(v) THEN NoEntry ELSE limiters[v]
      /\ heap' = heap /\ now' = now
  BY DEF Sweep
<1>2. CASE Expired(v)
  BY <1>1, <1>2, ExpiredIsIdle DEF BucketOf, Known, NoEntry, Sweep
<1>3. CASE ~Expired(v)
  BY <1>1, <1>3 DEF BucketOf, Known, Tokens
<1> QED
  BY <1>2, <1>3

\* As time passes, each bucket gains a token unless it is full.
LEMMA TimeFills ==
  ASSUME LimiterInv, TimePasses, NEW v \in User
  PROVE  BucketOf(v)' = IF BucketOf(v) < Burst THEN BucketOf(v) + 1 ELSE Burst
<1>1. /\ limiters' = limiters /\ heap' = heap /\ now' = now + 1 /\ now \in Nat
      /\ Known(v) => limiters[v].limiter \in Limiter
      /\ Known(v) => heap[limiters[v].limiter] \in [tokens : 0..Burst, last : 0..now]
  BY DEF TimePasses, LimiterInv, TypeOK, Entry, Known
<1> QED
  BY <1>1, RateLimiterAssumption DEF BucketOf, Known, Tokens

-----------------------------------------------------------------------------
(* The invariant                                                           *)

LEMMA InitInvariant == Init => LimiterInv /\ WindowInv
<1> SUFFICES ASSUME Init
             PROVE  LimiterInv /\ WindowInv
  OBVIOUS
<1>1. TypeOK
  BY RateLimiterAssumption DEF Init, TypeOK, Entry, NoEntry, Idle
<1>2. HeldInv
  BY DEF Init, HeldInv, Asks, Idle, Known, NoEntry
<1>3. TimeInv
  BY RateLimiterAssumption DEF Init, TimeInv, Known, NoEntry
<1>4. \A u \in User : BucketOf(u) = Burst
  BY DEF Init, BucketOf, Known, NoEntry
<1>5. WindowInv
  <2> SUFFICES ASSUME NEW u \in User
               PROVE  /\ now < since => spent[u] = 0
                      /\ now >= since => spent[u] + BucketOf(u) <= Burst + (now - since)
    BY DEF WindowInv
  <2>1. /\ now = 0 /\ since \in Nat /\ spent[u] = 0 /\ BucketOf(u) = Burst
        /\ Burst \in Nat
    BY <1>1, <1>4, RateLimiterAssumption DEF Init, TypeOK
  <2> QED
    BY <2>1
<1> QED
  BY <1>1, <1>2, <1>3, <1>5 DEF LimiterInv

LEMMA FetchInvariant ==
  ASSUME LimiterInv, NEW c \in Call, NEW u \in User, Fetch(c, u)
  PROVE  LimiterInv'
<1> USE DEF LimiterInv
<1>1. PICK l \in Limiter :
        /\ \/ Known(u) /\ l = limiters[u].limiter /\ UNCHANGED heap
           \/ ~Known(u) /\ Unused(l) /\ heap' = [heap EXCEPT ![l] = NewLimiter]
        /\ limiters' = [limiters EXCEPT ![u] = [limiter |-> l, lastSeen |-> now]]
        /\ calls' = [calls EXCEPT ![c] =
            [stage |-> "asking", user |-> u, limiter |-> l, at |-> now]]
  BY DEF Fetch
<1>2. now' = now /\ evict' = evict /\ since' = since /\ spent' = spent /\ now \in Nat
  BY DEF Fetch, TypeOK
<1>3. TypeOK'
  <2>1. heap' \in [Limiter -> [tokens : 0..Burst, last : 0..now]]
    BY <1>1, <1>2, RateLimiterAssumption DEF TypeOK, NewLimiter
  <2>2. limiters' \in [User -> Entry]
    BY <1>1, <1>2 DEF TypeOK, Entry
  <2>3. calls' \in [Call -> Asking \cup [stage : {"allowed", "refused"}] \cup {Idle}]
    BY <1>1, <1>2 DEF TypeOK, Asking
  <2> QED
    BY <1>2, <2>1, <2>2, <2>3 DEF TypeOK
<1>4. /\ limiters'[u] = [limiter |-> l, lastSeen |-> now]
      /\ \A v \in User : v # u => limiters'[v] = limiters[v]
      /\ Known(u) => limiters[u].limiter = l
      /\ l # NoLimiter
  BY <1>1, RateLimiterAssumption DEF TypeOK
<1>5. \A v \in User : v # u => limiters[v].limiter # l
  BY <1>1 DEF HeldInv, Unused, Known
<1>6. HeldInv'
  <2>1. ASSUME NEW d \in Call, Asks(d)'
        PROVE  /\ Known(calls[d].user)'
               /\ limiters'[calls'[d].user].limiter = calls'[d].limiter
               /\ calls'[d].at <= limiters'[calls'[d].user].lastSeen
               /\ calls'[d].at <= now' /\ now' <= calls'[d].at + Pause
    <3>1. CASE d = c
      <4>1. calls'[d] = [stage |-> "asking", user |-> u, limiter |-> l, at |-> now]
        BY <1>1, <3>1 DEF TypeOK
      <4> QED
        BY <1>2, <1>4, <4>1, RateLimiterAssumption DEF Known
    <3>2. CASE d # c
      <4>1. calls'[d] = calls[d] /\ Asks(d)
        BY <1>1, <2>1, <3>2 DEF TypeOK, Asks
      <4>2. /\ Known(calls[d].user)
            /\ limiters[calls[d].user].limiter = calls[d].limiter
            /\ calls[d].at <= limiters[calls[d].user].lastSeen
            /\ calls[d].at <= now /\ now <= calls[d].at + Pause
        BY <4>1 DEF HeldInv
      <4>3. calls[d].user \in User
        BY <4>1 DEF TypeOK, Asks, Asking, Idle
      <4> QED
        BY <1>2, <1>4, <4>1, <4>2, <4>3 DEF Known
    <3> QED
      BY <3>1, <3>2
  <2>2. ASSUME NEW v \in User, NEW w \in User, Known(v)',
               limiters'[v].limiter = limiters'[w].limiter
        PROVE  v = w
    BY <2>2, <1>4, <1>5 DEF HeldInv, Known
  <2> QED
    BY <2>1, <2>2 DEF HeldInv
<1>7. TimeInv'
  <2>1. ASSUME NEW v \in User, Known(v)'
        PROVE  /\ limiters'[v].lastSeen <= now'
               /\ heap'[limiters'[v].limiter].last <= limiters'[v].lastSeen + Pause
               /\ evict'.tick <= limiters'[v].lastSeen + 2 * Ttl
    <3>1. CASE v = u
      <4>1. heap'[l].last \in 0..now /\ evict.tick \in Nat /\ evict.tick <= now + Ttl
        BY <1>2, <1>3 DEF TypeOK, TimeInv
      <4> QED
        BY <1>2, <1>4, <3>1, <4>1, RateLimiterAssumption
    <3>2. CASE v # u
      <4>1. limiters'[v] = limiters[v] /\ Known(v) /\ limiters[v].limiter \in Limiter
        BY <1>4, <2>1, <3>2 DEF Known, TypeOK, Entry
      <4>2. heap'[limiters[v].limiter] = heap[limiters[v].limiter]
        BY <1>1, <1>5, <3>2, <4>1 DEF TypeOK
      <4> QED
        BY <1>2, <4>1, <4>2 DEF TimeInv
    <3> QED
      BY <3>1, <3>2
  <2> QED
    BY <1>2, <2>1 DEF TimeInv
<1> QED
  BY <1>3, <1>6, <1>7

LEMMA AllowInvariant ==
  ASSUME LimiterInv, NEW c \in Call, Allow(c)
  PROVE  LimiterInv'
<1> USE DEF LimiterInv
<1>1. PICK u \in User, l \in Limiter : u = calls[c].user /\ l = calls[c].limiter
  BY DEF Allow, TypeOK, Asking, Idle
<1>2. /\ limiters' = limiters /\ evict' = evict /\ since' = since
      /\ now' = now /\ now \in Nat
      /\ heap' = heap \/ heap' = [heap EXCEPT ![l] = [tokens |-> Tokens(l) - 1, last |-> now]]
      /\ heap' # heap => Tokens(l) > 0
      /\ \E s \in {"allowed", "refused"} : calls' = [calls EXCEPT ![c] = [stage |-> s]]
      /\ spent' = spent \/ spent' = [spent EXCEPT ![u] = @ + 1]
  BY <1>1 DEF Allow, TypeOK
<1>3. Tokens(l) \in 0..Burst
  BY TokensInRange
<1>4. TypeOK'
  <2>1. heap' \in [Limiter -> [tokens : 0..Burst, last : 0..now]]
    BY <1>2, <1>3, RateLimiterAssumption DEF TypeOK
  <2>2. calls' \in [Call -> Asking \cup [stage : {"allowed", "refused"}] \cup {Idle}]
    BY <1>2 DEF TypeOK
  <2>3. spent' \in [User -> Nat]
    BY <1>2 DEF TypeOK
  <2> QED
    BY <1>2, <2>1, <2>2, <2>3 DEF TypeOK
<1>5. \A d \in Call : Asks(d)' => Asks(d) /\ calls'[d] = calls[d]
  BY <1>2 DEF Asks, TypeOK
<1>6. HeldInv'
  BY <1>2, <1>5 DEF HeldInv, Known
<1>7. TimeInv'
  <2>1. ASSUME NEW v \in User, Known(v)
        PROVE  heap'[limiters[v].limiter].last <= limiters[v].lastSeen + Pause
    <3>1. limiters[v].limiter \in Limiter /\ limiters[v].lastSeen \in Nat
      BY <2>1 DEF TypeOK, Entry, Known
    <3>2. CASE limiters[v].limiter = l
      <4>1. v = u /\ now <= calls[c].at + Pause /\ calls[c].at <= limiters[u].lastSeen
        BY <1>1, <2>1, <3>2 DEF Allow, Asks, HeldInv
      <4>2. calls[c].at \in Nat
        BY DEF Allow, TypeOK, Asking, Idle
      <4>3. heap'[l].last \in 0..now
        BY <1>2, <1>4 DEF TypeOK
      <4> QED
        BY <1>2, <3>1, <3>2, <4>1, <4>2, <4>3, RateLimiterAssumption
    <3>3. CASE limiters[v].limiter # l
      <4>1. heap'[limiters[v].limiter] = heap[limiters[v].limiter]
        BY <1>2, <3>1, <3>3 DEF TypeOK
      <4> QED
        BY <2>1, <4>1 DEF TimeInv
    <3> QED
      BY <3>2, <3>3
  <2> QED
    BY <1>2, <2>1 DEF TimeInv, Known
<1> QED
  BY <1>4, <1>6, <1>7

LEMMA SweepInvariant ==
  ASSUME LimiterInv, Sweep
  PROVE  LimiterInv'
<1> USE DEF LimiterInv
<1>1. /\ \A u \in User : limiters'[u] = IF Expired(u) THEN NoEntry ELSE limiters[u]
      /\ limiters' = [u \in User |-> IF Expired(u) THEN NoEntry ELSE limiters[u]]
      /\ evict' = [stage |-> "waiting", tick |-> evict.tick + Ttl, cutoff |-> 0]
      /\ now' = now /\ heap' = heap /\ calls' = calls /\ since' = since /\ spent' = spent
      /\ evict.stage = "woken"
  BY DEF Sweep
<1>2. now \in Nat /\ evict.tick \in Nat /\ evict.cutoff \in 0..now
  BY DEF TypeOK
<1>3. TypeOK'
  <2>1. NoEntry \in Entry
    BY DEF NoEntry, Entry
  <2>2. limiters' \in [User -> Entry]
    BY <1>1, <2>1 DEF TypeOK
  <2>3. evict' \in [stage : {"waiting", "woken"}, tick : Nat, cutoff : 0..now]
    BY <1>1, <1>2, RateLimiterAssumption
  <2> QED
    BY <1>1, <2>2, <2>3 DEF TypeOK
<1>4. \A u \in User : Known(u)' => Known(u) /\ ~Expired(u) /\ limiters'[u] = limiters[u]
  BY <1>1 DEF Known, NoEntry
<1>5. \A c \in Call : Asks(c) => limiters'[calls[c].user] = limiters[calls[c].user]
  BY <1>1, ExpiredIsIdle DEF Asks, TypeOK, Asking, Idle
<1>6. HeldInv'
  <2>1. \A u, v \in User : Known(u)' /\ limiters'[u].limiter = limiters'[v].limiter => u = v
    <3> SUFFICES ASSUME NEW u \in User, NEW v \in User, Known(u)',
                        limiters'[u].limiter = limiters'[v].limiter
                 PROVE  u = v
      OBVIOUS
    <3>1. Known(u) /\ Known(v)' /\ limiters'[u] = limiters[u]
      BY <1>4 DEF Known
    <3>2. limiters'[v] = limiters[v]
      BY <1>4, <3>1
    <3> QED
      BY <3>1, <3>2 DEF HeldInv
  <2> QED
    BY <1>1, <1>5, <2>1 DEF HeldInv, Asks, Known
<1>7. TimeInv'
  <2>1. evict.tick <= evict.cutoff /\ now <= evict.tick + Pause
    BY <1>1 DEF TimeInv
  <2>2. ASSUME NEW u \in User, Known(u)'
        PROVE  /\ limiters'[u].lastSeen <= now
               /\ heap[limiters'[u].limiter].last <= limiters'[u].lastSeen + Pause
               /\ evict.tick + Ttl <= limiters'[u].lastSeen + 2 * Ttl
    <3>1. Known(u) /\ ~Expired(u) /\ limiters'[u] = limiters[u]
      BY <1>4, <2>2
    <3>2. limiters[u].lastSeen \in Nat /\ limiters[u].lastSeen + Ttl >= evict.cutoff
      BY <3>1, <1>2, RateLimiterAssumption DEF Expired, TypeOK, Entry
    <3> QED
      BY <1>2, <2>1, <3>1, <3>2, RateLimiterAssumption DEF TimeInv
  <2> QED
    BY <1>1, <1>2, <2>1, <2>2, RateLimiterAssumption DEF TimeInv
<1> QED
  BY <1>3, <1>6, <1>7

LEMMA TimePassesInvariant ==
  ASSUME LimiterInv, TimePasses
  PROVE  LimiterInv'
<1> USE DEF LimiterInv
<1>1. /\ now' = now + 1 /\ now \in Nat /\ evict.tick \in Nat
      /\ limiters' = limiters /\ heap' = heap /\ calls' = calls /\ evict' = evict
      /\ since' = since /\ spent' = spent
  BY DEF TimePasses, TypeOK
<1>2. TypeOK'
  <2>1. 0..now \subseteq 0..now'
    BY <1>1
  <2>2. /\ heap \in [Limiter -> [tokens : 0..Burst, last : 0..now']]
        /\ evict \in [stage : {"waiting", "woken"}, tick : Nat, cutoff : 0..now']
    BY <2>1 DEF TypeOK
  <2> QED
    BY <1>1, <2>2 DEF TypeOK
<1>3. HeldInv'
  <2>1. ASSUME NEW c \in Call, Asks(c)
        PROVE  calls[c].at <= now + 1 /\ now + 1 <= calls[c].at + Pause
    <3>1. calls[c].at \in Nat /\ calls[c].at <= now /\ now < calls[c].at + Pause
      BY <2>1 DEF Asks, TypeOK, Asking, Idle, HeldInv, TimePasses
    <3> QED
      BY <1>1, <3>1, RateLimiterAssumption
  <2> QED
    BY <1>1, <2>1 DEF HeldInv, Asks, Known
<1>4. TimeInv'
  <2>1. now + 1 <= evict.tick + Pause /\ evict.tick <= now + 1 + Ttl
    BY <1>1, RateLimiterAssumption DEF TimePasses, TimeInv
  <2>2. ASSUME NEW u \in User, Known(u)
        PROVE  limiters[u].lastSeen <= now + 1
    BY <1>1, <2>2 DEF TypeOK, Entry, TimeInv
  <2> QED
    BY <1>1, <2>1, <2>2 DEF TimeInv, Known
<1> QED
  BY <1>2, <1>3, <1>4

LEMMA LimiterInvariant == LimiterInv /\ [Next]_vars => LimiterInv'
<1> SUFFICES ASSUME LimiterInv, [Next]_vars
             PROVE  LimiterInv'
  OBVIOUS
<1>1. ASSUME NEW c \in Call, NEW u \in User, Fetch(c, u)
      PROVE  LimiterInv'
  BY <1>1, FetchInvariant
<1>2. ASSUME NEW c \in Call, Allow(c)
      PROVE  LimiterInv'
  BY <1>2, AllowInvariant
<1>3. ASSUME NEW c \in Call, Finish(c)
      PROVE  LimiterInv'
  <2>1. \A d \in Call : Asks(d)' => Asks(d) /\ calls'[d] = calls[d]
    BY <1>3 DEF Finish, Asks, LimiterInv, TypeOK, Idle
  <2>2. TypeOK'
    BY <1>3 DEF Finish, LimiterInv, TypeOK
  <2>3. HeldInv' /\ TimeInv'
    BY <1>3, <2>1 DEF Finish, LimiterInv, HeldInv, TimeInv, Known
  <2> QED
    BY <2>2, <2>3 DEF LimiterInv
<1>4. CASE Wake
  <2>1. TypeOK'
    <3>1. /\ evict \in [stage : {"waiting", "woken"}, tick : Nat, cutoff : 0..now]
          /\ now \in Nat /\ evict' = [evict EXCEPT !.stage = "woken", !.cutoff = now]
      BY <1>4 DEF Wake, LimiterInv, TypeOK
    <3>2. evict' = [stage |-> "woken", tick |-> evict.tick, cutoff |-> now]
      BY <3>1
    <3>3. evict' \in [stage : {"waiting", "woken"}, tick : Nat, cutoff : 0..now]
      BY <3>1, <3>2
    <3> QED
      BY <1>4, <3>3 DEF Wake, LimiterInv, TypeOK
  <2>2. HeldInv' /\ TimeInv'
    BY <1>4 DEF Wake, LimiterInv, HeldInv, TimeInv, Known, Asks, TypeOK
  <2> QED
    BY <2>1, <2>2 DEF LimiterInv
<1>5. CASE Sweep
  BY <1>5, SweepInvariant
<1>6. CASE TimePasses
  BY <1>6, TimePassesInvariant
<1>7. CASE UNCHANGED vars
  BY <1>7 DEF vars, LimiterInv, TypeOK, HeldInv, TimeInv, Asks, Known
<1> QED
  BY <1>1, <1>2, <1>3, <1>4, <1>5, <1>6, <1>7 DEF Next

\* What leaves the buckets and the counts alone leaves WindowInv alone.
LEMMA WindowKept ==
  ASSUME WindowInv, \A v \in User : BucketOf(v)' = BucketOf(v),
         UNCHANGED <<now, since, spent>>
  PROVE  WindowInv'
<1> SUFFICES ASSUME NEW v \in User
             PROVE  /\ now < since => spent[v] = 0
                    /\ now >= since => spent[v] + BucketOf(v)' <= Burst + (now - since)
  BY DEF WindowInv
<1> QED
  BY DEF WindowInv

LEMMA WindowInvariant == LimiterInv /\ WindowInv /\ [Next]_vars => WindowInv'
<1> SUFFICES ASSUME LimiterInv, WindowInv, [Next]_vars
             PROVE  WindowInv'
  OBVIOUS
<1>1. ASSUME NEW c \in Call, NEW u \in User, Fetch(c, u)
      PROVE  WindowInv'
  BY <1>1, FetchKeepsBuckets, WindowKept DEF Fetch
<1>2. ASSUME NEW c \in Call, Allow(c)
      PROVE  WindowInv'
  <2>1. PICK u \in User, l \in Limiter : u = calls[c].user /\ l = calls[c].limiter
    BY <1>2 DEF LimiterInv, Allow, TypeOK, Asking, Idle
  <2> SUFFICES ASSUME NEW v \in User
               PROVE  /\ now' < since' => spent'[v] = 0
                      /\ now' >= since' =>
                           spent'[v] + BucketOf(v)' <= Burst + (now' - since')
    BY DEF WindowInv
  <2>2. /\ now' = now /\ now \in Nat /\ since' = since /\ since \in Nat
        /\ spent[v] \in Nat /\ Burst \in Nat
    BY <1>2, RateLimiterAssumption DEF Allow, LimiterInv, TypeOK
  <2>3. spent'[v] = IF v = u /\ Tokens(l) > 0 /\ ~(now < since)
                    THEN spent[v] + 1 ELSE spent[v]
    BY <1>2, <2>1 DEF Allow, LimiterInv, TypeOK
  <2>4. BucketOf(v)' = IF v = u /\ Tokens(l) > 0 THEN Tokens(l) - 1 ELSE BucketOf(v)
    BY <1>2, <2>1, AllowTakes
  <2>5. BucketOf(u) = Tokens(l) /\ Tokens(l) \in 0..Burst /\ BucketOf(v) \in 0..Burst
    BY <1>2, <2>1, AllowTakes, TokensInRange, BucketInRange DEF LimiterInv
  <2>6. /\ now < since => spent[v] = 0
        /\ now >= since => spent[v] + BucketOf(v) <= Burst + (now - since)
    BY DEF WindowInv
  <2>7. CASE v = u /\ Tokens(l) > 0
    <3>1. BucketOf(v)' = BucketOf(v) - 1
      BY <2>4, <2>5, <2>7
    <3> QED
      BY <2>2, <2>3, <2>5, <2>6, <2>7, <3>1
  <2>8. CASE ~(v = u /\ Tokens(l) > 0)
    <3>1. BucketOf(v)' = BucketOf(v) /\ spent'[v] = spent[v]
      BY <2>3, <2>4, <2>8
    <3> QED
      BY <2>2, <2>6, <3>1
  <2> QED
    BY <2>7, <2>8
<1>3. ASSUME NEW c \in Call, Finish(c)
      PROVE  WindowInv'
  BY <1>3, WindowKept DEF Finish, BucketOf, Known, Tokens
<1>4. CASE Wake
  BY <1>4, WindowKept DEF Wake, BucketOf, Known, Tokens
<1>5. CASE Sweep
  BY <1>5, SweepKeepsBuckets, WindowKept DEF Sweep
<1>6. CASE TimePasses
  <2> SUFFICES ASSUME NEW v \in User
               PROVE  /\ now' < since' => spent'[v] = 0
                      /\ now' >= since' =>
                           spent'[v] + BucketOf(v)' <= Burst + (now' - since')
    BY DEF WindowInv
  <2>1. /\ now' = now + 1 /\ now \in Nat /\ since' = since /\ since \in Nat
        /\ spent' = spent /\ spent[v] \in Nat /\ Burst \in Nat
    BY <1>6, RateLimiterAssumption DEF TimePasses, LimiterInv, TypeOK
  <2>2. BucketOf(v)' = IF BucketOf(v) < Burst THEN BucketOf(v) + 1 ELSE Burst
    BY <1>6, TimeFills
  <2>3. BucketOf(v) \in 0..Burst
    BY BucketInRange DEF LimiterInv
  <2>4. BucketOf(v)' <= BucketOf(v) + 1 /\ BucketOf(v)' \in 0..Burst
    BY <2>1, <2>2, <2>3
  <2>5. /\ now < since => spent[v] = 0
        /\ now >= since => spent[v] + BucketOf(v) <= Burst + (now - since)
    BY DEF WindowInv
  <2> QED
    BY <2>1, <2>3, <2>4, <2>5
<1>7. CASE UNCHANGED vars
  BY <1>7, WindowKept DEF vars, BucketOf, Known, Tokens
<1> QED
  BY <1>1, <1>2, <1>3, <1>4, <1>5, <1>6, <1>7 DEF Next

-----------------------------------------------------------------------------
(* The theorems                                                            *)

\* The map, the limiters, the requests and the loop stay well formed, and no
\* limiter ever holds more than Burst tokens (allow, evictLoop).
THEOREM TypeCorrect == Spec => []TypeOK
<1>1. LimiterInv => TypeOK
  BY DEF LimiterInv
<1> QED
  BY <1>1, InitInvariant, LimiterInvariant, PTL DEF Spec

\* In no window of time, wherever it begins and however often the user's
\* limiter is evicted within it, do more requests pass than the rate and the
\* burst allow (allow, evictLoop).
THEOREM WindowIsBounded == Spec => []WindowBound
<1>1. LimiterInv /\ WindowInv => WindowBound
  <2> SUFFICES ASSUME LimiterInv, WindowInv, NEW u \in User, now >= since
               PROVE  spent[u] <= Burst + (now - since)
    BY DEF WindowBound
  <2>1. /\ now \in Nat /\ since \in Nat /\ spent[u] \in Nat /\ Burst \in Nat
        /\ BucketOf(u) \in 0..Burst
    BY BucketInRange, RateLimiterAssumption DEF LimiterInv, TypeOK
  <2> QED
    BY <2>1 DEF WindowInv
<1> QED
  BY <1>1, InitInvariant, LimiterInvariant, WindowInvariant, PTL DEF Spec

\* A user not seen for two periods of evictLoop is no longer in the map: what
\* the map holds is bounded by who wrote of late.
THEOREM IdleEntriesAreEvicted == Spec => []IdleEntriesLeave
<1>1. LimiterInv => IdleEntriesLeave
  <2> SUFFICES ASSUME LimiterInv, NEW u \in User, Known(u)
               PROVE  now <= limiters[u].lastSeen + 2 * Ttl + Pause
    BY DEF IdleEntriesLeave
  <2>1. now \in Nat /\ evict.tick \in Nat /\ limiters[u].lastSeen \in Nat
    BY DEF LimiterInv, TypeOK, Entry, Known
  <2>2. now <= evict.tick + Pause /\ evict.tick <= limiters[u].lastSeen + 2 * Ttl
    BY DEF LimiterInv, TimeInv
  <2> QED
    BY <2>1, <2>2, RateLimiterAssumption
<1> QED
  BY <1>1, InitInvariant, LimiterInvariant, PTL DEF Spec

\* Fetching a limiter under the mutex and asking it after, evicting it and
\* making it anew, are together one bucket of tokens for each user, for ever
\* (allow, evictLoop, the library's limiter).
THEOREM LimiterImplementsTokenBuckets == Spec => ImplementsTokenBuckets
<1>1. Init => Buckets!Init
  <2> SUFFICES ASSUME Init
               PROVE  Buckets!Init
    OBVIOUS
  <2>1. \A u \in User : BucketOf(u) = Burst
    BY DEF Init, BucketOf, Known, NoEntry
  <2>2. \A c \in Call : RequestOf(c) = [stage |-> "none"]
    BY DEF Init, RequestOf, Idle
  <2> QED
    BY <2>1, <2>2 DEF Buckets!Init, Buckets!None
<1>2. LimiterInv /\ [Next]_vars => [Buckets!Next]_(Buckets!vars)
  <2> DEFINE tokens == [u \in User |-> BucketOf(u)]
             requests == [c \in Call |-> RequestOf(c)]
  <2> SUFFICES ASSUME LimiterInv, [Next]_vars
               PROVE  Buckets!Next \/ (tokens' = tokens /\ requests' = requests)
    BY DEF Buckets!vars
  <2>1. ASSUME NEW c \in Call, NEW u \in User, Fetch(c, u)
        PROVE  Buckets!Arrive(c, u)
    <3>1. tokens' = tokens
      BY <2>1, FetchKeepsBuckets
    <3>2. PICK l \in Limiter : calls' = [calls EXCEPT ![c] =
                [stage |-> "asking", user |-> u, limiter |-> l, at |-> now]]
      BY <2>1 DEF Fetch
    <3>3. /\ calls[c] = Idle
          /\ calls \in [Call -> Asking \cup [stage : {"allowed", "refused"}] \cup {Idle}]
      BY <2>1 DEF Fetch, LimiterInv, TypeOK
    <3>4. requests[c] = [stage |-> "none"]
      BY <3>3 DEF RequestOf, Idle
    <3>5. \A d \in Call : RequestOf(d)' = IF d = c THEN [stage |-> "asking", user |-> u]
                                        ELSE RequestOf(d)
      BY <3>2, <3>3 DEF RequestOf
    <3> QED
      BY <3>1, <3>4, <3>5 DEF Buckets!Arrive, Buckets!None, Buckets!Asking
  <2>2. ASSUME NEW c \in Call, Allow(c)
        PROVE  \E u \in User : Buckets!Pass(c, u) \/ Buckets!Refuse(c, u)
    <3>1. PICK u \in User, l \in Limiter : u = calls[c].user /\ l = calls[c].limiter
      BY <2>2 DEF LimiterInv, Allow, TypeOK, Asking, Idle
    <3>2. BucketOf(u) = Tokens(l) /\ Tokens(l) \in 0..Burst
      BY <2>2, <3>1, AllowTakes, TokensInRange DEF LimiterInv
    <3>3. requests[c] = [stage |-> "asking", user |-> u]
      BY <2>2, <3>1 DEF Allow, RequestOf
    <3>4. \A v \in User : BucketOf(v)' = IF v = u /\ Tokens(l) > 0
                                        THEN Tokens(l) - 1 ELSE BucketOf(v)
      BY <2>2, <3>1, AllowTakes
    <3>5. \A s \in {"allowed", "refused"} : calls' = [calls EXCEPT ![c] = [stage |-> s]] =>
            \A d \in Call : RequestOf(d)' = IF d = c THEN [stage |-> s] ELSE RequestOf(d)
      BY <2>2 DEF RequestOf, LimiterInv, TypeOK
    <3>6. CASE Tokens(l) > 0
      <4>1. \A d \in Call : RequestOf(d)' = IF d = c THEN [stage |-> "allowed"] ELSE RequestOf(d)
        BY <2>2, <3>1, <3>5, <3>6 DEF Allow
      <4>2. requests' = [requests EXCEPT ![c] = [stage |-> "allowed"]]
        BY <4>1
      <4>3. tokens' = [tokens EXCEPT ![u] = @ - 1]
        BY <3>2, <3>4, <3>6
      <4>4. tokens[u] > 0
        BY <3>2, <3>6
      <4> QED
        BY <3>3, <4>2, <4>3, <4>4 DEF Buckets!Pass, Buckets!Asking
    <3>7. CASE ~(Tokens(l) > 0)
      <4>1. \A d \in Call : RequestOf(d)' = IF d = c THEN [stage |-> "refused"] ELSE RequestOf(d)
        BY <2>2, <3>1, <3>5, <3>7 DEF Allow
      <4>2. requests' = [requests EXCEPT ![c] = [stage |-> "refused"]]
        BY <4>1
      <4>3. tokens' = tokens
        BY <3>4, <3>7
      <4>4. tokens[u] = 0
        BY <3>2, <3>7, RateLimiterAssumption
      <4> QED
        BY <3>3, <4>2, <4>3, <4>4 DEF Buckets!Refuse, Buckets!Asking
    <3> QED
      BY <3>6, <3>7
  <2>3. ASSUME NEW c \in Call, Finish(c)
        PROVE  Buckets!Leave(c)
    <3>1. tokens' = tokens
      BY <2>3 DEF Finish, BucketOf, Known, Tokens
    <3>2. \A d \in Call : RequestOf(d)' = IF d = c THEN [stage |-> "none"] ELSE RequestOf(d)
      BY <2>3 DEF Finish, RequestOf, LimiterInv, TypeOK, Idle
    <3>3. requests[c].stage \in {"allowed", "refused"}
      BY <2>3 DEF Finish, RequestOf
    <3> QED
      BY <3>1, <3>2, <3>3 DEF Buckets!Leave, Buckets!None
  <2>4. CASE Wake
    BY <2>4 DEF Wake, BucketOf, Known, Tokens, RequestOf
  <2>5. CASE Sweep
    <3>1. tokens' = tokens
      BY <2>5, SweepKeepsBuckets
    <3> QED
      BY <2>5, <3>1 DEF Sweep, RequestOf
  <2>6. CASE TimePasses
    <3>1. tokens' = [u \in User |-> IF tokens[u] < Burst THEN tokens[u] + 1 ELSE Burst]
      BY <2>6, TimeFills
    <3>2. requests' = requests
      BY <2>6 DEF TimePasses, RequestOf
    <3> QED
      BY <3>1, <3>2 DEF Buckets!Next, Buckets!Gain
  <2>7. CASE UNCHANGED vars
    BY <2>7 DEF vars, BucketOf, Known, Tokens, RequestOf
  <2> HIDE DEF tokens, requests
  <2> QED
    BY <2>1, <2>2, <2>3, <2>4, <2>5, <2>6, <2>7 DEF Next, Buckets!Next
<1> QED
  BY <1>1, <1>2, InitInvariant, LimiterInvariant, PTL
     DEF Spec, ImplementsTokenBuckets, Buckets!Spec

=============================================================================
