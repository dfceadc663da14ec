----------------------------- MODULE RateLimiter -----------------------------
(***************************************************************************)
(* The token-bucket rate limiter (src/rate_limit): `check` on the request  *)
(* threads of the proxy and `evict_stale` on its timer.  Both read the     *)
(* clock before they take the lock of a shard, so a thread that waits for  *)
(* the lock works with an old time.                                        *)
(*                                                                         *)
(* Tokens are integers in units of 1 / Scale of a token; the clock ticks   *)
(* in seconds.  Every key has a shard of its own.                          *)
(***************************************************************************)
EXTENDS Integers, FiniteSets, Sequences

CONSTANTS
    Callers,        \* request threads
    Clients,        \* requests by what they carry: [cookie, bearer, ip]
    BypassCidrs,    \* RateLimitConfig::bypass_cidrs: [family, net]
    Scale,          \* units per token
    Burst,          \* tokens per tier, a function of Tiers
    Rate,           \* units per second and tier
    StaleAfter,     \* stale_after_secs
    MaxClock        \* bound: seconds a behaviour lasts

Tiers == {"authenticated", "unauthenticated"}

ASSUME BucketAssumption ==
    /\ Scale \in Nat \ {0}
    /\ Burst \in [Tiers -> Nat \ {0}]
    /\ Rate \in [Tiers -> Nat \ {0}]
    /\ StaleAfter \in Nat

VARIABLES
    clock,          \* Instant::now()
    buckets,        \* per key: a bucket, or NoBucket
    thread,         \* per thread: the call of check() in progress
    sweep,          \* evict_stale: the time it read and the shards left
    granted,        \* ghost: requests allowed per key
    credited,       \* ghost: time up to which a key has been credited tokens
    rewound,        \* ghost: seconds credited more than once
    evicted,        \* ghost: times the bucket of a key was evicted
    promise         \* ghost: per key, when the last rejection said to come back

rlvars == <<clock, buckets, thread, sweep, granted, credited, rewound, evicted, promise>>

NoBucket == [tokens |-> -1, last_refill |-> 0]
Idle == [pc |-> "idle"]
NoPromise == -1

MaxI(a, b) == IF a >= b THEN a ELSE b
MinI(a, b) == IF a <= b THEN a ELSE b

-----------------------------------------------------------------------------
(* Keys and bypass. *)

NoValue == "none"

\* extract_key: the session cookie, then the bearer token (an empty one does not
\* count), then the address of the client.
ExtractKey(c) ==
    IF c.cookie # NoValue THEN <<"Identity", c.cookie>>
    ELSE IF c.bearer \notin {NoValue, ""} THEN <<"Identity", c.bearer>>
    ELSE <<"Ip", c.ip>>

TierOf(key) == IF key[1] = "Identity" THEN "authenticated" ELSE "unauthenticated"

\* An address is [family, bits]; an IPv4-mapped IPv6 address has family "mapped".
Normalise(ip) == IF ip.family = "mapped" THEN [ip EXCEPT !.family = "v4"] ELSE ip

\* CidrBlock::contains, for a block given by its leading bits.
CidrContains(cidr, ip) ==
    LET n == Normalise(ip)
    IN  /\ Normalise(cidr).family = n.family
        /\ SubSeq(n.bits, 1, Len(cidr.bits)) = cidr.bits

IsBypassed(ip) == \E c \in BypassCidrs : CidrContains(c, ip)

\* The keys that may have a bucket.
Keys == {ExtractKey(c) : c \in {d \in Clients : ~IsBypassed(d.ip)}}

-----------------------------------------------------------------------------
(* check *)

\* The prologue of check(): a bypassed client is allowed at once, any other call
\* reads the clock and goes on to wait for the shard.
Begin(t, c) ==
    /\ thread[t] = Idle
    /\ thread' = IF IsBypassed(c.ip) THEN thread
                 ELSE [thread EXCEPT ![t] = [pc |-> "lock", key |-> ExtractKey(c), now |-> clock]]
    /\ UNCHANGED <<clock, buckets, sweep, granted, credited, rewound, evicted, promise>>

\* Entry::or_insert_with: a new bucket is full.
BucketOf(key, now) ==
    IF buckets[key] = NoBucket
    THEN [tokens |-> Burst[TierOf(key)] * Scale, last_refill |-> now]
    ELSE buckets[key]

\* Refill: duration_since saturates at zero when `now` is older than the bucket,
\* and last_refill becomes `now` all the same.
Refill(b, tier, now) ==
    [tokens |-> MinI(b.tokens + MaxI(0, now - b.last_refill) * Rate[tier], Burst[tier] * Scale),
     last_refill |-> now]

\* Mutant of RetryAfter: rounded down.
RetryFloor(tokens, tier) == MaxI((Scale - tokens) \div Rate[tier], 1)

RetryAfter(tokens, tier) ==
    MaxI((Scale - tokens + Rate[tier] - 1) \div Rate[tier], 1)

\* The critical section of check(), with the shard locked.
Check(t) ==
    LET key  == thread[t].key
        now  == thread[t].now
        tier == TierOf(key)
        b    == Refill(BucketOf(key, now), tier, now)
        ok   == b.tokens >= Scale
    IN  /\ thread[t].pc = "lock"
        /\ thread' = [thread EXCEPT ![t] = Idle]
        /\ buckets' = [buckets EXCEPT ![key] = IF ok THEN [b EXCEPT !.tokens = @ - Scale] ELSE b]
        /\ granted' = [granted EXCEPT ![key] = IF ok THEN @ + 1 ELSE @]
        /\ rewound' = [rewound EXCEPT ![key] = @ + MaxI(0, credited[key] - now)]
        /\ credited' = [credited EXCEPT ![key] = now]
        /\ promise' = [promise EXCEPT ![key] =
                          IF ok THEN NoPromise ELSE now + RetryAfter(b.tokens, tier)]
        /\ UNCHANGED <<clock, sweep, evicted>>

-----------------------------------------------------------------------------
(* evict_stale *)

StartSweep ==
    /\ sweep.left = {}
    /\ sweep' = [now |-> clock, left |-> Keys]
    /\ UNCHANGED <<clock, buckets, thread, granted, credited, rewound, evicted, promise>>

\* Mutant of IsStale: buckets in use are dropped, the idle ones kept.
IsFresh(b, now) == MaxI(0, now - b.last_refill) < StaleAfter

\* retain() keeps a bucket while now - last_refill < stale.
IsStale(b, now) == MaxI(0, now - b.last_refill) >= StaleAfter

\* One shard of the sweep.
SweepShard(key) ==
    LET gone == buckets[key] # NoBucket /\ IsStale(buckets[key], sweep.now)
    IN  /\ key \in sweep.left
        /\ sweep' = [sweep EXCEPT !.left = @ \ {key}]
        /\ buckets' = IF gone THEN [buckets EXCEPT ![key] = NoBucket] ELSE buckets
        /\ credited' = IF gone THEN [credited EXCEPT ![key] = MaxI(@, sweep.now)] ELSE credited
        /\ evicted' = IF gone THEN [evicted EXCEPT ![key] = @ + 1] ELSE evicted
        /\ UNCHANGED <<clock, thread, granted, rewound, promise>>

Second ==
    /\ clock < MaxClock
    /\ clock' = clock + 1
    /\ UNCHANGED <<buckets, thread, sweep, granted, credited, rewound, evicted, promise>>

-----------------------------------------------------------------------------
RLInit ==
    /\ clock = 0
    /\ buckets = [k \in Keys |-> NoBucket]
    /\ thread = [t \in Callers |-> Idle]
    /\ sweep = [now |-> 0, left |-> {}]
    /\ granted = [k \in Keys |-> 0]
    /\ credited = [k \in Keys |-> 0]
    /\ rewound = [k \in Keys |-> 0]
    /\ evicted = [k \in Keys |-> 0]
    /\ promise = [k \in Keys |-> NoPromise]

RLNext ==
    \/ \E t \in Callers, c \in Clients : Begin(t, c)
    \/ \E t \in Callers : Check(t)
    \/ StartSweep
    \/ \E k \in Keys : SweepShard(k)
    \/ Second

RLSpec == RLInit /\ [][RLNext]_rlvars

-----------------------------------------------------------------------------
\* What one eviction may give away in a tier: a bucket that goes stale has been idle
\* for StaleAfter seconds, and comes back full although its burst may take longer to
\* refill.  Nothing in the configuration makes this 0.
Forgiven(tier) == MaxI(0, Burst[tier] * Scale - StaleAfter * Rate[tier])

\* A key is granted no more than its burst and its rate over the time that has
\* passed, whatever the order in which waiting threads get the lock and whenever
\* idle buckets are evicted and recreated full.  There are two surpluses and no
\* third: time that a late thread moves last_refill back by is credited again, and
\* an eviction gives away what the idle time did not refill, which is nothing in a
\* tier whose burst refills within StaleAfter.
GrantsBounded ==
    \A k \in Keys :
        granted[k] * Scale <=
            Burst[TierOf(k)] * Scale + Rate[TierOf(k)] * (clock + rewound[k])
                + evicted[k] * Forgiven(TierOf(k))

\* What a token bucket promises and this one does not keep in a tier whose burst takes
\* longer than StaleAfter to refill: the burst and the rate alone bound the grants.
EvictionGivesNothing ==
    \A k \in Keys :
        granted[k] * Scale <= Burst[TierOf(k)] * Scale + Rate[TierOf(k)] * (clock + rewound[k])

\* A client that is rejected with retry_after and waits that long is allowed: no
\* eviction and no sweep in between makes it wait again.
RetryAfterSuffices ==
    \A k \in Keys :
        (promise[k] # NoPromise /\ clock >= promise[k]) =>
            Refill(BucketOf(k, clock), TierOf(k), clock).tokens >= Scale

\* The inductive form of GrantsBounded: what is left in the bucket counts too, and
\* a bucket has been credited up to its last refill.
BucketAccounts ==
    \A k \in Keys :
        /\ buckets[k] # NoBucket =>
              /\ buckets[k].last_refill = credited[k]
              /\ buckets[k].tokens <= Burst[TierOf(k)] * Scale
              /\ granted[k] * Scale + buckets[k].tokens <=
                    Burst[TierOf(k)] * Scale + Rate[TierOf(k)] * (credited[k] + rewound[k])
                        + evicted[k] * Forgiven(TierOf(k))
        /\ buckets[k] = NoBucket =>
              granted[k] * Scale <=
                  Rate[TierOf(k)] * (credited[k] + rewound[k]) + evicted[k] * Forgiven(TierOf(k))

=============================================================================
