----------------------------- MODULE Middleware -----------------------------
(***************************************************************************)
(* What a request passes before its handler (internal/server: the chain of *)
(* buildHTTPHandler; internal/api/http: bodyguard.go, gateway_auth.go,     *)
(* session_mw.go, middleware.go, ratelimit_auth.go, ratelimit_api.go).     *)
(*                                                                         *)
(* A request is what the chain looks at: [path, write, body, json,         *)
(* gateway, forwarded, real, remote, session, bearer].  session and bearer *)
(* are the principals that the cookie and the token stand for, or NoOne.   *)
(* A request turned away before a limiter leaves nothing behind, and none  *)
(* meets both limiters, so that the chain is one step.                     *)
(*                                                                         *)
(* Time is counted in ticks.  A token is Every(kind) units of level, one   *)
(* unit is added per tick.                                                 *)
(***************************************************************************)
EXTENDS Integers, Sequences, FiniteSets

CONSTANTS
    Calls,           \* requests that clients make
    IdentityWired,   \* whether the server has sessions
    Secret,          \* the gateway's secret, or ""
    GatewaySkips,    \* paths that need no secret
    SkipAuth,        \* paths that need no principal
    Limited,         \* paths limited by address
    Minute,          \* ticks
    AuthPerMinute, AuthBurst, ReadPerMin, WritePerMin,
    MinReadBurst, MinWriteBurst,  \* 10 and 5
    IdleFor,         \* ticks after which a janitor drops a bucket
    MaxTicks,        \* bound: the time
    MaxCalls         \* bound: requests a limiter decides on

VARIABLES
    tick,       \* the time
    ipBuckets,  \* authRateLimiter.buckets: address -> [limiter, seen]
    buckets,    \* apiRateLimiter.buckets: key -> [read, write, seen]
    decided     \* history: what the limiters answered, [kind, key, at, ok, left]

mwvars == <<tick, ipBuckets, buckets, decided>>

NoOne == [id |-> 0, tenant |-> 0]

Larger(a, b) == IF a > b THEN a ELSE b
Smaller(a, b) == IF a < b THEN a ELSE b

Every(kind) ==
    Minute \div (CASE kind = "auth" -> AuthPerMinute [] kind = "read" -> ReadPerMin [] kind = "write" -> WritePerMin)
Burst(kind) ==
    CASE kind = "auth" -> AuthBurst
      [] kind = "read" -> Larger(ReadPerMin \div 2, MinReadBurst)
      [] kind = "write" -> Larger(WritePerMin \div 2, MinWriteBurst)
Full(kind) == Burst(kind) * Every(kind)

Kinds == {"auth", "read", "write"}

\* Rates and bursts that are not positive are replaced by the defaults, and a
\* bucket is full again before a janitor may drop it.
ASSUME RatesAssumption ==
    /\ {Minute, IdleFor, MaxTicks, MaxCalls} \subseteq Nat
    /\ {AuthPerMinute, AuthBurst, ReadPerMin, WritePerMin, MinReadBurst, MinWriteBurst} \subseteq Nat \ {0}
    /\ \A kind \in Kinds : Every(kind) > 0 /\ Full(kind) <= IdleFor

InitMiddleware ==
    /\ tick = 0
    /\ ipBuckets = <<>>
    /\ buckets = <<>>
    /\ decided = <<>>

(***************************************************************************)
(* The checks without state                                                *)
(***************************************************************************)
BodyGuard(r) == r.write => r.body # "large" /\ (r.body # "none" => r.json)

GatewayAuth(r) == Secret = "" \/ r.path \in GatewaySkips \/ r.gateway = Secret

AuthMW(r) == r.bearer

SessionAuthMW(r) == IF r.session # NoOne THEN r.session ELSE r.bearer

Caller(r) == IF IdentityWired THEN SessionAuthMW(r) ELSE AuthMW(r)

TenantMW(r) == Caller(r) # NoOne /\ Caller(r).tenant # 0

ClientIP(r) == IF r.forwarded # 0 THEN r.forwarded ELSE IF r.real # 0 THEN r.real ELSE r.remote

RateKey(r) == IF Caller(r).id # 0 THEN <<"u", Caller(r).id>> ELSE <<"ip", ClientIP(r)>>

(***************************************************************************)
(* Token buckets (golang.org/x/time/rate)                                  *)
(***************************************************************************)
NewLimiter(kind) == [level |-> Full(kind), last |-> tick]

Level(l, kind) == Smaller(Full(kind), l.level + (tick - l.last))

\* Mutant: the reservation of a refused request stays.
Uncancelled(l, kind) ==
    [ok |-> Level(l, kind) >= Every(kind), limiter |-> [level |-> Level(l, kind) - Every(kind), last |-> tick]]

\* Reserve, and Cancel when there is something to wait for.
Reserve(l, kind) ==
    IF Level(l, kind) >= Every(kind)
      THEN [ok |-> TRUE, limiter |-> [level |-> Level(l, kind) - Every(kind), last |-> tick]]
      ELSE [ok |-> FALSE, limiter |-> [level |-> Level(l, kind), last |-> tick]]

Decide(kind, key, res) ==
    decided' = Append(decided, [kind |-> kind, key |-> key, at |-> tick, ok |-> res.ok,
                                left |-> Larger(res.limiter.level \div Every(kind), 0)])

\* bs[k] = b, for a key that may be new.
Put(bs, k, b) == [x \in DOMAIN bs \cup {k} |-> IF x = k THEN b ELSE bs[x]]

IPBucket(ip) == IF ip \in DOMAIN ipBuckets THEN ipBuckets[ip] ELSE [limiter |-> NewLimiter("auth"), seen |-> tick]

APIBucket(key) ==
    IF key \in DOMAIN buckets THEN buckets[key] ELSE [read |-> NewLimiter("read"), write |-> NewLimiter("write"), seen |-> tick]

\* The request passes what stands before the first limiter.
Arrives(r) == Len(decided) < MaxCalls /\ BodyGuard(r) /\ GatewayAuth(r)

CheckIP(r) ==
    LET ip == ClientIP(r)
        res == Reserve(IPBucket(ip).limiter, "auth")
    IN  /\ Arrives(r) /\ r.path \in Limited
        /\ ipBuckets' = Put(ipBuckets, ip, [limiter |-> res.limiter, seen |-> tick])
        /\ Decide("auth", ip, res)
        /\ UNCHANGED <<tick, buckets>>

CheckAPI(r) ==
    LET key == RateKey(r)
        kind == IF r.write THEN "write" ELSE "read"
        res == Reserve(APIBucket(key)[kind], kind)
    IN  /\ Arrives(r) /\ r.path \notin Limited \cup SkipAuth /\ TenantMW(r)
        /\ buckets' = Put(buckets, key, [APIBucket(key) EXCEPT ![kind] = res.limiter, !.seen = tick])
        /\ Decide(kind, key, res)
        /\ UNCHANGED <<tick, ipBuckets>>

Idling(b) == b.seen < tick - IdleFor
Kept(bs) == [k \in {k \in DOMAIN bs : ~Idling(bs[k])} |-> bs[k]]

\* The janitors.  Their tickers started with the server, at no time in
\* particular.
SweepIPs ==
    /\ ipBuckets' = Kept(ipBuckets) /\ ipBuckets' # ipBuckets
    /\ UNCHANGED <<tick, buckets, decided>>

SweepKeys ==
    /\ buckets' = Kept(buckets) /\ buckets' # buckets
    /\ UNCHANGED <<tick, ipBuckets, decided>>

TimeGoesOn ==
    /\ tick < MaxTicks
    /\ tick' = tick + 1
    /\ UNCHANGED <<ipBuckets, buckets, decided>>

MiddlewareNext ==
    \/ \E r \in Calls : CheckIP(r) \/ CheckAPI(r)
    \/ SweepIPs \/ SweepKeys
    \/ TimeGoesOn

MiddlewareSpec == InitMiddleware /\ [][MiddlewareNext]_mwvars

SameClient(d, e) == d.kind = e.kind /\ d.key = e.key
\* Calls served from the i-th to the j-th, of the j-th's client.
Served(i, j) == Cardinality({k \in i .. j : decided[k].ok /\ SameClient(decided[k], decided[j])})
\* What the j-th may ask for, counted from the i-th.
Allowance(i, j) == Burst(decided[j].kind) + (decided[j].at - decided[i].at) \div Every(decided[j].kind)

\* In no stretch of time does a client get more than the burst and what was
\* refilled meanwhile, whichever buckets the janitors drop in between; a call
\* is refused only where one more would be too many, so that refusals cost
\* nothing and clients do not spend each other's tokens; and a client told
\* that calls remain is not refused the next one.
RatesExact ==
    \A j \in DOMAIN decided :
        LET mine == {i \in 1 .. j : SameClient(decided[i], decided[j])}
        IN  /\ \A i \in mine : decided[i].ok /\ decided[j].ok => Served(i, j) <= Allowance(i, j)
            /\ decided[j].ok \/ \E i \in mine : decided[i].ok /\ Served(i, j) + 1 > Allowance(i, j)
            /\ decided[j].ok \/ \A i \in mine \ {j} : decided[i].left = 0 \/ \E k \in mine : k > i /\ k < j
=============================================================================
