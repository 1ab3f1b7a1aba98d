----------------------------- MODULE RateLimit -----------------------------
(***************************************************************************)
(* RateLimitMiddleware and its RateLimiter, a token bucket per tenant and  *)
(* endpoint class, in one worker (src/src/hawiya/tenancy/rate_limit.py).   *)
(*                                                                         *)
(* check has no await, so one check is one step.  The clock counts         *)
(* seconds.  A bucket gains "limit" tokens a minute: its tokens are counted*)
(* in sixtieths, which makes the code's floating point exact.              *)
(***************************************************************************)
EXTENDS Integers, Sequences, SequencesExt, FiniteSetsExt

CONSTANTS
    Tenants,
    NoTenant,  \* the header is absent, or is not a UUID
    Paths,     \* the paths of a behaviour, as sequences of segments
    Limits,    \* values of settings.rate_limit_default_per_minute
    Delays,    \* by how much the clock may advance at once
    MaxTime    \* bound on the clock

ASSUME RateAssumption ==
    /\ NoTenant \notin Tenants
    /\ Limits \subseteq Nat /\ Delays \subseteq Nat \ {0} /\ MaxTime \in Nat

Classes == {"extract", "read"}

VARIABLES
    limit,     \* the configured limit
    buckets,   \* buckets[<<tenant, class>>], NoBucket until it is first used
    now,       \* time.monotonic()
    verdict,   \* what became of the last request
    \* History, read by no action:
    admitted,  \* when requests of the bucket were forwarded
    refused,   \* when one was last refused, or Never
    promise    \* when the last refusal said to come back, or Never

vars == <<limit, buckets, now, verdict, admitted, refused, promise>>

Token == 60
NoBucket == [tokens |-> -1, last |-> -1]
Never == -1
Owners == Tenants \X Classes

TypeOK ==
    /\ limit \in Limits
    /\ now \in 0..MaxTime
    /\ verdict \in {"none", "forwarded", "limited", "error"}
    /\ \A o \in Owners :
         \/ buckets[o] = NoBucket
         \/ /\ buckets[o].tokens \in 0..limit * Token
            /\ buckets[o].last \in 0..now
    /\ admitted \in [Owners -> Seq(0..MaxTime)]
    /\ refused \in [Owners -> {Never} \cup 0..MaxTime]
    /\ promise \in [Owners -> {Never} \cup Nat]

Init ==
    /\ limit \in Limits
    /\ buckets = [o \in Owners |-> NoBucket]
    /\ now = 0
    /\ verdict = "none"
    /\ admitted = [o \in Owners |-> <<>>]
    /\ refused = [o \in Owners |-> Never]
    /\ promise = [o \in Owners |-> Never]

-----------------------------------------------------------------------------
(* The endpoint classes and the bucket.                                    *)

Classification ==
    << <<"extract", <<"v1", "documents", "extract">> >>,
       <<"extract", <<"v1", "identity", "resolve">> >>,
       <<"read", <<"v1", "persons", "search">> >>,
       <<"read", <<"v1", "persons">> >> >>

\* classify_endpoint, as the set of at most one class.
ClassesOf(path) ==
    LET hits == {i \in DOMAIN Classification : IsPrefix(Classification[i][2], path)}
    IN  IF hits = {} THEN {} ELSE {Classification[Min(hits)][1]}

\* Seeded bug: one bucket for all the tenants.
BucketForAnyone(o) ==
    LET used == {p \in Owners : p[2] = o[2] /\ buckets[p] # NoBucket}
    IN  IF used = {} THEN [tokens |-> limit * Token, last |-> now]
        ELSE buckets[CHOOSE p \in used : \A q \in used : buckets[p].tokens <= buckets[q].tokens]

\* _bucket_for: a bucket is born full.
BucketFor(o) ==
    IF buckets[o] # NoBucket THEN buckets[o]
    ELSE [tokens |-> limit * Token, last |-> now]

\* Seeded bugs: a bucket that can overflow; one refilled since its birth.
RefilledUncapped(b) == b.tokens + (now - b.last) * limit
RefilledSinceZero(b) == Min({limit * Token, b.tokens + now * limit})

\* _Bucket.take, the tokens before the request takes one.
Refilled(b) == Min({limit * Token, b.tokens + (now - b.last) * limit})

\* Seeded bug: the seconds rounded down.
RetryAfterFloor(tokens) == Max({1, (Token - tokens) \div limit})

\* check: the seconds until a token is there, rounded up, at least one.
RetryAfter(tokens) == Max({1, (Token - tokens + limit - 1) \div limit})

-----------------------------------------------------------------------------
(* dispatch.                                                               *)

Forwarded(o, b) ==
    /\ Refilled(b) >= Token
    /\ buckets' = [buckets EXCEPT ![o] = [tokens |-> Refilled(b) - Token, last |-> now]]
    /\ admitted' = [admitted EXCEPT ![o] = Append(@, now)]
    /\ promise' = [promise EXCEPT ![o] = Never]
    /\ verdict' = "forwarded"
    /\ UNCHANGED refused

\* 429 with Retry-After.
Limited(o, b) ==
    /\ Refilled(b) < Token /\ limit > 0
    /\ buckets' = [buckets EXCEPT ![o] = [tokens |-> Refilled(b), last |-> now]]
    /\ refused' = [refused EXCEPT ![o] = now]
    /\ promise' = [promise EXCEPT ![o] = now + RetryAfter(Refilled(b))]
    /\ verdict' = "limited"
    /\ UNCHANGED admitted

\* A limit of zero: take returns infinity, math.ceil raises OverflowError and
\* the client is sent a 500.
Raised(o, b) ==
    /\ Refilled(b) < Token /\ limit = 0
    /\ buckets' = [buckets EXCEPT ![o] = [tokens |-> Refilled(b), last |-> now]]
    /\ verdict' = "error"
    /\ UNCHANGED <<admitted, refused, promise>>

Check(o) ==
    LET b == BucketFor(o)
    IN  /\ Forwarded(o, b) \/ Limited(o, b) \/ Raised(o, b)
        /\ UNCHANGED <<limit, now>>

\* Requests the middleware does not count.
PassThrough(tenant, path) ==
    /\ ClassesOf(path) = {} \/ tenant = NoTenant
    /\ verdict' = "forwarded"
    /\ UNCHANGED <<limit, buckets, now, admitted, refused, promise>>

Dispatch(tenant, path) ==
    \/ PassThrough(tenant, path)
    \/ tenant # NoTenant /\ \E c \in ClassesOf(path) : Check(<<tenant, c>>)

Elapse ==
    \E d \in Delays :
        /\ now + d <= MaxTime
        /\ now' = now + d
        /\ UNCHANGED <<limit, buckets, verdict, admitted, refused, promise>>

Next ==
    \/ \E t \in Tenants \cup {NoTenant}, p \in Paths : Dispatch(t, p)
    \/ Elapse

Spec == Init /\ [][Next]_vars
-----------------------------------------------------------------------------
(* What the limiter promises.                                              *)

\* Over every stretch of time that ends now, and begins with a request that
\* was forwarded, no tenant gets more requests of a class through than one
\* bucketful and what the bucket gains in that time.
AdmissionBound ==
    \A o \in Owners : \A i \in DOMAIN admitted[o] :
        (Len(admitted[o]) - i + 1) * Token <= limit * Token + limit * (now - admitted[o][i])

\* Nobody is refused for what others do, nor before using the limit up: a
\* refused tenant had "limit" requests of the class forwarded in the minute
\* before.
RefusalIsEarned ==
    \A o \in Owners : refused[o] # Never /\ limit > 0 =>
        LET k == Quantify(DOMAIN admitted[o], LAMBDA i : admitted[o][i] <= refused[o])
        IN  k >= limit /\ admitted[o][k - limit + 1] > refused[o] - 60

\* A client that waits for as long as Retry-After says, while nothing else of
\* its tenant takes the token, is forwarded; and unless it was told to wait
\* for the least a header can say, a second less would not do.
RetryAfterIsRight ==
    \A o \in Owners : promise[o] # Never =>
        LET at(t) == buckets[o].tokens + (t - buckets[o].last) * limit
        IN  /\ at(promise[o]) >= Token
            /\ promise[o] > refused[o] + 1 => at(promise[o] - 1) < Token
=============================================================================
