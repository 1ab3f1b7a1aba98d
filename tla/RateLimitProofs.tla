--------------------------- MODULE RateLimitProofs ---------------------------
(***************************************************************************)
(* Theorems about RateLimit, for every set of limits, tenants, paths and   *)
(* delays.                                                                 *)
(*                                                                         *)
(* What was forwarded and refused in the past is tied to the tokens that   *)
(* are left: a bucket has no more tokens than what was forwarded since any *)
(* moment leaves of one bucketful and the refill (Bounded), and no fewer,  *)
(* unless it has been full in the meantime (Spent).  The first bounds what *)
(* gets through, the second what is refused.  Both are said of the bucket  *)
(* the next check will find, BucketFor: one that is not there yet is full. *)
(***************************************************************************)
EXTENDS RateLimit, FiniteSetTheorems, TLAPS

Bounded(o, b) ==
    \A i \in DOMAIN admitted[o] :
        (Len(admitted[o]) - i + 1) * Token + b.tokens
            <= limit * Token + limit * (b.last - admitted[o][i])

Spent(o, b) ==
    /\ b.tokens + Len(admitted[o]) * Token >= limit * Token
    /\ \A i \in DOMAIN admitted[o] :
         LET left == b.tokens + (Len(admitted[o]) - i) * Token
         IN  left >= limit * Token \/ left >= limit * (b.last - admitted[o][i])

\* The k requests forwarded up to the last refusal used the limit up.
Earned(o) ==
    \E k \in limit..Len(admitted[o]) :
        /\ \A i \in DOMAIN admitted[o] : admitted[o][i] <= refused[o] <=> i <= k
        /\ admitted[o][k - limit + 1] > refused[o] - 60

\* The last refusal was earned, and its second has gone by or the bucket is
\* still without a token; the promise it made holds for that bucket.
Refusal(o, b) ==
    /\ refused[o] # Never =>
         /\ limit > 0 /\ refused[o] <= b.last /\ Earned(o)
         /\ refused[o] = b.last => b.tokens < Token
    /\ promise[o] # Never =>
         /\ refused[o] = b.last /\ buckets[o] = b /\ limit > 0
         /\ promise[o] = b.last + RetryAfter(b.tokens)

Buckets == [tokens: Int, last: Int]

\* All that is true of one owner's bucket and its history.
Sound(o) ==
    LET b == BucketFor(o) IN
    /\ \A i \in DOMAIN admitted[o] : admitted[o][i] <= b.last
    /\ Bounded(o, b) /\ Spent(o, b) /\ Refusal(o, b)
    /\ buckets[o] = NoBucket
         => admitted[o] = <<>> /\ refused[o] = Never /\ promise[o] = Never

IInv ==
    /\ TypeOK /\ buckets \in [Owners -> Buckets]
    /\ \A o \in Owners : Sound(o)

-----------------------------------------------------------------------------
(* Arithmetic.                                                             *)

LEMMA MinOfTwo ==
    ASSUME NEW a \in Int, NEW b \in Int
    PROVE  Min({a, b}) = IF a <= b THEN a ELSE b
  BY DEF Min

LEMMA MaxOfTwo ==
    ASSUME NEW a \in Int, NEW b \in Int
    PROVE  Max({a, b}) = IF a >= b THEN a ELSE b
  BY DEF Max

LEMMA Distribute ==
    ASSUME NEW l \in Int, NEW a \in Int, NEW b \in Int, NEW c \in Int
    PROVE  l * (a - b) + l * (b - c) = l * (a - c)
  OBVIOUS

LEMMA ProductOfNat ==
    ASSUME NEW l \in Nat, NEW d \in Nat
    PROVE  l * d \in Nat /\ (l > 0 => l * d >= d)
  OBVIOUS

\* Dividing rounds up when the divisor less one is added first.
LEMMA RoundedUp ==
    ASSUME NEW l \in Nat \ {0}, NEW x \in Nat
    PROVE  LET q == (x + l - 1) \div l
           IN  q \in Nat /\ q * l >= x /\ (q - 1) * l < x
  <1>1. PICK q \in Int : q = (x + l - 1) \div l
    OBVIOUS
  <1>2. l * q <= x + l - 1 /\ x + l - 1 < l * q + l
    BY <1>1
  <1>3. q * l = l * q /\ (q - 1) * l = l * q - l
    OBVIOUS
  <1>4. q \in Nat
    BY <1>2
  <1>5. QED
    BY <1>1, <1>2, <1>3, <1>4

\* The seconds a client is told are enough, and unless there is one, no fewer
\* would be.
LEMMA RetryAfterExact ==
    ASSUME TypeOK, limit > 0, NEW tokens \in 0..Token - 1
    PROVE  /\ RetryAfter(tokens) \in Nat \ {0}
           /\ tokens + RetryAfter(tokens) * limit >= Token
           /\ RetryAfter(tokens) > 1 => tokens + (RetryAfter(tokens) - 1) * limit < Token
  <1>1. limit \in Nat \ {0} /\ Token - tokens \in Nat \ {0}
    BY RateAssumption DEF TypeOK, Token
  <1>2. PICK q \in Nat : /\ q = (Token - tokens + limit - 1) \div limit
                         /\ q * limit >= Token - tokens /\ (q - 1) * limit < Token - tokens
    BY <1>1, RoundedUp
  <1>3. RetryAfter(tokens) = IF 1 >= q THEN 1 ELSE q
    BY <1>2, MaxOfTwo DEF RetryAfter
  <1>4. q # 0
    BY <1>1, <1>2
  <1>5. QED
    BY <1>1, <1>2, <1>3, <1>4 DEF Token

LEMMA LessFactor ==
    ASSUME NEW l \in Nat \ {0}, NEW x \in Nat, NEW y \in Nat, l * x < l * y
    PROVE  x < y
  <1>1. CASE x >= y
    <2>1. PICK d \in Nat : x = y + d
      BY <1>1
    <2>2. l * x = l * y + l * d /\ l * d \in Nat
      BY <2>1
    <2>3. QED
      BY <2>2
  <1>2. QED
    BY <1>1

-----------------------------------------------------------------------------
(* The steps.                                                              *)

\* The class of a path is one of the classes.
LEMMA ClassesAreClasses == ASSUME NEW path PROVE ClassesOf(path) \subseteq Classes
  <1> DEFINE hits == {i \in DOMAIN Classification : IsPrefix(Classification[i][2], path)}
  <1>1. CASE hits = {}
    BY <1>1 DEF ClassesOf
  <1>2. CASE hits # {}
    <2>1. hits \subseteq 1..4
      BY DEF Classification
    <2>2. \E i \in hits : \A j \in hits : i <= j
      <3> HIDE DEF hits
      <3>1. CASE 1 \in hits
        BY <2>1, <3>1
      <3>2. CASE 1 \notin hits /\ 2 \in hits
        BY <2>1, <3>2
      <3>3. CASE 1 \notin hits /\ 2 \notin hits /\ 3 \in hits
        BY <2>1, <3>3
      <3>4. CASE 1 \notin hits /\ 2 \notin hits /\ 3 \notin hits
        <4>1. \A i \in hits : i = 4
          BY <2>1, <3>4
        <4>2. QED
          BY <1>2, <4>1
      <3>5. QED
        BY <3>1, <3>2, <3>3, <3>4
    <2>3. Min(hits) \in hits
      BY <2>2 DEF Min
    <2>4. Classification[Min(hits)][1] \in Classes
      <3>1. \A i \in 1..4 : Classification[i][1] \in Classes
        BY DEF Classification, Classes
      <3>2. QED
        BY <2>1, <2>3, <3>1
    <2>5. QED
      BY <1>2, <2>4 DEF ClassesOf
  <1>3. QED
    BY <1>1, <1>2

LEMMA NextCases ==
    ASSUME [Next]_vars
    PROVE  \/ \E o \in Owners : Check(o)
           \/ Elapse
           \/ UNCHANGED <<limit, buckets, now, admitted, refused, promise>> /\
                (verdict' = verdict \/ verdict' = "forwarded")
  <1>1. ASSUME NEW t \in Tenants \cup {NoTenant}, NEW p \in Paths, Dispatch(t, p), ~PassThrough(t, p)
        PROVE  \E o \in Owners : Check(o)
    <2>1. t \in Tenants
      BY <1>1 DEF Dispatch
    <2>2. PICK c \in ClassesOf(p) : Check(<<t, c>>)
      BY <1>1 DEF Dispatch
    <2>3. <<t, c>> \in Owners
      BY <2>1, ClassesAreClasses DEF Owners
    <2>4. QED
      BY <2>2, <2>3
  <1>2. ASSUME NEW t \in Tenants \cup {NoTenant}, NEW p \in Paths, PassThrough(t, p)
        PROVE  /\ UNCHANGED <<limit, buckets, now, admitted, refused, promise>>
               /\ verdict' = "forwarded"
    BY <1>2 DEF PassThrough
  <1>3. QED
    BY <1>1, <1>2 DEF Next, vars

\* The bucket a check finds is one: its tokens and its time are in their range.
LEMMA BucketForType ==
    ASSUME IInv, NEW o \in Owners
    PROVE  /\ limit \in Nat /\ now \in Nat
           /\ BucketFor(o) \in Buckets
           /\ BucketFor(o).tokens \in 0..limit * Token /\ BucketFor(o).last \in 0..now
  <1>1. limit \in Nat /\ now \in Nat /\ limit * Token \in Nat
    BY RateAssumption DEF IInv, TypeOK, Token
  <1>2. CASE buckets[o] = NoBucket
    BY <1>1, <1>2 DEF BucketFor, Buckets, Token
  <1>3. CASE buckets[o] # NoBucket
    BY <1>1, <1>3 DEF BucketFor, IInv, TypeOK
  <1>4. QED
    BY <1>2, <1>3

\* Refilling fills the bucket, or adds the tokens of the time gone by.
LEMMA RefillExact ==
    ASSUME IInv, NEW o \in Owners
    PROVE  LET b == BucketFor(o) IN
           /\ Refilled(b) \in 0..limit * Token
           /\ limit * (now - b.last) \in Nat
           /\ \/ Refilled(b) = b.tokens + limit * (now - b.last)
              \/ /\ Refilled(b) = limit * Token
                 /\ limit * Token <= b.tokens + limit * (now - b.last)
           /\ b.last = now => Refilled(b) = b.tokens
  <1>1. PICK k \in Nat, c \in Nat, d \in Nat :
            /\ k = BucketFor(o).tokens /\ c = limit * Token /\ d = now - BucketFor(o).last
            /\ k <= c /\ limit \in Nat
    BY BucketForType DEF Token
  <1>2. PICK g \in Nat : g = limit * d /\ g = d * limit /\ (d = 0 => g = 0)
    BY <1>1, ProductOfNat
  <1>3. Refilled(BucketFor(o)) = IF c <= k + g THEN c ELSE k + g
    BY <1>1, <1>2, MinOfTwo DEF Refilled
  <1>4. BucketFor(o).last = now => d = 0
    BY <1>1, BucketForType
  <1>5. limit * (now - BucketFor(o).last) = g
    BY <1>1, <1>2
  <1>6. Refilled(BucketFor(o)) \in 0..c
    BY <1>1, <1>2, <1>3
  <1>7. \/ Refilled(BucketFor(o)) = k + g
        \/ Refilled(BucketFor(o)) = c /\ c <= k + g
    BY <1>1, <1>2, <1>3
  <1>8. BucketFor(o).last = now => Refilled(BucketFor(o)) = k
    <2>1. /\ k <= c /\ (d = 0 => g = 0)
          /\ Refilled(BucketFor(o)) = IF c <= k + g THEN c ELSE k + g
      BY <1>1, <1>2, <1>3
    <2>2. QED
      BY <1>4, <2>1
  <1>9. QED
    BY <1>1, <1>2, <1>5, <1>6, <1>7, <1>8

-----------------------------------------------------------------------------
(* What a check leaves.                                                    *)

\* The bucket after the refill, before the request takes a token.
Fresh(o) == [tokens |-> Refilled(BucketFor(o)), last |-> now]

LEMMA FreshHolds ==
    ASSUME IInv, NEW o \in Owners
    PROVE  /\ \A i \in DOMAIN admitted[o] : admitted[o][i] <= now
           /\ Bounded(o, Fresh(o)) /\ Spent(o, Fresh(o))
  <1> DEFINE b == BucketFor(o)
             n == Len(admitted[o])
             g == limit * (now - b.last)
  <1>1. /\ limit \in Nat /\ now \in Nat /\ b.tokens \in 0..limit * Token /\ b.last \in 0..now
        /\ Bounded(o, b) /\ Spent(o, b)
        /\ \A i \in DOMAIN admitted[o] : admitted[o][i] <= b.last
    BY BucketForType DEF IInv, Sound
  <1>2. admitted[o] \in Seq(0..MaxTime) /\ n \in Nat /\ DOMAIN admitted[o] = 1..n
    BY DEF IInv, TypeOK
  <1>3. /\ g \in Nat /\ Refilled(b) \in 0..limit * Token
        /\ Refilled(b) = b.tokens + g \/ (Refilled(b) = limit * Token /\ limit * Token <= b.tokens + g)
    BY RefillExact
  <1>4. Fresh(o).tokens = Refilled(b) /\ Fresh(o).last = now
    BY DEF Fresh
  <1>5. ASSUME NEW i \in DOMAIN admitted[o]
        PROVE  /\ admitted[o][i] \in Nat /\ i \in 1..n
               /\ limit * (b.last - admitted[o][i]) \in Int
               /\ limit * (now - admitted[o][i]) \in Int
               /\ limit * (b.last - admitted[o][i]) + g = limit * (now - admitted[o][i])
    <2>1. admitted[o][i] \in Nat /\ i \in 1..n
      BY <1>2, RateAssumption
    <2>2. QED
      BY <1>1, <2>1
  <1>6. \A i \in DOMAIN admitted[o] : admitted[o][i] <= now
    BY <1>1, <1>5
  <1>7. Bounded(o, Fresh(o))
    <2> SUFFICES ASSUME NEW i \in DOMAIN admitted[o]
                 PROVE  (n - i + 1) * Token + Refilled(b)
                            <= limit * Token + limit * (now - admitted[o][i])
      BY <1>4 DEF Bounded
    <2>1. PICK u \in Int, v \in Int :
              /\ u = limit * (b.last - admitted[o][i]) /\ v = limit * (now - admitted[o][i])
              /\ u + g = v /\ i \in 1..n
      BY <1>5
    <2>2. (n - i + 1) * Token + b.tokens <= limit * Token + u
      BY <1>1, <2>1 DEF Bounded
    <2>3. /\ g \in Nat /\ Refilled(b) \in Int /\ b.tokens \in Int /\ limit \in Nat /\ n \in Nat
          /\ Refilled(b) <= b.tokens + g
      BY <1>1, <1>2, <1>3 DEF Token
    <2>4. (n - i + 1) * Token + Refilled(b) <= limit * Token + v
      <3> HIDE DEF g, b, n
      <3> QED
        BY <2>1, <2>2, <2>3 DEF Token
    <2>5. QED
      BY <2>1, <2>4
  <1>8. Spent(o, Fresh(o))
    <2>1. Refilled(b) + n * Token >= limit * Token
      <3> b.tokens + n * Token >= limit * Token
        BY <1>1 DEF Spent
      <3> HIDE DEF g, b, n
      <3> QED
        BY <1>1, <1>2, <1>3 DEF Token
    <2>2. ASSUME NEW i \in DOMAIN admitted[o]
          PROVE  \/ Refilled(b) + (n - i) * Token >= limit * Token
                 \/ Refilled(b) + (n - i) * Token >= limit * (now - admitted[o][i])
      <3>1. PICK u \in Int, v \in Int :
                /\ u = limit * (b.last - admitted[o][i]) /\ v = limit * (now - admitted[o][i])
                /\ u + g = v /\ i \in 1..n
        BY <1>5
      <3>2. \/ b.tokens + (n - i) * Token >= limit * Token
            \/ b.tokens + (n - i) * Token >= u
        BY <1>1, <3>1 DEF Spent
      <3>3. /\ g \in Nat /\ Refilled(b) \in Int /\ b.tokens \in Int /\ limit \in Nat /\ n \in Nat
            /\ Refilled(b) = limit * Token \/ Refilled(b) = b.tokens + g
        BY <1>1, <1>2, <1>3 DEF Token
      <3>4. \/ Refilled(b) + (n - i) * Token >= limit * Token
            \/ Refilled(b) + (n - i) * Token >= v
        <4> HIDE DEF g, b, n
        <4> QED
          BY <3>1, <3>2, <3>3 DEF Token
      <3>5. QED
        BY <3>1, <3>4
    <2>3. QED
      BY <1>4, <2>1, <2>2 DEF Spent
  <1>9. QED
    BY <1>6, <1>7, <1>8

\* A request that is not forwarded leaves the bucket refilled.
LEMMA RefusedHolds ==
    ASSUME IInv, NEW o \in Owners, Refilled(BucketFor(o)) < Token, limit > 0
    PROVE  \E k \in limit..Len(admitted[o]) :
              /\ k = Len(admitted[o])
              /\ \A i \in DOMAIN admitted[o] : admitted[o][i] <= now <=> i <= k
              /\ admitted[o][k - limit + 1] > now - 60
  <1> DEFINE n == Len(admitted[o])
             x == Refilled(BucketFor(o))
  <1>1. /\ admitted[o] \in Seq(0..MaxTime) /\ n \in Nat /\ DOMAIN admitted[o] = 1..n
        /\ limit \in Nat \ {0} /\ now \in Nat /\ x \in Nat /\ x < Token
    BY BucketForType, RefillExact DEF IInv, TypeOK
  <1>2. /\ \A i \in DOMAIN admitted[o] : admitted[o][i] <= now
        /\ x + n * Token >= limit * Token
        /\ \A i \in DOMAIN admitted[o] :
              \/ x + (n - i) * Token >= limit * Token
              \/ x + (n - i) * Token >= limit * (now - admitted[o][i])
    BY FreshHolds DEF Spent, Fresh
  <1>3. n >= limit
    <2> HIDE DEF n, x
    <2>1. QED
      BY <1>1, <1>2 DEF Token
  <1>4. admitted[o][n - limit + 1] > now - 60
    <2>1. PICK i \in 1..n : i = n - limit + 1
      <3> HIDE DEF n, x
      <3> QED
        BY <1>1, <1>3
    <2>2. admitted[o][i] \in Nat /\ admitted[o][i] <= now
      BY <1>1, <1>2, RateAssumption
    <2>3. \/ x + (n - i) * Token >= limit * Token
          \/ x + (n - i) * Token >= limit * (now - admitted[o][i])
      BY <1>1, <1>2
    <2>4. limit * (now - admitted[o][i]) < limit * Token
      <3>1. PICK w \in Int : w = limit * (now - admitted[o][i])
        BY <1>1, <2>2
      <3>2. x + (n - i) * Token < limit * Token
        <4> HIDE DEF n, x
        <4> QED
          BY <1>1, <2>1 DEF Token
      <3> HIDE DEF n, x
      <3>3. (n - i) * Token >= 0 /\ x + (n - i) * Token >= w
        BY <1>1, <2>1, <2>3, <3>1, <3>2 DEF Token
      <3>4. PICK y \in Int, c \in Int : y = (n - i) * Token /\ c = limit * Token
        BY <1>1, <2>1 DEF Token
      <3>5. x \in Nat /\ x + y < c /\ x + y >= w
        BY ONLY <1>1, <3>2, <3>3, <3>4
      <3>6. w < c
        BY ONLY <3>1, <3>4, <3>5
      <3>7. QED
        BY ONLY <3>1, <3>4, <3>6
    <2>5. now - admitted[o][i] < Token
      BY <1>1, <2>2, <2>4, LessFactor DEF Token
    <2>6. QED
      BY <1>1, <2>1, <2>2, <2>5 DEF Token
  <1>5. QED
    BY <1>1, <1>2, <1>3, <1>4

\* The bucket a forwarded request leaves, and the history with it.
LEMMA ForwardedHolds ==
    ASSUME IInv, NEW o \in Owners, NEW x \in Int,
           x + Token = Refilled(BucketFor(o)), x >= 0,
           admitted'[o] = Append(admitted[o], now), limit' = limit, now' = now
    PROVE  /\ \A i \in DOMAIN admitted'[o] : admitted'[o][i] <= now
           /\ Bounded(o, [tokens |-> x, last |-> now])'
           /\ Spent(o, [tokens |-> x, last |-> now])'
  <1> DEFINE n == Len(admitted[o])
             m == Len(admitted'[o])
  <1>1. /\ admitted[o] \in Seq(0..MaxTime) /\ n \in Nat /\ DOMAIN admitted[o] = 1..n
        /\ limit \in Nat /\ now \in Nat /\ now \in 0..MaxTime
        /\ x + Token <= limit * Token
    BY BucketForType, RefillExact DEF IInv, TypeOK
  <1>2. /\ DOMAIN admitted'[o] = 1..m /\ m = n + 1
        /\ \A i \in 1..n : admitted'[o][i] = admitted[o][i]
        /\ admitted'[o][n + 1] = now
    BY <1>1
  <1>3. /\ \A i \in 1..n : admitted[o][i] <= now
        /\ \A i \in 1..n : (n - i + 1) * Token + (x + Token)
                              <= limit * Token + limit * (now - admitted[o][i])
        /\ (x + Token) + n * Token >= limit * Token
        /\ \A i \in 1..n :
              \/ (x + Token) + (n - i) * Token >= limit * Token
              \/ (x + Token) + (n - i) * Token >= limit * (now - admitted[o][i])
    BY <1>1, FreshHolds DEF Bounded, Spent, Fresh
  <1>4. \A i \in 1..n : admitted[o][i] \in Nat /\ limit * (now - admitted[o][i]) \in Int
    BY <1>1, RateAssumption
  <1>5. limit * (now - now) = 0
    BY <1>1
  <1> HIDE DEF n, m
  <1>6. ASSUME NEW i \in DOMAIN admitted'[o]
        PROVE  /\ admitted'[o][i] <= now
               /\ (m - i + 1) * Token + x <= limit * Token + limit * (now - admitted'[o][i])
               /\ \/ x + (m - i) * Token >= limit * Token
                  \/ x + (m - i) * Token >= limit * (now - admitted'[o][i])
    <2>1. CASE i = n + 1
      <3>1. admitted'[o][i] = now /\ m - i + 1 = 1 /\ m - i = 0
        BY <1>1, <1>2, <2>1
      <3>2. limit * (now - admitted'[o][i]) = 0 /\ (m - i) * Token = 0
        BY <1>5, <3>1 DEF Token
      <3>3. (m - i + 1) * Token = Token
        BY <3>1 DEF Token
      <3>4. Token + x <= limit * Token + 0 /\ x + 0 >= 0
        BY <1>1 DEF Token
      <3>5. admitted'[o][i] <= now
        BY ONLY <1>1, <3>1
      <3>6. PICK c \in Int, p \in Int, q \in Int, z \in Int :
                /\ c = limit * Token /\ p = (m - i + 1) * Token /\ q = (m - i) * Token
                /\ z = limit * (now - admitted'[o][i])
                /\ z = 0 /\ q = 0 /\ p = Token
        BY <1>1, <3>2, <3>3 DEF Token
      <3>7. p + x <= c + z /\ x + q >= z
        BY ONLY x \in Int, x >= 0, <3>4, <3>6 DEF Token
      <3>8. (m - i + 1) * Token + x <= limit * Token + limit * (now - admitted'[o][i])
        BY ONLY <3>6, <3>7
      <3>9. x + (m - i) * Token >= limit * (now - admitted'[o][i])
        BY ONLY <3>6, <3>7
      <3>10. QED
        BY ONLY <3>5, <3>8, <3>9
    <2>2. CASE i \in 1..n
      <3>1. PICK w \in Int : w = limit * (now - admitted[o][i])
        BY <1>4, <2>2
      <3>2. /\ (n - i + 1) * Token + (x + Token) <= limit * Token + w
            /\ \/ (x + Token) + (n - i) * Token >= limit * Token
               \/ (x + Token) + (n - i) * Token >= w
        BY <1>3, <2>2, <3>1
      <3>3. /\ (m - i + 1) * Token + x <= limit * Token + w
            /\ \/ x + (m - i) * Token >= limit * Token
               \/ x + (m - i) * Token >= w
        BY <1>1, <1>2, <2>2, <3>2 DEF Token
      <3>4. QED
        BY <1>2, <1>3, <2>2, <3>1, <3>3
    <2>3. QED
      BY <1>1, <1>2, <2>1, <2>2
  <1>7. x + m * Token >= limit * Token
    BY <1>1, <1>2, <1>3 DEF Token
  <1>8. Bounded(o, [tokens |-> x, last |-> now])'
    <2> SUFFICES ASSUME NEW i \in DOMAIN admitted'[o]
                 PROVE  (Len(admitted'[o]) - i + 1) * Token + x
                            <= limit * Token + limit * (now - admitted'[o][i])
      BY DEF Bounded, Token
    <2> QED
      BY <1>6 DEF m
  <1>9. Spent(o, [tokens |-> x, last |-> now])'
    <2>1. x + Len(admitted'[o]) * Token >= limit * Token
      BY <1>7 DEF m
    <2>2. ASSUME NEW i \in DOMAIN admitted'[o]
          PROVE  \/ x + (Len(admitted'[o]) - i) * Token >= limit * Token
                 \/ x + (Len(admitted'[o]) - i) * Token >= limit * (now - admitted'[o][i])
      BY <1>6 DEF m
    <2>3. QED
      BY <2>1, <2>2 DEF Spent, Token
  <1>10. QED
    BY <1>2, <1>6, <1>8, <1>9

-----------------------------------------------------------------------------
(* The invariant, owner by owner.                                          *)

\* Nothing but a check of its own, and time before it has one, changes a
\* bucket.
LEMMA SoundStays ==
    ASSUME IInv, NEW o \in Owners, now' \in Nat, now' = now \/ buckets[o] # NoBucket \/ now' >= now,
           UNCHANGED <<limit, buckets[o], admitted[o], refused[o], promise[o]>>
    PROVE  Sound(o)'
  <1>1. Sound(o) /\ limit \in Nat
    BY BucketForType DEF IInv
  <1>2. CASE buckets[o] # NoBucket
    <2>1. BucketFor(o) = buckets[o] /\ BucketFor(o)' = buckets[o]
      BY <1>2 DEF BucketFor, NoBucket
    <2>2. QED
      BY <1>1, <1>2, <2>1
         DEF Sound, Bounded, Spent, Refusal, Earned, RetryAfter, NoBucket, Never, Token
  <1>3. CASE buckets[o] = NoBucket
    <2>1. BucketFor(o)' = [tokens |-> limit * Token, last |-> now']
      BY <1>3 DEF BucketFor, NoBucket, Token
    <2>2. admitted'[o] = <<>> /\ refused'[o] = Never /\ promise'[o] = Never
      BY <1>1, <1>3 DEF Sound
    <2>3. DOMAIN admitted'[o] = {} /\ Len(admitted'[o]) = 0
      BY <2>2
    <2>4. BucketFor(o)'.tokens + Len(admitted'[o]) * Token >= limit * Token
      BY <1>1, <2>1, <2>3 DEF Token
    <2>5. QED
      BY <2>1, <2>2, <2>3, <2>4
         DEF Sound, Bounded, Spent, Refusal, NoBucket, Never, Token
  <1>4. QED
    BY <1>2, <1>3

\* What a check of o leaves is o's bucket from then on.
LEMMA BucketLeft ==
    ASSUME IInv, NEW o \in Owners, NEW x \in Nat,
           buckets' = [buckets EXCEPT ![o] = [tokens |-> x, last |-> now]]
    PROVE  /\ buckets'[o] # NoBucket /\ buckets'[o] = [tokens |-> x, last |-> now]
           /\ BucketFor(o)' = [tokens |-> x, last |-> now]
  <1>1. buckets'[o] = [tokens |-> x, last |-> now]
    BY DEF IInv
  <1>2. buckets'[o] # NoBucket
    BY <1>1 DEF NoBucket
  <1>3. QED
    BY <1>1, <1>2 DEF BucketFor, NoBucket

LEMMA ForwardedSound ==
    ASSUME IInv, NEW o \in Owners, Forwarded(o, BucketFor(o)), UNCHANGED <<limit, now>>
    PROVE  Sound(o)'
  <1> DEFINE n == Len(admitted[o])
  <1>1. PICK x \in Nat : /\ x + Token = Refilled(BucketFor(o))
                         /\ buckets' = [buckets EXCEPT ![o] = [tokens |-> x, last |-> now]]
    <2>1. Refilled(BucketFor(o)) \in Nat
      BY RefillExact, BucketForType DEF Token
    <2>2. PICK y \in Nat : y = Refilled(BucketFor(o)) - Token
      BY <2>1 DEF Forwarded, Token
    <2>3. y + Token = Refilled(BucketFor(o))
      BY <2>1, <2>2 DEF Token
    <2>4. buckets' = [buckets EXCEPT ![o] = [tokens |-> y, last |-> now]]
      BY <2>2 DEF Forwarded
    <2>5. QED
      BY <2>3, <2>4
  <1>2. /\ buckets'[o] # NoBucket /\ buckets'[o] = [tokens |-> x, last |-> now]
        /\ BucketFor(o)' = [tokens |-> x, last |-> now]
    BY <1>1, BucketLeft
  <1>3. /\ admitted'[o] = Append(admitted[o], now)
        /\ promise'[o] = Never /\ refused' = refused
    BY DEF Forwarded, IInv, TypeOK
  <1>4. /\ \A i \in DOMAIN admitted'[o] : admitted'[o][i] <= now
        /\ Bounded(o, [tokens |-> x, last |-> now])' /\ Spent(o, [tokens |-> x, last |-> now])'
    BY <1>1, <1>3, ForwardedHolds
  <1>5. Refusal(o, BucketFor(o)) /\ refused[o] \in {Never} \cup Nat
    BY DEF IInv, Sound, TypeOK
  <1>6. ASSUME refused[o] # Never
        PROVE  refused[o] < now /\ Earned(o)'
    <2>1. refused[o] < now
      <3>1. /\ refused[o] \in Nat /\ refused[o] <= BucketFor(o).last
            /\ BucketFor(o).last \in 0..now /\ now \in Nat
            /\ refused[o] = BucketFor(o).last => BucketFor(o).tokens < Token
        BY <1>5, <1>6, BucketForType DEF Refusal
      <3>2. BucketFor(o).last = now => Refilled(BucketFor(o)) = BucketFor(o).tokens
        BY RefillExact
      <3>3. ~(BucketFor(o).tokens < Token /\ Refilled(BucketFor(o)) = BucketFor(o).tokens)
        BY <1>1 DEF Token
      <3>4. QED
        BY <3>1, <3>2, <3>3
    <2>2. /\ admitted[o] \in Seq(0..MaxTime) /\ n \in Nat /\ DOMAIN admitted[o] = 1..n
          /\ now \in Nat /\ limit \in Nat /\ limit > 0 /\ Earned(o)
      BY <1>5, <1>6, BucketForType DEF IInv, TypeOK, Refusal
    <2>3. PICK k \in limit..n :
              /\ \A i \in DOMAIN admitted[o] : admitted[o][i] <= refused[o] <=> i <= k
              /\ admitted[o][k - limit + 1] > refused[o] - 60
      BY <2>2 DEF Earned
    <2>4. /\ DOMAIN admitted'[o] = 1..n + 1 /\ Len(admitted'[o]) = n + 1
          /\ \A i \in 1..n : admitted'[o][i] = admitted[o][i]
          /\ admitted'[o][n + 1] = now
      BY <1>3, <2>2
    <2> HIDE DEF n
    <2>5. k \in limit'..Len(admitted'[o]) /\ k - limit + 1 \in 1..n
      BY <2>2, <2>3, <2>4
    <2>6. ASSUME NEW i \in DOMAIN admitted'[o]
          PROVE  admitted'[o][i] <= refused'[o] <=> i <= k
      <3>1. CASE i \in 1..n
        BY <1>3, <2>2, <2>3, <2>4, <3>1
      <3>2. CASE i = n + 1
        BY <1>3, <1>5, <1>6, <2>1, <2>2, <2>3, <2>4, <3>2
      <3>3. QED
        BY <2>2, <2>4, <3>1, <3>2
    <2>7. admitted'[o][k - limit' + 1] > refused'[o] - 60
      BY <1>3, <2>3, <2>4, <2>5
    <2>8. QED
      BY <2>1, <2>5, <2>6, <2>7 DEF Earned
  <1>7. Refusal(o, [tokens |-> x, last |-> now])'
    <2>1. refused'[o] # Never =>
            /\ limit' > 0 /\ refused'[o] < now /\ refused'[o] \in Nat /\ now \in Nat /\ Earned(o)'
      BY <1>3, <1>5, <1>6, BucketForType DEF Refusal, Never
    <2>2. QED
      BY <1>3, <2>1 DEF Refusal, Never
  <1>8. QED
    BY <1>2, <1>4, <1>7 DEF Sound

LEMMA LimitedSound ==
    ASSUME IInv, NEW o \in Owners, Limited(o, BucketFor(o)), UNCHANGED <<limit, now>>
    PROVE  Sound(o)' /\ promise'[o] \in Nat
  <1>1. PICK x \in Nat : /\ x = Refilled(BucketFor(o)) /\ x < Token
                         /\ buckets' = [buckets EXCEPT ![o] = [tokens |-> x, last |-> now]]
    <2>1. Refilled(BucketFor(o)) \in Nat
      BY RefillExact, BucketForType DEF Token
    <2>2. QED
      BY <2>1 DEF Limited, Token
  <1>2. /\ buckets'[o] # NoBucket /\ buckets'[o] = [tokens |-> x, last |-> now]
        /\ BucketFor(o)' = [tokens |-> x, last |-> now]
    BY <1>1, BucketLeft
  <1>3. /\ refused'[o] = now /\ promise'[o] = now + RetryAfter(x) /\ admitted' = admitted
        /\ limit > 0 /\ limit \in Nat /\ now \in Nat
    BY <1>1, BucketForType DEF Limited, IInv, TypeOK
  <1>4. /\ \A i \in DOMAIN admitted[o] : admitted[o][i] <= now
        /\ Bounded(o, [tokens |-> x, last |-> now]) /\ Spent(o, [tokens |-> x, last |-> now])
    BY <1>1, FreshHolds DEF Fresh
  <1>5. Earned(o)'
    BY <1>1, <1>3, RefusedHolds DEF Earned
  <1>6. RetryAfter(x)' = RetryAfter(x)
    BY DEF RetryAfter, Token
  <1>7. Refusal(o, [tokens |-> x, last |-> now])'
    BY <1>1, <1>2, <1>3, <1>5, <1>6 DEF Refusal, Never, Token
  <1>8. Bounded(o, [tokens |-> x, last |-> now])' /\ Spent(o, [tokens |-> x, last |-> now])'
    BY <1>3, <1>4 DEF Bounded, Spent, Token
  <1>9. promise'[o] \in Nat
    <2>1. x \in 0..Token - 1
      BY <1>1 DEF Token
    <2>2. RetryAfter(x) \in Nat
      BY <1>3, <2>1, RetryAfterExact DEF IInv
    <2>3. QED
      BY <1>3, <2>2
  <1>10. QED
    BY <1>2, <1>3, <1>4, <1>7, <1>8, <1>9 DEF Sound

LEMMA RaisedSound ==
    ASSUME IInv, NEW o \in Owners, Raised(o, BucketFor(o)), UNCHANGED <<limit, now>>
    PROVE  Sound(o)'
  <1>1. PICK x \in Nat : /\ x = Refilled(BucketFor(o)) /\ x < Token
                         /\ buckets' = [buckets EXCEPT ![o] = [tokens |-> x, last |-> now]]
    <2>1. Refilled(BucketFor(o)) \in Nat
      BY RefillExact, BucketForType DEF Token
    <2>2. QED
      BY <2>1 DEF Raised, Token
  <1>2. /\ buckets'[o] # NoBucket /\ buckets'[o] = [tokens |-> x, last |-> now]
        /\ BucketFor(o)' = [tokens |-> x, last |-> now]
    BY <1>1, BucketLeft
  <1>3. UNCHANGED <<admitted, refused, promise>> /\ limit = 0
    BY DEF Raised
  <1>4. refused[o] = Never /\ promise[o] = Never
    BY <1>3 DEF IInv, Sound, Refusal
  <1>5. /\ \A i \in DOMAIN admitted[o] : admitted[o][i] <= now
        /\ Bounded(o, [tokens |-> x, last |-> now]) /\ Spent(o, [tokens |-> x, last |-> now])
    BY <1>1, FreshHolds DEF Fresh
  <1>6. Bounded(o, [tokens |-> x, last |-> now])' /\ Spent(o, [tokens |-> x, last |-> now])'
    BY <1>3, <1>5 DEF Bounded, Spent, Token
  <1>7. Refusal(o, [tokens |-> x, last |-> now])'
    BY <1>3, <1>4 DEF Refusal, Never
  <1>8. QED
    BY <1>2, <1>3, <1>5, <1>6, <1>7 DEF Sound

LEMMA NextSound ==
    ASSUME IInv, [Next]_vars, NEW o \in Owners
    PROVE  Sound(o)'
  <1>1. ASSUME NEW q \in Owners, Check(q)
        PROVE  Sound(o)'
    <2>1. UNCHANGED <<limit, now>> /\ now \in Nat
      BY <1>1, BucketForType DEF Check
    <2>2. CASE q = o
      BY <1>1, <2>1, <2>2, ForwardedSound, LimitedSound, RaisedSound DEF Check
    <2>3. CASE q # o
      <3>1. UNCHANGED <<buckets[o], admitted[o], refused[o], promise[o]>>
        BY <1>1, <2>3 DEF Check, Forwarded, Limited, Raised, IInv, TypeOK
      <3>2. QED
        BY <2>1, <3>1, SoundStays
    <2>4. QED
      BY <2>2, <2>3
  <1>2. CASE Elapse
    <2>1. now' \in Nat /\ now' >= now
      BY <1>2, BucketForType, RateAssumption DEF Elapse
    <2>2. QED
      BY <1>2, <2>1, SoundStays DEF Elapse
  <1>3. CASE UNCHANGED <<limit, buckets, now, admitted, refused, promise>>
    BY <1>3, BucketForType, SoundStays
  <1>4. QED
    BY <1>1, <1>2, <1>3, NextCases

LEMMA NextTypeOK ==
    IInv /\ [Next]_vars => TypeOK' /\ buckets' \in [Owners -> Buckets]
  <1> SUFFICES ASSUME IInv, [Next]_vars
               PROVE  TypeOK' /\ buckets' \in [Owners -> Buckets]
    OBVIOUS
  <1>1. ASSUME NEW o \in Owners, Check(o)
        PROVE  TypeOK' /\ buckets' \in [Owners -> Buckets]
    <2>1. PICK x \in 0..limit * Token : buckets' = [buckets EXCEPT ![o] = [tokens |-> x, last |-> now]]
      <3>1. Refilled(BucketFor(o)) \in 0..limit * Token /\ limit \in Nat
        BY RefillExact, BucketForType
      <3>2. Refilled(BucketFor(o)) >= Token => Refilled(BucketFor(o)) - Token \in 0..limit * Token
        BY <3>1 DEF Token
      <3>3. QED
        BY <1>1, <3>1, <3>2 DEF Check, Forwarded, Limited, Raised
    <2>2. UNCHANGED <<limit, now>> /\ now \in Nat /\ limit \in Nat
      BY <1>1, BucketForType DEF Check
    <2>3. buckets' \in [Owners -> Buckets]
      BY <2>1, <2>2 DEF IInv, Buckets, Token
    <2>4. \A q \in Owners :
              \/ buckets'[q] = NoBucket
              \/ buckets'[q].tokens \in 0..limit * Token /\ buckets'[q].last \in 0..now
      BY <2>1, <2>2 DEF IInv, TypeOK
    <2>5. /\ verdict' \in {"none", "forwarded", "limited", "error"}
          /\ admitted' \in [Owners -> Seq(0..MaxTime)]
          /\ refused' \in [Owners -> {Never} \cup 0..MaxTime]
      <3>1. now \in 0..MaxTime /\ Append(admitted[o], now) \in Seq(0..MaxTime)
        BY DEF IInv, TypeOK
      <3>2. QED
        BY <1>1, <3>1 DEF Check, Forwarded, Limited, Raised, IInv, TypeOK
    <2>6. promise' \in [Owners -> {Never} \cup Nat]
      <3>1. CASE Limited(o, BucketFor(o))
        <4>1. promise'[o] \in Nat
          BY <2>2, <3>1, LimitedSound
        <4>2. QED
          BY <3>1, <4>1 DEF Limited, IInv, TypeOK
      <3>2. CASE ~Limited(o, BucketFor(o))
        BY <1>1, <3>2 DEF Check, Forwarded, Raised, IInv, TypeOK
      <3>3. QED
        BY <3>1, <3>2
    <2>7. QED
      BY <2>2, <2>3, <2>4, <2>5, <2>6 DEF IInv, TypeOK, NoBucket, Token, Never
  <1>2. CASE Elapse
    <2>1. now' \in 0..MaxTime /\ now \in Nat /\ now <= now'
      <3>1. PICK d \in Delays : now + d <= MaxTime /\ now' = now + d
        BY <1>2 DEF Elapse
      <3>2. now \in Nat /\ d \in Nat /\ MaxTime \in Nat
        BY RateAssumption DEF IInv, TypeOK
      <3>3. QED
        BY <3>1, <3>2
    <2>2. UNCHANGED <<limit, buckets, verdict, admitted, refused, promise>>
      BY <1>2 DEF Elapse
    <2>3. \A o \in Owners : \/ buckets'[o] = NoBucket
                            \/ /\ buckets'[o].tokens \in 0..limit * Token
                               /\ buckets'[o].last \in 0..now'
      BY <2>1, <2>2 DEF IInv, TypeOK
    <2>4. QED
      BY <2>1, <2>2, <2>3 DEF IInv, TypeOK, NoBucket, Token, Never
  <1>3. CASE /\ UNCHANGED <<limit, buckets, now, admitted, refused, promise>>
             /\ verdict' = verdict \/ verdict' = "forwarded"
    BY <1>3 DEF IInv, TypeOK, NoBucket, Token, Never
  <1>4. QED
    BY <1>1, <1>2, <1>3, NextCases

LEMMA InitIInv == Init => IInv
  <1> SUFFICES ASSUME Init
               PROVE  IInv
    OBVIOUS
  <1>1. TypeOK /\ buckets \in [Owners -> Buckets]
    BY RateAssumption DEF Init, TypeOK, Buckets, NoBucket, Never
  <1>2. ASSUME NEW o \in Owners
        PROVE  Sound(o)
    <2>1. /\ BucketFor(o) = [tokens |-> limit * Token, last |-> now]
          /\ admitted[o] = <<>> /\ refused[o] = Never /\ promise[o] = Never
          /\ limit \in Nat
      BY RateAssumption DEF Init, BucketFor
    <2>2. DOMAIN admitted[o] = {} /\ Len(admitted[o]) = 0
      BY <2>1
    <2>3. limit * Token + 0 * Token >= limit * Token
      BY <2>1 DEF Token
    <2>4. QED
      BY <2>1, <2>2, <2>3 DEF Sound, Bounded, Spent, Refusal
  <1>3. QED
    BY <1>1, <1>2 DEF IInv

LEMMA Invariance == Spec => []IInv
  <1>1. IInv /\ [Next]_vars => IInv'
    BY NextTypeOK, NextSound DEF IInv
  <1>2. QED
    BY InitIInv, <1>1, PTL DEF Spec

-----------------------------------------------------------------------------
(* The theorems.                                                           *)

\* The limiter's state has its type: no bucket ever holds more than the limit
\* or less than nothing (TypeOK).
THEOREM TypeCorrect == Spec => []TypeOK
  BY Invariance, PTL DEF IInv

\* However a tenant spaces its requests, no stretch of time gets more of them
\* through than a bucketful and its refill.
THEOREM AdmissionIsBounded == Spec => []AdmissionBound
  <1>1. ASSUME IInv, NEW o \in Owners, NEW i \in DOMAIN admitted[o]
        PROVE  (Len(admitted[o]) - i + 1) * Token <= limit * Token + limit * (now - admitted[o][i])
    <2>1. Bounded(o, Fresh(o)) /\ Fresh(o).tokens >= 0 /\ Fresh(o).last = now
      BY <1>1, FreshHolds, RefillExact DEF Fresh
    <2>2. /\ admitted[o] \in Seq(0..MaxTime) /\ i \in 1..Len(admitted[o])
          /\ Len(admitted[o]) \in Nat /\ admitted[o][i] \in Nat /\ limit \in Nat /\ now \in Nat
          /\ Fresh(o).tokens \in Nat
      BY <1>1, RateAssumption, BucketForType, RefillExact DEF IInv, TypeOK, Fresh, Token
    <2>3. PICK w \in Int, x \in Nat : w = limit * (now - admitted[o][i]) /\ x = Fresh(o).tokens
      BY <2>2
    <2>4. (Len(admitted[o]) - i + 1) * Token + x <= limit * Token + w
      BY <2>1, <2>3 DEF Bounded
    <2>5. (Len(admitted[o]) - i + 1) * Token <= limit * Token + w
      BY <2>2, <2>4 DEF Token
    <2>6. QED
      BY <2>3, <2>5
  <1>2. IInv => AdmissionBound
    BY <1>1 DEF AdmissionBound
  <1>3. QED
    BY <1>2, Invariance, PTL

\* A refusal is earned: "limit" requests of the class had been forwarded to
\* the tenant in the minute before.
THEOREM RefusalsAreEarned == Spec => []RefusalIsEarned
  <1>1. ASSUME IInv, NEW o \in Owners, refused[o] # Never
        PROVE  LET k == Quantify(DOMAIN admitted[o], LAMBDA i : admitted[o][i] <= refused[o])
               IN  k >= limit /\ admitted[o][k - limit + 1] > refused[o] - 60
    <2>1. Earned(o) /\ limit \in Nat
      BY <1>1, BucketForType DEF IInv, Sound, Refusal
    <2>2. PICK k \in limit..Len(admitted[o]) :
              /\ \A i \in DOMAIN admitted[o] : admitted[o][i] <= refused[o] <=> i <= k
              /\ admitted[o][k - limit + 1] > refused[o] - 60
      BY <2>1 DEF Earned
    <2>3. DOMAIN admitted[o] = 1..Len(admitted[o]) /\ Len(admitted[o]) \in Nat
      BY <1>1 DEF IInv, TypeOK
    <2>4. {i \in DOMAIN admitted[o] : admitted[o][i] <= refused[o]} = 1..k
      BY <2>1, <2>2, <2>3
    <2>5. Cardinality(1..k) = k
      BY <2>1, <2>2, <2>3, FS_Interval
    <2>6. Quantify(DOMAIN admitted[o], LAMBDA i : admitted[o][i] <= refused[o]) = k
      BY <2>4, <2>5 DEF Quantify
    <2>7. k >= limit
      BY <2>1, <2>2, <2>3
    <2>8. QED
      BY ONLY <2>2, <2>6, <2>7
  <1>2. IInv => RefusalIsEarned
    BY <1>1 DEF RefusalIsEarned
  <1>3. QED
    BY <1>2, Invariance, PTL

\* The promise, for plain numbers.
LEMMA WaitingFor ==
    ASSUME NEW k \in Nat, NEW l \in Nat, NEW m \in Nat, NEW w \in Nat, NEW p,
           p = l + w, k + w * m >= Token, w > 1 => k + (w - 1) * m < Token
    PROVE  k + (p - l) * m >= Token /\ (p > l + 1 => k + (p - 1 - l) * m < Token)
  <1>1. p \in Nat /\ p - l = w /\ p - 1 - l = w - 1 /\ (p > l + 1 => w > 1)
    OBVIOUS
  <1>2. k + (p - l) * m >= Token
    BY ONLY <1>1, k + w * m >= Token
  <1>3. p > l + 1 => k + (p - 1 - l) * m < Token
    BY ONLY <1>1, w > 1 => k + (w - 1) * m < Token
  <1>4. QED
    BY <1>2, <1>3

\* A client that waits for as long as it was told finds a token, and would not
\* a second earlier unless it was told to wait for one second.
THEOREM RetryAfterIsExact == Spec => []RetryAfterIsRight
  <1>1. ASSUME IInv, NEW o \in Owners, promise[o] # Never
        PROVE  LET at(t) == buckets[o].tokens + (t - buckets[o].last) * limit
               IN  /\ at(promise[o]) >= Token
                   /\ promise[o] > refused[o] + 1 => at(promise[o] - 1) < Token
    <2>1. /\ Refusal(o, BucketFor(o)) /\ buckets[o] = BucketFor(o) /\ limit > 0
          /\ refused[o] = buckets[o].last /\ promise[o] = buckets[o].last + RetryAfter(buckets[o].tokens)
      BY <1>1 DEF IInv, Sound, Refusal
    <2>2. buckets[o].tokens \in Nat /\ buckets[o].last \in Nat /\ limit \in Nat
      BY <1>1, <2>1, BucketForType DEF Token
    <2>3. buckets[o].tokens \in 0..Token - 1
      BY <2>1, <2>2 DEF Refusal, Never, Token
    <2>4. /\ RetryAfter(buckets[o].tokens) \in Nat
          /\ buckets[o].tokens + RetryAfter(buckets[o].tokens) * limit >= Token
          /\ RetryAfter(buckets[o].tokens) > 1
               => buckets[o].tokens + (RetryAfter(buckets[o].tokens) - 1) * limit < Token
      BY <1>1, <2>1, <2>3, RetryAfterExact DEF IInv
    <2>5. /\ buckets[o].tokens + (promise[o] - buckets[o].last) * limit >= Token
          /\ promise[o] > buckets[o].last + 1
               => buckets[o].tokens + (promise[o] - 1 - buckets[o].last) * limit < Token
      BY ONLY <2>1, <2>2, <2>4, WaitingFor
    <2>6. QED
      BY ONLY <2>1, <2>5
  <1>2. IInv => RetryAfterIsRight
    BY <1>1 DEF RetryAfterIsRight
  <1>3. QED
    BY <1>2, Invariance, PTL
=============================================================================
