---------------------------- MODULE Idempotency ----------------------------
(***************************************************************************)
(* IdempotencyMiddleware (src/src/hawiya/tenancy/idempotency.py) in front  *)
(* of the handlers, on several workers that each keep a store of their own.*)
(*                                                                         *)
(* asyncio runs each piece between two awaits at once, and the in-memory   *)
(* store never yields: looking a key up is one step, and so is putting the *)
(* response.  Between the two the handler runs and its database session    *)
(* ends, and other requests take their steps.                              *)
(*                                                                         *)
(* A response is named by the request whose handler produced it, a body by *)
(* itself (sha256 taken as injective).  The clock counts ticks; a request  *)
(* may last any number of them.                                            *)
(***************************************************************************)
EXTENDS Naturals, FiniteSets

CONSTANTS
    Requests,
    Workers,      \* processes, each with its InMemoryIdempotencyStore
    Tenants,
    Keys,         \* values of the Idempotency-Key header
    Bodies,
    NoValue,      \* an absent header
    Inputs,       \* the requests the consumers may send
    Faulty,       \* the requests that may be refused, fail
    TTL,          \* ttl_seconds, in ticks
    MaxTime,      \* bound on the clock
    MaxRestarts,  \* bound on the worker restarts
    CommitFirst   \* whether the session ends before the response is sent

InputType == [method: {"GET", "POST"}, tenant: Tenants \cup {NoValue},
              key: Keys \cup {NoValue}, body: Bodies]

Unsent == [method |-> "GET", tenant |-> NoValue, key |-> NoValue, body |-> NoValue]

ASSUME InputAssumption ==
    /\ NoValue \notin Requests \cup Workers \cup Tenants \cup Keys \cup Bodies
    /\ Inputs \subseteq InputType

ASSUME BoundAssumption ==
    /\ Faulty \subseteq Requests
    /\ TTL \in Nat /\ MaxTime \in Nat /\ MaxRestarts \in Nat
    /\ CommitFirst \in BOOLEAN

VARIABLES
    req,        \* the input of each request
    worker,     \* the worker it reached
    pc,         \* where it is
    effect,     \* the state of its handler's transaction
    ok,         \* whether the captured status is 2xx
    answer,     \* what its client received
    store,      \* store[w][<<tenant, key>>]: the cached response, or Miss
    now,        \* time.time()
    restarts,
    \* History, read by no action:
    ran,        \* the requests that reached their handler
    before,     \* the requests that had ended, their response stored,
                \* when this one arrived
    lookedAt,   \* when its key was looked up
    storedAt,   \* when its response was put in the store
    forgotten   \* those whose worker has restarted since

history == <<ran, before, lookedAt, storedAt, forgotten>>
vars == <<req, worker, pc, effect, ok, answer, store, now, restarts, history>>

Slots == Tenants \X Keys

\* CachedResponse.  The status, the headers and the bytes are those of the
\* response of the request "from".
Entries == [from: Requests, body: Bodies, expires: Nat]
Miss == [from |-> NoValue, body |-> NoValue, expires |-> 0]

Answers == [kind: {"none", "fresh", "replay", "conflict", "refused", "error", "lost"},
            from: Requests \cup {NoValue}]
Answer(k, f) == [kind |-> k, from |-> f]

PCs == {"idle", "lookup", "handler", "commit", "respond", "done"}
Never == MaxTime + TTL + 1

TypeOK ==
    /\ req \in [Requests -> Inputs \cup {Unsent}]
    /\ worker \in [Requests -> Workers \cup {NoValue}]
    /\ pc \in [Requests -> PCs]
    /\ effect \in [Requests -> {"none", "open", "committed", "aborted"}]
    /\ ok \in [Requests -> BOOLEAN]
    /\ answer \in [Requests -> Answers]
    /\ store \in [Workers -> [Slots -> Entries \cup {Miss}]]
    /\ now \in 0..MaxTime /\ restarts \in 0..MaxRestarts
    /\ ran \subseteq Requests /\ forgotten \subseteq Requests
    /\ before \in [Requests -> SUBSET Requests]
    /\ lookedAt \in [Requests -> Nat] /\ storedAt \in [Requests -> Nat]

Init ==
    /\ req = [r \in Requests |-> Unsent]
    /\ worker = [r \in Requests |-> NoValue]
    /\ pc = [r \in Requests |-> "idle"]
    /\ effect = [r \in Requests |-> "none"]
    /\ ok = [r \in Requests |-> FALSE]
    /\ answer = [r \in Requests |-> Answer("none", NoValue)]
    /\ store = [w \in Workers |-> [s \in Slots |-> Miss]]
    /\ now = 0 /\ restarts = 0
    /\ ran = {} /\ forgotten = {}
    /\ before = [r \in Requests |-> {}]
    /\ lookedAt = [r \in Requests |-> Never]
    /\ storedAt = [r \in Requests |-> Never]

-----------------------------------------------------------------------------
(* The store.                                                              *)

\* The requests the middleware does not pass through: a POST with a key and a
\* tenant header that is a UUID.
Keyed(i) == i.method = "POST" /\ i.key # NoValue /\ i.tenant # NoValue

\* Seeded bug: the key without its tenant.
SlotAnyTenant(r) == <<CHOOSE t \in Tenants : TRUE, req[r].key>>

Slot(r) == <<req[r].tenant, req[r].key>>

\* Seeded bug: an entry expires one tick early.
ExpiredEarly(e) == e # Miss /\ e.expires <= now

Expired(e) == e # Miss /\ e.expires < now

\* InMemoryIdempotencyStore.get: what it returns, and the store it leaves.
Get(r) == LET e == store[worker[r]][Slot(r)] IN IF Expired(e) THEN Miss ELSE e

AfterGet(r) ==
    IF Expired(store[worker[r]][Slot(r)])
    THEN [store EXCEPT ![worker[r]][Slot(r)] = Miss]
    ELSE store

\* Seeded bug: an entry without the body's hash.
PutWithoutHash(r) ==
    IF Keyed(req[r]) /\ ok[r]
    THEN [store EXCEPT ![worker[r]][Slot(r)] =
            [from |-> r, body |-> NoValue, expires |-> now + TTL]]
    ELSE store

\* The capturing send, on the last piece of the body: a 2xx is put before it
\* is passed on, replacing what the slot holds.
Put(r) ==
    IF Keyed(req[r]) /\ ok[r]
    THEN [store EXCEPT ![worker[r]][Slot(r)] =
            [from |-> r, body |-> req[r].body, expires |-> now + TTL]]
    ELSE store

-----------------------------------------------------------------------------
(* Requests.                                                               *)

\* A consumer sends i and it reaches worker w: __call__ up to the end of
\* _collect_body, which awaits the client.
Arrive(r, i, w) ==
    /\ pc[r] = "idle"
    /\ req' = [req EXCEPT ![r] = i]
    /\ worker' = [worker EXCEPT ![r] = w]
    /\ pc' = [pc EXCEPT ![r] = IF Keyed(i) THEN "lookup" ELSE "handler"]
    /\ ran' = IF Keyed(i) THEN ran ELSE ran \cup {r}
    /\ before' = [before EXCEPT ![r] = {q \in Requests : pc[q] = "done" /\ storedAt[q] # Never}]
    /\ UNCHANGED <<effect, ok, answer, store, now, restarts,
                   lookedAt, storedAt, forgotten>>

\* A miss: the request is forwarded to the application.
Forward(r) ==
    /\ pc[r] = "lookup" /\ Get(r) = Miss
    /\ pc' = [pc EXCEPT ![r] = "handler"]
    /\ store' = AfterGet(r)
    /\ ran' = ran \cup {r}
    /\ lookedAt' = [lookedAt EXCEPT ![r] = now]
    /\ UNCHANGED <<req, worker, effect, ok, answer, now, restarts,
                   before, storedAt, forgotten>>

\* Seeded bug: the digest compared with the hexadecimal one.
SameBodyNever(r, e) == FALSE

SameBody(r, e) == e.body = req[r].body

\* A hit: the stored response, or 422 when the body differs.
Reply(r) ==
    /\ pc[r] = "lookup" /\ Get(r) # Miss
    /\ pc' = [pc EXCEPT ![r] = "done"]
    /\ lookedAt' = [lookedAt EXCEPT ![r] = now]
    /\ answer' = [answer EXCEPT ![r] =
                     IF SameBody(r, Get(r)) THEN Answer("replay", Get(r).from)
                     ELSE Answer("conflict", NoValue)]
    /\ UNCHANGED <<req, worker, effect, ok, store, now, restarts,
                   ran, before, storedAt, forgotten>>

\* The handler: it leaves a transaction to commit, answers 4xx after rolling
\* back, or raises, which no send of this middleware sees (the 500 is sent by
\* the outermost layer).
Handle(r) ==
    /\ pc[r] = "handler"
    /\ \/ /\ effect' = [effect EXCEPT ![r] = "open"]
          /\ ok' = [ok EXCEPT ![r] = TRUE]
          /\ pc' = [pc EXCEPT ![r] = IF CommitFirst THEN "commit" ELSE "respond"]
          /\ UNCHANGED answer
       \/ /\ r \in Faulty
          /\ effect' = [effect EXCEPT ![r] = "aborted"]
          /\ pc' = [pc EXCEPT ![r] = "respond"]
          /\ UNCHANGED <<ok, answer>>
       \/ /\ r \in Faulty
          /\ effect' = [effect EXCEPT ![r] = "aborted"]
          /\ pc' = [pc EXCEPT ![r] = "done"]
          /\ answer' = [answer EXCEPT ![r] = Answer("error", NoValue)]
          /\ UNCHANGED ok
    /\ UNCHANGED <<req, worker, store, now, restarts, history>>

\* get_session's exit, before the response or after it.
Commit(r) ==
    /\ pc[r] = "commit"
    /\ effect' = [effect EXCEPT ![r] = "committed"]
    /\ pc' = [pc EXCEPT ![r] = IF CommitFirst THEN "respond" ELSE "done"]
    /\ UNCHANGED <<req, worker, ok, answer, store, now, restarts, history>>

\* Seeded bug: the failed commit is not reported.
CommitFailsUnseen(r) ==
    /\ pc[r] = "commit" /\ r \in Faulty
    /\ effect' = [effect EXCEPT ![r] = "aborted"]
    /\ pc' = [pc EXCEPT ![r] = IF CommitFirst THEN "respond" ELSE "done"]
    /\ UNCHANGED <<req, worker, ok, answer, store, now, restarts, history>>

\* The commit raises: a 500 if nothing was sent yet.
CommitFails(r) ==
    /\ pc[r] = "commit" /\ r \in Faulty
    /\ effect' = [effect EXCEPT ![r] = "aborted"]
    /\ pc' = [pc EXCEPT ![r] = "done"]
    /\ answer' = IF CommitFirst
                 THEN [answer EXCEPT ![r] = Answer("error", NoValue)] ELSE answer
    /\ UNCHANGED <<req, worker, ok, store, now, restarts, history>>

Respond(r) ==
    /\ pc[r] = "respond"
    /\ store' = Put(r)
    /\ storedAt' = IF Keyed(req[r]) /\ ok[r] THEN [storedAt EXCEPT ![r] = now] ELSE storedAt
    /\ answer' = [answer EXCEPT ![r] = IF ok[r] THEN Answer("fresh", r)
                                      ELSE Answer("refused", NoValue)]
    /\ pc' = [pc EXCEPT ![r] = IF ok[r] /\ ~CommitFirst THEN "commit" ELSE "done"]
    /\ UNCHANGED <<req, worker, effect, ok, now, restarts,
                   ran, before, lookedAt, forgotten>>

\* A worker dies and is replaced: its store is lost, and so are the requests
\* it was serving, whose transactions PostgreSQL rolls back.
Restart(w) ==
    LET inFlight == {r \in Requests : worker[r] = w /\ pc[r] \notin {"idle", "done"}}
    IN  /\ restarts < MaxRestarts
        /\ restarts' = restarts + 1
        /\ store' = [store EXCEPT ![w] = [s \in Slots |-> Miss]]
        /\ pc' = [r \in Requests |-> IF r \in inFlight THEN "done" ELSE pc[r]]
        /\ effect' = [r \in Requests |->
                        IF r \in inFlight /\ effect[r] = "open" THEN "aborted"
                        ELSE effect[r]]
        /\ answer' = [r \in Requests |->
                        IF r \in inFlight /\ answer[r].kind = "none"
                        THEN Answer("lost", NoValue) ELSE answer[r]]
        /\ forgotten' = forgotten \cup
                          {r \in Requests : worker[r] = w /\ storedAt[r] # Never}
        /\ UNCHANGED <<req, worker, ok, now, ran, before, lookedAt, storedAt>>

Tick ==
    /\ now < MaxTime
    /\ now' = now + 1
    /\ UNCHANGED <<req, worker, pc, effect, ok, answer, store, restarts, history>>

Terminating == (\A r \in Requests : pc[r] = "done") /\ UNCHANGED vars

Serve(r) == Forward(r) \/ Reply(r) \/ Handle(r)
            \/ Commit(r) \/ CommitFails(r) \/ Respond(r)

Next ==
    \/ \E r \in Requests, i \in Inputs, w \in Workers : Arrive(r, i, w)
    \/ \E r \in Requests : Serve(r)
    \/ \E w \in Workers : Restart(w)
    \/ Tick
    \/ Terminating

Spec == Init /\ [][Next]_vars
-----------------------------------------------------------------------------
(* What the middleware promises.                                           *)

SameSlot(q, r) == Keyed(req[q]) /\ Keyed(req[r]) /\ Slot(q) = Slot(r)

\* A replayed response is the 2xx response to the same key and body of the
\* same tenant, and no older than the TTL.
ReplayIsTheAnswer ==
    \A r \in Requests : answer[r].kind = "replay" =>
        LET q == answer[r].from IN
        /\ req[q].tenant = req[r].tenant /\ req[q].key = req[r].key
        /\ req[q].body = req[r].body
        /\ req[q].method = "POST" /\ ok[q]
        /\ worker[q] = worker[r]
        /\ storedAt[q] <= lookedAt[r] /\ lookedAt[r] <= storedAt[q] + TTL

\* With the session ended before the response, whatever the stores hold, and
\* so whatever they will replay for a day, has been committed.
CachedIsCommitted ==
    CommitFirst =>
        \A w \in Workers, s \in Slots :
            store[w][s] # Miss => effect[store[w][s].from] = "committed"

\* A retry that reaches the same worker, alive since, within the TTL of a 2xx
\* response that ended before the retry began, does not reach the handler:
\* the creation runs once.
RetryRunsOnce ==
    \A q, r \in Requests :
        /\ SameSlot(q, r) /\ q \in before[r] /\ worker[q] = worker[r]
        /\ q \notin forgotten /\ lookedAt[r] <= storedAt[q] + TTL
        => r \notin ran

\* A client is told of a conflict only if the same tenant did use the key with
\* another body, successfully, within the TTL.
ConflictHasACause ==
    \A r \in Requests : answer[r].kind = "conflict" =>
        \E q \in Requests :
            /\ SameSlot(q, r) /\ req[q].body # req[r].body
            /\ storedAt[q] <= lookedAt[r] /\ lookedAt[r] <= storedAt[q] + TTL

\* "the same key replayed within the TTL must return the same response"
\* (docstring of idempotency.py): two 2xx answers to the same key and body,
\* neither older than the TTL, are the same response.
SameResponse ==
    \A q, r \in Requests :
        /\ SameSlot(q, r) /\ req[q].body = req[r].body
        /\ answer[q].kind \in {"fresh", "replay"} /\ answer[r].kind \in {"fresh", "replay"}
        /\ q # r /\ now <= TTL
        => answer[q].from = answer[r].from
=============================================================================
