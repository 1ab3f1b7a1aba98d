-------------------------- MODULE IdempotencyProofs -------------------------
(***************************************************************************)
(* Theorems about Idempotency, for every set of requests, workers, tenants *)
(* keys and bodies, every TTL, and both values of CommitFirst.             *)
(*                                                                         *)
(* What a client is told rests on an entry that another request left, so   *)
(* the inductive invariant says where every entry comes from (EntryOf) and *)
(* what has become of every response that was put (Kept): it is still in   *)
(* its slot, or a later one is, or its time is over, or its worker has     *)
(* restarted.  The rest is what a request's place in the code says of it   *)
(* (Place) and of its response (Stored), and that a retry began after the  *)
(* request it retries had ended (Earlier).                                 *)
(***************************************************************************)
EXTENDS Idempotency, TLAPS

\* What has happened to a request, by where it is.
Place ==
    \A r \in Requests :
        /\ pc[r] \in {"idle", "lookup"} => answer[r].kind = "none" /\ r \notin ran
        /\ pc[r] # "idle" => worker[r] \in Workers
        /\ pc[r] = "lookup" => Keyed(req[r])
        /\ pc[r] \in {"idle", "lookup"} => lookedAt[r] = Never
        /\ lookedAt[r] # Never => lookedAt[r] <= now
        /\ ok[r] => pc[r] \in {"commit", "respond", "done"}
        /\ CommitFirst /\ ok[r] /\ pc[r] = "respond" => effect[r] = "committed"

\* A response that has been put is the 2xx of a request with a key, once the
\* captured status was known, and after the commit if that comes first.
Stored ==
    \A q \in Requests : storedAt[q] # Never =>
        /\ storedAt[q] <= now
        /\ Keyed(req[q]) /\ ok[q] /\ worker[q] \in Workers
        /\ pc[q] \in {"commit", "done"}
        /\ CommitFirst => pc[q] = "done" /\ effect[q] = "committed"

\* Every entry is the response of a request of this worker and this slot.
EntryOf ==
    \A w \in Workers, s \in Slots : store[w][s] # Miss =>
        LET e == store[w][s] IN
        /\ e.from \in Requests /\ storedAt[e.from] # Never
        /\ worker[e.from] = w /\ Slot(e.from) = s
        /\ e.body = req[e.from].body
        /\ e.expires = storedAt[e.from] + TTL

\* A response put by a worker that lives is there until its time is over,
\* unless a later one has replaced it.
Kept ==
    \A q \in Requests : storedAt[q] # Never /\ q \notin forgotten =>
        \/ storedAt[q] + TTL < now
        \/ LET e == store[worker[q]][Slot(q)]
           IN  e # Miss /\ storedAt[q] + TTL <= e.expires

\* What had ended when a request arrived has ended.
Earlier ==
    \A r \in Requests : \A q \in before[r] : pc[q] = "done" /\ storedAt[q] # Never

\* The answer of r rests on the response of q: of its slot and worker, 2xx, and
\* in its time when the key was looked up.
Served(r, q) ==
    /\ q \in Requests /\ storedAt[q] # Never
    /\ SameSlot(q, r) /\ ok[q] /\ worker[q] = worker[r]
    /\ storedAt[q] <= lookedAt[r] /\ lookedAt[r] <= storedAt[q] + TTL

ReplayServed ==
    \A r \in Requests : answer[r].kind = "replay" =>
        Served(r, answer[r].from) /\ req[answer[r].from].body = req[r].body

ConflictServed ==
    \A r \in Requests : answer[r].kind = "conflict" =>
        \E q \in Requests : Served(r, q) /\ req[q].body # req[r].body

IInv ==
    /\ TypeOK /\ Place /\ Stored /\ EntryOf /\ Kept /\ Earlier
    /\ ReplayServed /\ ConflictServed /\ RetryRunsOnce

-----------------------------------------------------------------------------
(* Every step, once for all the step proofs.                               *)

LEMMA NextCases ==
    ASSUME Next
    PROVE  \/ \E r \in Requests, i \in Inputs, w \in Workers : Arrive(r, i, w)
           \/ \E r \in Requests :
                 \/ Forward(r) \/ Reply(r) \/ Handle(r)
                 \/ Commit(r) \/ CommitFails(r) \/ Respond(r)
           \/ \E w \in Workers : Restart(w)
           \/ Tick
           \/ UNCHANGED vars
  BY DEF Next, Serve, Terminating

\* The clock never shows Never.
LEMMA NeverIsLate == Never \in Nat /\ \A t \in 0..MaxTime : t + TTL < Never /\ t # Never
  BY BoundAssumption DEF Never

\* A request with a key and a tenant has a slot in every store.
LEMMA SlotType ==
    ASSUME TypeOK, NEW r \in Requests, Keyed(req[r])
    PROVE  Slot(r) \in Slots /\ req[r].body \in Bodies
  BY InputAssumption DEF TypeOK, Keyed, Slot, Slots, InputType, Unsent

\* What a lookup does to the store: nothing, but that its own slot is emptied
\* of an entry whose time is over.
LEMMA ForwardStore ==
    ASSUME TypeOK, Place, NEW r \in Requests, Forward(r)
    PROVE  /\ worker[r] \in Workers /\ Slot(r) \in Slots
           /\ store' \in [Workers -> [Slots -> Entries \cup {Miss}]]
           /\ store'[worker[r]][Slot(r)] = Miss
           /\ \A w \in Workers, s \in Slots :
                  \/ store'[w][s] = store[w][s]
                  \/ store'[w][s] = Miss /\ store[w][s].expires < now
  <1>1. worker[r] \in Workers /\ Slot(r) \in Slots
    BY SlotType DEF Forward, Place
  <1>2. CASE Expired(store[worker[r]][Slot(r)])
    <2>1. store' = [store EXCEPT ![worker[r]][Slot(r)] = Miss]
      BY <1>2 DEF Forward, AfterGet
    <2>2. QED
      BY <1>1, <1>2, <2>1 DEF TypeOK, Expired
  <1>3. CASE ~Expired(store[worker[r]][Slot(r)])
    <2>1. store' = store /\ store[worker[r]][Slot(r)] = Miss
      BY <1>3 DEF Forward, AfterGet, Get
    <2>2. QED
      BY <1>1, <2>1 DEF TypeOK
  <1>4. QED
    BY <1>2, <1>3

\* What a response does to the store: nothing, or its own entry in its slot.
LEMMA RespondStore ==
    ASSUME TypeOK, Place, NEW r \in Requests, Respond(r)
    PROVE  /\ store' \in [Workers -> [Slots -> Entries \cup {Miss}]]
           /\ \/ store' = store /\ storedAt' = storedAt
              \/ /\ Keyed(req[r]) /\ ok[r] /\ worker[r] \in Workers /\ Slot(r) \in Slots
                 /\ storedAt' = [storedAt EXCEPT ![r] = now]
                 /\ store'[worker[r]][Slot(r)] =
                        [from |-> r, body |-> req[r].body, expires |-> now + TTL]
                 /\ \A w \in Workers, s \in Slots :
                        ~(w = worker[r] /\ s = Slot(r)) => store'[w][s] = store[w][s]
  <1>1. CASE ~(Keyed(req[r]) /\ ok[r])
    BY <1>1 DEF Respond, Put, TypeOK
  <1>2. CASE Keyed(req[r]) /\ ok[r]
    <2> DEFINE e == [from |-> r, body |-> req[r].body, expires |-> now + TTL]
    <2>1. worker[r] \in Workers /\ Slot(r) \in Slots /\ req[r].body \in Bodies
      BY <1>2, SlotType DEF Respond, Place
    <2>2. e \in Entries
      BY <2>1, BoundAssumption DEF Entries, TypeOK
    <2>3. store' = [store EXCEPT ![worker[r]][Slot(r)] = e]
          /\ storedAt' = [storedAt EXCEPT ![r] = now]
      BY <1>2 DEF Respond, Put
    <2> HIDE DEF e
    <2>4. /\ store' \in [Workers -> [Slots -> Entries \cup {Miss}]]
          /\ store'[worker[r]][Slot(r)] = e
          /\ \A w \in Workers, s \in Slots :
                ~(w = worker[r] /\ s = Slot(r)) => store'[w][s] = store[w][s]
      BY <2>1, <2>2, <2>3 DEF TypeOK
    <2>5. QED
      BY <1>2, <2>1, <2>3, <2>4 DEF e
  <1>3. QED
    BY <1>1, <1>2

\* A hit: the entry it found.
LEMMA ReplyEntry ==
    ASSUME TypeOK, Place, NEW r \in Requests, Reply(r)
    PROVE  /\ worker[r] \in Workers /\ Slot(r) \in Slots
           /\ store[worker[r]][Slot(r)] # Miss
           /\ store[worker[r]][Slot(r)] \in Entries
           /\ now <= store[worker[r]][Slot(r)].expires
           /\ Get(r) = store[worker[r]][Slot(r)]
  <1> DEFINE e == store[worker[r]][Slot(r)]
  <1>1. worker[r] \in Workers /\ Slot(r) \in Slots
    BY SlotType DEF Reply, Place
  <1>2. e \in Entries \cup {Miss}
    BY <1>1 DEF TypeOK
  <1>3. e # Miss /\ ~Expired(e) /\ Get(r) = e
    BY DEF Reply, Get
  <1>4. e \in Entries /\ now <= e.expires
    BY <1>2, <1>3 DEF Expired, Entries, TypeOK
  <1>5. QED
    BY <1>1, <1>3, <1>4

-----------------------------------------------------------------------------
(* Type correctness.                                                       *)

LEMMA InitIInv == Init => IInv
  BY InputAssumption, BoundAssumption, NeverIsLate
     DEF Init, IInv, TypeOK, Place, Stored, EntryOf, Kept, Earlier, ReplayServed, ConflictServed,
         RetryRunsOnce, PCs, Answers, Answer

LEMMA NextTypeOK ==
    TypeOK /\ Place /\ [Next]_vars => TypeOK'
  <1> SUFFICES ASSUME TypeOK, Place, [Next]_vars
               PROVE  TypeOK'
    OBVIOUS
  <1> USE InputAssumption, BoundAssumption, NeverIsLate DEF TypeOK, PCs, Answers, Answer
  <1>1. ASSUME NEW r \in Requests, NEW i \in Inputs, NEW w \in Workers, Arrive(r, i, w) PROVE TypeOK'
    BY <1>1 DEF Arrive
  <1>2. ASSUME NEW r \in Requests, Forward(r) PROVE TypeOK'
    <2>1. store' \in [Workers -> [Slots -> Entries \cup {Miss}]]
      BY <1>2, ForwardStore
    <2>2. QED
      BY <1>2, <2>1 DEF Forward
  <1>3. ASSUME NEW r \in Requests, Reply(r) PROVE TypeOK'
    <2>1. store[worker[r]][Slot(r)].from \in Requests
      BY <1>3, ReplyEntry DEF Entries
    <2>2. answer' \in [Requests -> Answers]
      BY <1>3, <2>1, ReplyEntry DEF Reply
    <2>3. QED
      BY <1>3, <2>2 DEF Reply
  <1>4. ASSUME NEW r \in Requests, Handle(r) PROVE TypeOK'
    <2>1. /\ effect' \in [Requests -> {"none", "open", "committed", "aborted"}]
          /\ ok' \in [Requests -> BOOLEAN]
      BY <1>4 DEF Handle
    <2>2. \E x \in {"commit", "respond", "done"} : pc' = [pc EXCEPT ![r] = x]
      BY <1>4 DEF Handle
    <2>3. pc' \in [Requests -> PCs]
      BY <2>2
    <2>4. answer' \in [Requests -> Answers]
      BY <1>4 DEF Handle
    <2>5. QED
      BY <1>4, <2>1, <2>3, <2>4 DEF Handle, history
  <1>5. ASSUME NEW r \in Requests, Commit(r) PROVE TypeOK'
    BY <1>5 DEF Commit, history
  <1>6. ASSUME NEW r \in Requests, CommitFails(r) PROVE TypeOK'
    BY <1>6 DEF CommitFails, history
  <1>7. ASSUME NEW r \in Requests, Respond(r) PROVE TypeOK'
    <2>1. store' \in [Workers -> [Slots -> Entries \cup {Miss}]]
      BY <1>7, RespondStore
    <2>2. pc' \in [Requests -> PCs]
      BY <1>7 DEF Respond
    <2>3. answer' \in [Requests -> Answers]
      BY <1>7 DEF Respond
    <2>4. storedAt' \in [Requests -> Nat]
      BY <1>7 DEF Respond
    <2>5. QED
      BY <1>7, <2>1, <2>2, <2>3, <2>4 DEF Respond
  <1>8. ASSUME NEW w \in Workers, Restart(w) PROVE TypeOK'
    BY <1>8 DEF Restart
  <1>9. ASSUME Tick PROVE TypeOK'
    BY <1>9 DEF Tick, history
  <1>10. CASE UNCHANGED vars
    BY <1>10 DEF vars, history
  <1>11. QED
    BY <1>1, <1>2, <1>3, <1>4, <1>5, <1>6, <1>7, <1>8, <1>9, <1>10, NextCases

-----------------------------------------------------------------------------
(* Requests and entries.                                                   *)

LEMMA NextPlace ==
    TypeOK /\ Place /\ [Next]_vars => Place'
  <1> SUFFICES ASSUME TypeOK, Place, [Next]_vars
               PROVE  Place'
    OBVIOUS
  <1> USE NeverIsLate DEF TypeOK, Place, Answers, Answer
  <1>1. ASSUME NEW r \in Requests, NEW i \in Inputs, NEW w \in Workers, Arrive(r, i, w) PROVE Place'
    BY <1>1 DEF Arrive
  <1>2. ASSUME NEW r \in Requests, Forward(r) PROVE Place'
    BY <1>2 DEF Forward
  <1>3. ASSUME NEW r \in Requests, Reply(r) PROVE Place'
    BY <1>3 DEF Reply
  <1>4. ASSUME NEW r \in Requests, Handle(r) PROVE Place'
    BY <1>4 DEF Handle, history
  <1>5. ASSUME NEW r \in Requests, Commit(r) PROVE Place'
    BY <1>5 DEF Commit, history
  <1>6. ASSUME NEW r \in Requests, CommitFails(r) PROVE Place'
    BY <1>6 DEF CommitFails, history
  <1>7. ASSUME NEW r \in Requests, Respond(r) PROVE Place'
    BY <1>7 DEF Respond
  <1>8. ASSUME NEW w \in Workers, Restart(w) PROVE Place'
    BY <1>8 DEF Restart
  <1>9. ASSUME Tick PROVE Place'
    BY <1>9 DEF Tick, history
  <1>10. CASE UNCHANGED vars
    BY <1>10 DEF vars, history
  <1>11. QED
    BY <1>1, <1>2, <1>3, <1>4, <1>5, <1>6, <1>7, <1>8, <1>9, <1>10, NextCases

LEMMA NextStored ==
    TypeOK /\ Place /\ Stored /\ [Next]_vars => Stored'
  <1> SUFFICES ASSUME TypeOK, Place, Stored, [Next]_vars
               PROVE  Stored'
    OBVIOUS
  <1> USE NeverIsLate DEF TypeOK, Stored
  <1>1. ASSUME NEW r \in Requests, NEW i \in Inputs, NEW w \in Workers, Arrive(r, i, w) PROVE Stored'
    BY <1>1 DEF Arrive
  <1>2. ASSUME NEW r \in Requests, Forward(r) PROVE Stored'
    BY <1>2 DEF Forward
  <1>3. ASSUME NEW r \in Requests, Reply(r) PROVE Stored'
    BY <1>3 DEF Reply
  <1>4. ASSUME NEW r \in Requests, Handle(r) PROVE Stored'
    BY <1>4 DEF Handle, history
  <1>5. ASSUME NEW r \in Requests, Commit(r) PROVE Stored'
    BY <1>5 DEF Commit, history
  <1>6. ASSUME NEW r \in Requests, CommitFails(r) PROVE Stored'
    BY <1>6 DEF CommitFails, history
  <1>7. ASSUME NEW r \in Requests, Respond(r) PROVE Stored'
    BY <1>7 DEF Respond, Place
  <1>8. ASSUME NEW w \in Workers, Restart(w) PROVE Stored'
    BY <1>8 DEF Restart
  <1>9. ASSUME Tick PROVE Stored'
    BY <1>9 DEF Tick, history
  <1>10. CASE UNCHANGED vars
    BY <1>10 DEF vars, history
  <1>11. QED
    BY <1>1, <1>2, <1>3, <1>4, <1>5, <1>6, <1>7, <1>8, <1>9, <1>10, NextCases

LEMMA NextEarlier ==
    TypeOK /\ Stored /\ Earlier /\ [Next]_vars => Earlier'
  <1> SUFFICES ASSUME TypeOK, Stored, Earlier, [Next]_vars
               PROVE  Earlier'
    OBVIOUS
  <1> USE NeverIsLate DEF TypeOK, Earlier
  <1>1. ASSUME NEW r \in Requests, NEW i \in Inputs, NEW w \in Workers, Arrive(r, i, w) PROVE Earlier'
    BY <1>1 DEF Arrive
  <1>2. ASSUME NEW r \in Requests, Forward(r) PROVE Earlier'
    BY <1>2 DEF Forward
  <1>3. ASSUME NEW r \in Requests, Reply(r) PROVE Earlier'
    BY <1>3 DEF Reply
  <1>4. ASSUME NEW r \in Requests, Handle(r) PROVE Earlier'
    BY <1>4 DEF Handle, history
  <1>5. ASSUME NEW r \in Requests, Commit(r) PROVE Earlier'
    BY <1>5 DEF Commit, history
  <1>6. ASSUME NEW r \in Requests, CommitFails(r) PROVE Earlier'
    BY <1>6 DEF CommitFails, history
  <1>7. ASSUME NEW r \in Requests, Respond(r) PROVE Earlier'
    BY <1>7 DEF Respond, Stored
  <1>8. ASSUME NEW w \in Workers, Restart(w) PROVE Earlier'
    BY <1>8 DEF Restart
  <1>9. ASSUME Tick PROVE Earlier'
    BY <1>9 DEF Tick, history
  <1>10. CASE UNCHANGED vars
    BY <1>10 DEF vars, history
  <1>11. QED
    BY <1>1, <1>2, <1>3, <1>4, <1>5, <1>6, <1>7, <1>8, <1>9, <1>10, NextCases

\* A step that leaves what is stored, and the requests it is stored of, alone.
LEMMA SameEntries ==
    ASSUME TypeOK, Stored, EntryOf, storedAt' = storedAt,
           \A q \in Requests : pc[q] # "idle" => req'[q] = req[q] /\ worker'[q] = worker[q],
           \A w \in Workers, s \in Slots : store'[w][s] \in {store[w][s], Miss}
    PROVE  EntryOf'
  <1> SUFFICES ASSUME NEW w \in Workers, NEW s \in Slots, store'[w][s] # Miss
               PROVE  LET e == store'[w][s] IN
                      /\ e.from \in Requests /\ storedAt'[e.from] # Never
                      /\ worker'[e.from] = w /\ <<req'[e.from].tenant, req'[e.from].key>> = s
                      /\ e.body = req'[e.from].body
                      /\ e.expires = storedAt'[e.from] + TTL
    BY DEF EntryOf, Slot
  <1>1. store'[w][s] = store[w][s]
    OBVIOUS
  <1>2. pc[store[w][s].from] # "idle" /\ store[w][s].from \in Requests
    BY <1>1 DEF EntryOf, Stored
  <1>3. QED
    BY <1>1, <1>2 DEF EntryOf, Slot

LEMMA NextEntryOf ==
    TypeOK /\ Place /\ Stored /\ EntryOf /\ [Next]_vars => EntryOf'
  <1> SUFFICES ASSUME TypeOK, Place, Stored, EntryOf, [Next]_vars
               PROVE  EntryOf'
    OBVIOUS
  <1> USE NeverIsLate DEF TypeOK
  <1>1. ASSUME NEW r \in Requests, NEW i \in Inputs, NEW w \in Workers, Arrive(r, i, w) PROVE EntryOf'
    BY <1>1, SameEntries DEF Arrive
  <1>2. ASSUME NEW r \in Requests, Forward(r) PROVE EntryOf'
    <2>1. \A w \in Workers, s \in Slots : store'[w][s] \in {store[w][s], Miss}
      BY <1>2, ForwardStore
    <2>2. QED
      BY <1>2, <2>1, SameEntries DEF Forward
  <1>3. ASSUME NEW r \in Requests, Reply(r) PROVE EntryOf'
    BY <1>3, SameEntries DEF Reply
  <1>4. ASSUME NEW r \in Requests, Handle(r) PROVE EntryOf'
    BY <1>4, SameEntries DEF Handle, history
  <1>5. ASSUME NEW r \in Requests, Commit(r) PROVE EntryOf'
    BY <1>5, SameEntries DEF Commit, history
  <1>6. ASSUME NEW r \in Requests, CommitFails(r) PROVE EntryOf'
    BY <1>6, SameEntries DEF CommitFails, history
  <1>7. ASSUME NEW r \in Requests, Respond(r) PROVE EntryOf'
    <2>1. UNCHANGED <<req, worker>> /\ pc[r] = "respond" /\ storedAt[r] = Never
      BY <1>7 DEF Respond, Stored
    <2>2. CASE store' = store /\ storedAt' = storedAt
      BY <2>1, <2>2, SameEntries
    <2>3. CASE ~(store' = store /\ storedAt' = storedAt)
      <3>1. /\ worker[r] \in Workers /\ Slot(r) \in Slots
            /\ storedAt' = [storedAt EXCEPT ![r] = now]
            /\ store'[worker[r]][Slot(r)] =
                 [from |-> r, body |-> req[r].body, expires |-> now + TTL]
            /\ \A w \in Workers, s \in Slots :
                 ~(w = worker[r] /\ s = Slot(r)) => store'[w][s] = store[w][s]
        BY <1>7, <2>3, RespondStore
      <3>2. Slot(r)' = Slot(r) /\ \A q \in Requests : Slot(q)' = Slot(q)
        BY <2>1 DEF Slot
      <3>3. ASSUME NEW w \in Workers, NEW s \in Slots, store'[w][s] # Miss,
                   ~(w = worker[r] /\ s = Slot(r))
            PROVE  LET e == store'[w][s] IN
                   /\ e.from \in Requests /\ storedAt'[e.from] # Never
                   /\ worker'[e.from] = w /\ <<req'[e.from].tenant, req'[e.from].key>> = s
                   /\ e.body = req'[e.from].body
                   /\ e.expires = storedAt'[e.from] + TTL
        <4>1. store'[w][s] = store[w][s]
          BY <3>1, <3>3
        <4>2. store[w][s].from \in Requests /\ store[w][s].from # r
          BY <2>1, <3>3, <4>1 DEF EntryOf
        <4>3. storedAt'[store[w][s].from] = storedAt[store[w][s].from]
          BY <3>1, <4>2
        <4>4. QED
          BY <2>1, <3>3, <4>1, <4>2, <4>3 DEF EntryOf, Slot
      <3>4. LET e == store'[worker[r]][Slot(r)] IN
            /\ e.from = r /\ storedAt'[r] # Never
            /\ e.body = req'[r].body /\ e.expires = storedAt'[r] + TTL
        BY <2>1, <3>1
      <3>5. ASSUME NEW w \in Workers, NEW s \in Slots, store'[w][s] # Miss
            PROVE  LET e == store'[w][s] IN
                   /\ e.from \in Requests /\ storedAt'[e.from] # Never
                   /\ worker'[e.from] = w /\ <<req'[e.from].tenant, req'[e.from].key>> = s
                   /\ e.body = req'[e.from].body
                   /\ e.expires = storedAt'[e.from] + TTL
        <4>1. CASE w = worker[r] /\ s = Slot(r)
          BY <2>1, <3>4, <4>1 DEF Slot
        <4>2. CASE ~(w = worker[r] /\ s = Slot(r))
          BY <3>3, <3>5, <4>2
        <4>3. QED
          BY <4>1, <4>2
      <3>6. QED
        BY <3>5 DEF EntryOf, Slot
    <2>4. QED
      BY <2>2, <2>3
  <1>8. ASSUME NEW w \in Workers, Restart(w) PROVE EntryOf'
    <2>1. \A v \in Workers, s \in Slots : store'[v][s] \in {store[v][s], Miss}
      BY <1>8 DEF Restart
    <2>2. QED
      BY <1>8, <2>1, SameEntries DEF Restart
  <1>9. ASSUME Tick PROVE EntryOf'
    BY <1>9, SameEntries DEF Tick, history
  <1>10. CASE UNCHANGED vars
    BY <1>10, SameEntries DEF vars, history
  <1>11. QED
    BY <1>1, <1>2, <1>3, <1>4, <1>5, <1>6, <1>7, <1>8, <1>9, <1>10, NextCases

\* A step that takes from the stores only what its time is over for.
LEMMA StillKept ==
    ASSUME TypeOK, Stored, Kept, storedAt' = storedAt, forgotten \subseteq forgotten',
           now' \in Nat, now <= now',
           \A q \in Requests : pc[q] # "idle" => req'[q] = req[q] /\ worker'[q] = worker[q],
           \A q \in Requests \ forgotten' : storedAt[q] # Never =>
               LET e == store[worker[q]][Slot(q)] IN
               store'[worker[q]][Slot(q)] = e \/ (e # Miss => e.expires < now)
    PROVE  Kept'
  <1> SUFFICES ASSUME NEW q \in Requests, storedAt[q] # Never, q \notin forgotten',
                      ~(storedAt[q] + TTL < now')
               PROVE  LET e == store'[worker'[q]][Slot(q)'] IN
                      e # Miss /\ storedAt[q] + TTL <= e.expires
    BY DEF Kept
  <1> USE BoundAssumption
  <1>1. pc[q] # "idle" /\ worker[q] \in Workers /\ Keyed(req[q])
    BY DEF Stored
  <1>2. worker'[q] = worker[q] /\ Slot(q)' = Slot(q)
    BY <1>1 DEF Slot
  <1>3. store[worker[q]][Slot(q)] \in Entries \cup {Miss} /\ now \in Nat /\ storedAt[q] \in Nat
    BY <1>1, SlotType DEF TypeOK
  <1>4. /\ store[worker[q]][Slot(q)] # Miss
        /\ storedAt[q] + TTL <= store[worker[q]][Slot(q)].expires
        /\ store[worker[q]][Slot(q)].expires \in Nat
    BY <1>3 DEF Kept, Entries
  <1>5. store'[worker[q]][Slot(q)] = store[worker[q]][Slot(q)]
    BY <1>3, <1>4
  <1>6. QED
    BY <1>2, <1>4, <1>5

LEMMA NextKept ==
    TypeOK /\ Place /\ Stored /\ Kept /\ [Next]_vars => Kept'
  <1> SUFFICES ASSUME TypeOK, Place, Stored, Kept, [Next]_vars
               PROVE  Kept'
    OBVIOUS
  <1> USE NeverIsLate DEF TypeOK
  <1>1. ASSUME NEW r \in Requests, NEW i \in Inputs, NEW w \in Workers, Arrive(r, i, w) PROVE Kept'
    BY <1>1, StillKept DEF Arrive
  <1>2. ASSUME NEW r \in Requests, Forward(r) PROVE Kept'
    <2>1. \A q \in Requests : storedAt[q] # Never => worker[q] \in Workers /\ Slot(q) \in Slots
      BY SlotType DEF Stored
    <2>2. \A q \in Requests : storedAt[q] # Never =>
              \/ store'[worker[q]][Slot(q)] = store[worker[q]][Slot(q)]
              \/ store[worker[q]][Slot(q)].expires < now
      BY <1>2, <2>1, ForwardStore
    <2>3. QED
      BY <1>2, <2>2, StillKept DEF Forward
  <1>3. ASSUME NEW r \in Requests, Reply(r) PROVE Kept'
    BY <1>3, StillKept DEF Reply
  <1>4. ASSUME NEW r \in Requests, Handle(r) PROVE Kept'
    BY <1>4, StillKept DEF Handle, history
  <1>5. ASSUME NEW r \in Requests, Commit(r) PROVE Kept'
    BY <1>5, StillKept DEF Commit, history
  <1>6. ASSUME NEW r \in Requests, CommitFails(r) PROVE Kept'
    BY <1>6, StillKept DEF CommitFails, history
  <1>7. ASSUME NEW r \in Requests, Respond(r) PROVE Kept'
    <2>1. UNCHANGED <<req, worker, now, forgotten>> /\ \A q \in Requests : Slot(q)' = Slot(q)
      BY <1>7 DEF Respond, Slot
    <2>2. CASE store' = store /\ storedAt' = storedAt
      BY <2>1, <2>2, StillKept
    <2>3. CASE ~(store' = store /\ storedAt' = storedAt)
      <3> DEFINE put == [from |-> r, body |-> req[r].body, expires |-> now + TTL]
      <3>1. /\ storedAt' = [storedAt EXCEPT ![r] = now]
            /\ store'[worker[r]][Slot(r)] = put
            /\ \A w \in Workers, s \in Slots :
                 ~(w = worker[r] /\ s = Slot(r)) => store'[w][s] = store[w][s]
        BY <1>7, <2>3, RespondStore
      <3>2. put # Miss /\ put.expires = now + TTL
        BY InputAssumption DEF Miss
      <3> HIDE DEF put
      <3>3. ASSUME NEW q \in Requests, storedAt'[q] # Never, q \notin forgotten,
                   ~(storedAt'[q] + TTL < now)
            PROVE  LET e == store'[worker[q]][Slot(q)] IN
                   e # Miss /\ storedAt'[q] + TTL <= e.expires
        <4>1. CASE worker[q] = worker[r] /\ Slot(q) = Slot(r)
          <5>1. storedAt'[q] \in Nat /\ storedAt'[q] <= now
            BY <3>1, <3>3 DEF Stored
          <5>2. QED
            BY <3>1, <3>2, <4>1, <5>1, BoundAssumption
        <4>2. CASE ~(worker[q] = worker[r] /\ Slot(q) = Slot(r))
          <5>1. q # r /\ storedAt'[q] = storedAt[q]
            BY <3>1, <4>2
          <5>2. worker[q] \in Workers /\ Slot(q) \in Slots
            BY <3>3, <5>1, SlotType DEF Stored
          <5>3. store'[worker[q]][Slot(q)] = store[worker[q]][Slot(q)]
            BY <3>1, <4>2, <5>2
          <5>4. QED
            BY <3>3, <5>1, <5>3 DEF Kept
        <4>3. QED
          BY <4>1, <4>2
      <3>4. QED
        BY <2>1, <3>3 DEF Kept
    <2>4. QED
      BY <2>2, <2>3
  <1>8. ASSUME NEW w \in Workers, Restart(w) PROVE Kept'
    <2>1. forgotten \subseteq forgotten' /\ UNCHANGED <<req, worker, now, storedAt>>
      BY <1>8 DEF Restart
    <2>2. \A q \in Requests \ forgotten' : storedAt[q] # Never => worker[q] # w
      BY <1>8 DEF Restart
    <2>3. \A v \in Workers : v # w => store'[v] = store[v]
      BY <1>8 DEF Restart
    <2>4. \A q \in Requests \ forgotten' : storedAt[q] # Never =>
              store'[worker[q]][Slot(q)] = store[worker[q]][Slot(q)]
      BY <2>2, <2>3 DEF Stored
    <2>5. QED
      BY <2>1, <2>4, StillKept
  <1>9. ASSUME Tick PROVE Kept'
    BY <1>9, StillKept DEF Tick, history
  <1>10. CASE UNCHANGED vars
    BY <1>10, StillKept DEF vars, history
  <1>11. QED
    BY <1>1, <1>2, <1>3, <1>4, <1>5, <1>6, <1>7, <1>8, <1>9, <1>10, NextCases

-----------------------------------------------------------------------------
(* What the clients are told.                                              *)

\* Facts about q's response, on which r's answer rests, stay: only the step
\* that puts q's response, and the arrival of q, could change them.
LEMMA ResponseStays ==
    ASSUME TypeOK, Place, Stored, [Next]_vars, NEW q \in Requests, storedAt[q] # Never
    PROVE  /\ req'[q] = req[q] /\ worker'[q] = worker[q] /\ storedAt'[q] = storedAt[q]
           /\ ok'[q] = ok[q]
  <1> USE DEF TypeOK
  <1>1. /\ pc[q] \in {"commit", "done"} /\ storedAt[q] \in Nat
    BY DEF Stored
  <1>2. ASSUME NEW r \in Requests, NEW i \in Inputs, NEW w \in Workers, Arrive(r, i, w)
        PROVE  UNCHANGED <<req[q], worker[q], storedAt[q], ok[q]>>
    BY <1>1, <1>2 DEF Arrive
  <1>3. ASSUME NEW r \in Requests, Forward(r) PROVE UNCHANGED <<req[q], worker[q], storedAt[q], ok[q]>>
    BY <1>3 DEF Forward
  <1>4. ASSUME NEW r \in Requests, Reply(r) PROVE UNCHANGED <<req[q], worker[q], storedAt[q], ok[q]>>
    BY <1>4 DEF Reply
  <1>5. ASSUME NEW r \in Requests, Handle(r) PROVE UNCHANGED <<req[q], worker[q], storedAt[q], ok[q]>>
    BY <1>1, <1>5 DEF Handle, history
  <1>6. ASSUME NEW r \in Requests, Commit(r) PROVE UNCHANGED <<req[q], worker[q], storedAt[q], ok[q]>>
    BY <1>6 DEF Commit, history
  <1>7. ASSUME NEW r \in Requests, CommitFails(r) PROVE UNCHANGED <<req[q], worker[q], storedAt[q], ok[q]>>
    BY <1>7 DEF CommitFails, history
  <1>8. ASSUME NEW r \in Requests, Respond(r) PROVE UNCHANGED <<req[q], worker[q], storedAt[q], ok[q]>>
    BY <1>1, <1>8 DEF Respond
  <1>9. ASSUME NEW w \in Workers, Restart(w) PROVE UNCHANGED <<req[q], worker[q], storedAt[q], ok[q]>>
    BY <1>9 DEF Restart
  <1>10. CASE Tick
    BY <1>10 DEF Tick, history
  <1>11. CASE UNCHANGED vars
    BY <1>11 DEF vars, history
  <1>12. QED
    BY <1>2, <1>3, <1>4, <1>5, <1>6, <1>7, <1>8, <1>9, <1>10, <1>11, NextCases

\* An answer that is not made in this step is the one that was there, and its
\* request is where it was.
LEMMA AnswerStays ==
    ASSUME TypeOK, Place, [Next]_vars, NEW r \in Requests,
           answer'[r].kind \in {"replay", "conflict"}, ~Reply(r)
    PROVE  UNCHANGED <<answer[r], req[r], worker[r], lookedAt[r]>>
  <1> USE DEF TypeOK, Answers, Answer
  <1>1. ASSUME NEW x \in Requests, NEW i \in Inputs, NEW w \in Workers, Arrive(x, i, w)
        PROVE  UNCHANGED <<answer[r], req[r], worker[r], lookedAt[r]>>
    BY <1>1 DEF Arrive, Place
  <1>2. ASSUME NEW x \in Requests, Forward(x) PROVE UNCHANGED <<answer[r], req[r], worker[r], lookedAt[r]>>
    BY <1>2 DEF Forward, Place
  <1>3. ASSUME NEW x \in Requests, Reply(x) PROVE UNCHANGED <<answer[r], req[r], worker[r], lookedAt[r]>>
    BY <1>3 DEF Reply
  <1>4. ASSUME NEW x \in Requests, Handle(x) PROVE UNCHANGED <<answer[r], req[r], worker[r], lookedAt[r]>>
    BY <1>4 DEF Handle, history
  <1>5. ASSUME NEW x \in Requests, Commit(x) PROVE UNCHANGED <<answer[r], req[r], worker[r], lookedAt[r]>>
    BY <1>5 DEF Commit, history
  <1>6. ASSUME NEW x \in Requests, CommitFails(x) PROVE UNCHANGED <<answer[r], req[r], worker[r], lookedAt[r]>>
    BY <1>6 DEF CommitFails, history
  <1>7. ASSUME NEW x \in Requests, Respond(x) PROVE UNCHANGED <<answer[r], req[r], worker[r], lookedAt[r]>>
    BY <1>7 DEF Respond
  <1>8. ASSUME NEW w \in Workers, Restart(w) PROVE UNCHANGED <<answer[r], req[r], worker[r], lookedAt[r]>>
    BY <1>8 DEF Restart
  <1>9. CASE Tick
    BY <1>9 DEF Tick, history
  <1>10. CASE UNCHANGED vars
    BY <1>10 DEF vars, history
  <1>11. QED
    BY <1>1, <1>2, <1>3, <1>4, <1>5, <1>6, <1>7, <1>8, <1>9, <1>10, NextCases

\* Where r neither arrives nor looks its key up, nothing RetryRunsOnce says of
\* r itself changes.
LEMMA RetryStays ==
    ASSUME TypeOK, Place, [Next]_vars, NEW r \in Requests,
           ~\E i \in Inputs, w \in Workers : Arrive(r, i, w), ~Forward(r), ~Reply(r)
    PROVE  /\ UNCHANGED <<req[r], worker[r], lookedAt[r], before[r]>>
           /\ r \in ran' => r \in ran
  <1> DEFINE Same == UNCHANGED <<req[r], worker[r], lookedAt[r], before[r]>> /\ (r \in ran' => r \in ran)
  <1> USE DEF TypeOK
  <1>1. ASSUME NEW x \in Requests, NEW i \in Inputs, NEW w \in Workers, Arrive(x, i, w) PROVE Same
    BY <1>1 DEF Arrive
  <1>2. ASSUME NEW x \in Requests, Forward(x) PROVE Same
    BY <1>2 DEF Forward
  <1>3. ASSUME NEW x \in Requests, Reply(x) PROVE Same
    BY <1>3 DEF Reply
  <1>4. ASSUME NEW x \in Requests, Handle(x) PROVE Same
    BY <1>4 DEF Handle, history
  <1>5. ASSUME NEW x \in Requests, Commit(x) PROVE Same
    BY <1>5 DEF Commit, history
  <1>6. ASSUME NEW x \in Requests, CommitFails(x) PROVE Same
    BY <1>6 DEF CommitFails, history
  <1>7. ASSUME NEW x \in Requests, Respond(x) PROVE Same
    BY <1>7 DEF Respond
  <1>8. ASSUME NEW w \in Workers, Restart(w) PROVE Same
    BY <1>8 DEF Restart
  <1>9. CASE Tick
    BY <1>9 DEF Tick, history
  <1>10. CASE UNCHANGED vars
    BY <1>10 DEF vars, history
  <1>11. QED
    BY <1>1, <1>2, <1>3, <1>4, <1>5, <1>6, <1>7, <1>8, <1>9, <1>10, NextCases

LEMMA ForgottenStays ==
    ASSUME TypeOK, [Next]_vars
    PROVE  forgotten \subseteq forgotten'
  <1>1. ASSUME NEW x \in Requests, NEW i \in Inputs, NEW w \in Workers, Arrive(x, i, w) PROVE forgotten \subseteq forgotten'
    BY <1>1 DEF Arrive
  <1>2. ASSUME NEW x \in Requests, Forward(x) PROVE forgotten \subseteq forgotten'
    BY <1>2 DEF Forward
  <1>3. ASSUME NEW x \in Requests, Reply(x) PROVE forgotten \subseteq forgotten'
    BY <1>3 DEF Reply
  <1>4. ASSUME NEW x \in Requests, Handle(x) PROVE forgotten \subseteq forgotten'
    BY <1>4 DEF Handle, history
  <1>5. ASSUME NEW x \in Requests, Commit(x) PROVE forgotten \subseteq forgotten'
    BY <1>5 DEF Commit, history
  <1>6. ASSUME NEW x \in Requests, CommitFails(x) PROVE forgotten \subseteq forgotten'
    BY <1>6 DEF CommitFails, history
  <1>7. ASSUME NEW x \in Requests, Respond(x) PROVE forgotten \subseteq forgotten'
    BY <1>7 DEF Respond
  <1>8. ASSUME NEW w \in Workers, Restart(w) PROVE forgotten \subseteq forgotten'
    BY <1>8 DEF Restart
  <1>9. CASE Tick
    BY <1>9 DEF Tick, history
  <1>10. CASE UNCHANGED vars
    BY <1>10 DEF vars, history
  <1>11. QED
    BY <1>1, <1>2, <1>3, <1>4, <1>5, <1>6, <1>7, <1>8, <1>9, <1>10, NextCases

\* A request that is answered from the store.
LEMMA ReplyServes ==
    ASSUME TypeOK, Place, Stored, EntryOf, NEW r \in Requests, Reply(r)
    PROVE  \E q \in Requests :
               /\ Served(r, q)'
               /\ answer'[r] = IF req[q].body = req[r].body THEN Answer("replay", q)
                                ELSE Answer("conflict", NoValue)
               /\ UNCHANGED req
  <1> DEFINE e == store[worker[r]][Slot(r)]
  <1>1. /\ worker[r] \in Workers /\ Slot(r) \in Slots
        /\ e # Miss /\ now <= e.expires /\ Get(r) = e
    BY ReplyEntry
  <1>2. PICK q \in Requests :
          /\ q = e.from /\ storedAt[q] # Never
          /\ worker[q] = worker[r] /\ Slot(q) = Slot(r)
          /\ e.body = req[q].body /\ e.expires = storedAt[q] + TTL
    BY <1>1 DEF EntryOf
  <1>3. Keyed(req[q]) /\ ok[q] /\ storedAt[q] <= now
    BY <1>2 DEF Stored
  <1>4. Keyed(req[r]) /\ UNCHANGED <<req, worker, ok, storedAt>> /\ lookedAt'[r] = now
    BY DEF Reply, Place, TypeOK
  <1>5. answer'[r] = IF req[q].body = req[r].body THEN Answer("replay", q)
                     ELSE Answer("conflict", NoValue)
    BY <1>1, <1>2 DEF Reply, SameBody, TypeOK
  <1>6. now <= storedAt[q] + TTL
    BY <1>1, <1>2
  <1> HIDE DEF e
  <1>7. SameSlot(q, r)'
    BY <1>2, <1>3, <1>4 DEF SameSlot, Slot
  <1>8. Served(r, q)'
    BY <1>2, <1>3, <1>4, <1>6, <1>7 DEF Served
  <1>9. QED
    BY <1>4, <1>5, <1>8

\* What r was told goes on to be so.
LEMMA ServedStays ==
    ASSUME TypeOK, Place, Stored, [Next]_vars, NEW r \in Requests, NEW q \in Requests,
           Served(r, q), UNCHANGED <<req[r], worker[r], lookedAt[r]>>
    PROVE  Served(r, q)' /\ req'[q] = req[q]
  BY ResponseStays DEF Served, SameSlot, Slot, Keyed

LEMMA NextReplayServed ==
    TypeOK /\ Place /\ Stored /\ EntryOf /\ ReplayServed /\ [Next]_vars => ReplayServed'
  <1> SUFFICES ASSUME TypeOK, Place, Stored, EntryOf, ReplayServed, [Next]_vars,
                      NEW r \in Requests, answer'[r].kind = "replay"
               PROVE  Served(r, answer[r].from)' /\ req'[answer'[r].from].body = req'[r].body
    BY DEF ReplayServed
  <1>1. CASE Reply(r)
    <2>1. PICK q \in Requests :
            /\ Served(r, q)' /\ UNCHANGED req
            /\ answer'[r] = IF req[q].body = req[r].body THEN Answer("replay", q)
                            ELSE Answer("conflict", NoValue)
      BY <1>1, ReplyServes
    <2>2. answer'[r].from = q /\ req[q].body = req[r].body
      BY <2>1 DEF Answer
    <2>3. QED
      BY <2>1, <2>2
  <1>2. CASE ~Reply(r)
    <2>1. UNCHANGED <<answer[r], req[r], worker[r], lookedAt[r]>>
      BY <1>2, AnswerStays
    <2>2. PICK q \in Requests : q = answer[r].from /\ Served(r, q) /\ req[q].body = req[r].body
      BY <2>1 DEF ReplayServed, Served
    <2>3. Served(r, q)' /\ req'[q] = req[q]
      BY <2>1, <2>2, ServedStays
    <2>4. QED
      BY <2>1, <2>2, <2>3
  <1>3. QED
    BY <1>1, <1>2

LEMMA NextConflictServed ==
    TypeOK /\ Place /\ Stored /\ EntryOf /\ ConflictServed /\ [Next]_vars => ConflictServed'
  <1> SUFFICES ASSUME TypeOK, Place, Stored, EntryOf, ConflictServed, [Next]_vars,
                      NEW r \in Requests, answer'[r].kind = "conflict"
               PROVE  \E q \in Requests : Served(r, q)' /\ req'[q].body # req'[r].body
    BY DEF ConflictServed
  <1>1. CASE Reply(r)
    <2>1. PICK q \in Requests :
            /\ Served(r, q)' /\ UNCHANGED req
            /\ answer'[r] = IF req[q].body = req[r].body THEN Answer("replay", q)
                            ELSE Answer("conflict", NoValue)
      BY <1>1, ReplyServes
    <2>2. req[q].body # req[r].body
      BY <2>1 DEF Answer
    <2>3. QED
      BY <2>1, <2>2
  <1>2. CASE ~Reply(r)
    <2>1. UNCHANGED <<answer[r], req[r], worker[r], lookedAt[r]>>
      BY <1>2, AnswerStays
    <2>2. PICK q \in Requests : Served(r, q) /\ req[q].body # req[r].body
      BY <2>1 DEF ConflictServed
    <2>3. Served(r, q)' /\ req'[q] = req[q]
      BY <2>1, <2>2, ServedStays
    <2>4. QED
      BY <2>1, <2>2, <2>3
  <1>3. QED
    BY <1>1, <1>2

\* A lookup finds what is kept: a request that retries q within its time is
\* not forwarded.
LEMMA KeptIsFound ==
    ASSUME TypeOK, Place, Stored, Kept, NEW q \in Requests, NEW r \in Requests,
           Forward(r), storedAt[q] # Never, q \notin forgotten,
           worker[q] = worker[r], Slot(q) = Slot(r)
    PROVE  storedAt[q] + TTL < now
  <1> USE BoundAssumption DEF TypeOK
  <1> DEFINE e == store[worker[r]][Slot(r)]
  <1>1. worker[r] \in Workers /\ Slot(r) \in Slots /\ e \in Entries \cup {Miss}
    BY ForwardStore
  <1>2. storedAt[q] + TTL < now \/ (e # Miss /\ storedAt[q] + TTL <= e.expires)
    BY DEF Kept
  <1>3. e # Miss => e.expires < now /\ e.expires \in Nat
    <2>1. Get(r) = Miss
      BY DEF Forward
    <2>2. e # Miss => Expired(e)
      BY <2>1 DEF Get
    <2>3. QED
      BY <1>1, <2>2 DEF Expired, Entries
  <1> HIDE DEF e
  <1>4. QED
    BY <1>2, <1>3

LEMMA NextRetryRunsOnce ==
    IInv /\ [Next]_vars => RetryRunsOnce'
  <1> SUFFICES ASSUME IInv, [Next]_vars, NEW q \in Requests, NEW r \in Requests,
                      SameSlot(q, r)', q \in before'[r], worker'[q] = worker'[r],
                      q \notin forgotten', lookedAt'[r] <= storedAt'[q] + TTL
               PROVE  r \notin ran'
    BY DEF RetryRunsOnce
  <1> USE DEF IInv
  <1>1. ASSUME NEW i \in Inputs, NEW w \in Workers, Arrive(r, i, w)
        PROVE  r \notin ran'
    <2>1. req'[r] = i /\ r \notin ran
      BY <1>1 DEF Arrive, TypeOK, Place
    <2>2. Keyed(i)
      BY <2>1 DEF SameSlot
    <2>3. QED
      BY <1>1, <2>1, <2>2 DEF Arrive
  <1>2. CASE Reply(r)
    BY <1>2 DEF Reply, Place
  <1>3. CASE Forward(r)
    <2>1. UNCHANGED <<req, worker, storedAt, before, forgotten>> /\ lookedAt'[r] = now
      BY <1>3 DEF Forward, TypeOK
    <2>2. Slot(q) = Slot(r) /\ storedAt[q] # Never /\ storedAt[q] \in Nat
      BY <2>1 DEF SameSlot, Slot, Earlier, TypeOK
    <2>3. storedAt[q] + TTL < now
      BY <1>3, <2>1, <2>2, KeptIsFound
    <2>4. QED
      BY <2>1, <2>2, <2>3, BoundAssumption DEF TypeOK
  <1>4. CASE /\ ~\E i \in Inputs, w \in Workers : Arrive(r, i, w)
             /\ ~Forward(r) /\ ~Reply(r)
    <2>1. UNCHANGED <<req[r], worker[r], lookedAt[r], before[r]>> /\ (r \in ran' => r \in ran)
      BY <1>4, RetryStays
    <2>2. storedAt[q] # Never
      BY <2>1 DEF Earlier
    <2>3. UNCHANGED <<req[q], worker[q], storedAt[q]>>
      BY <2>2, ResponseStays
    <2>4. q \notin forgotten
      BY ForgottenStays
    <2>5. SameSlot(q, r)
      BY <2>1, <2>3 DEF SameSlot, Slot, Keyed
    <2>6. QED
      BY <2>1, <2>3, <2>4, <2>5 DEF RetryRunsOnce
  <1>5. QED
    BY <1>1, <1>2, <1>3, <1>4

-----------------------------------------------------------------------------
(* The theorems.                                                           *)

LEMMA NextIInv == IInv /\ [Next]_vars => IInv'
  BY NextTypeOK, NextPlace, NextStored, NextEarlier, NextEntryOf, NextKept, NextReplayServed,
     NextConflictServed, NextRetryRunsOnce
     DEF IInv

LEMMA Invariance == Spec => []IInv
  BY InitIInv, NextIInv, PTL DEF Spec

\* The state of the middleware and its stores has its type (TypeOK).
THEOREM TypeCorrect == Spec => []TypeOK
  BY Invariance, PTL DEF IInv

\* A replayed response is the 2xx of the same tenant, key and body on this
\* worker, looked up within the TTL of its being put.
THEOREM ReplayIsAuthentic == Spec => []ReplayIsTheAnswer
  <1>1. IInv => ReplayIsTheAnswer
    BY DEF IInv, ReplayServed, Served, SameSlot, Slot, Keyed, ReplayIsTheAnswer
  <1>2. QED
    BY <1>1, Invariance, PTL

\* A 422 for a reused key has a cause: the same tenant used the key with
\* another body, and that response was still in its time.
THEOREM ConflictIsReal == Spec => []ConflictHasACause
  <1>1. IInv => ConflictHasACause
    BY DEF IInv, ConflictServed, Served, ConflictHasACause
  <1>2. QED
    BY <1>1, Invariance, PTL

\* With the commit before the response, no store holds the response of a
\* transaction that is not committed.
THEOREM CacheIsDurable == Spec => []CachedIsCommitted
  <1>1. IInv => CachedIsCommitted
    BY DEF IInv, EntryOf, Stored, CachedIsCommitted
  <1>2. QED
    BY <1>1, Invariance, PTL

\* A retry on the same worker, begun after its 2xx response ended and looked up
\* within the TTL, does not reach the handler, unless the worker restarted.
THEOREM RetryIsAbsorbed == Spec => []RetryRunsOnce
  BY Invariance, PTL DEF IInv

=============================================================================
