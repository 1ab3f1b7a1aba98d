------------------------ MODULE RequestPipelineProofs -----------------------
(***************************************************************************)
(* Theorems about RequestPipeline, for every set of requests, tenants,     *)
(* connections and inputs, and for faults that meet any of them.           *)
(*                                                                         *)
(* That a client sees its own tenant only is not inductive: the filter of  *)
(* a query is read from the context and from the connection, both written  *)
(* in earlier layers.  The inductive invariant says what these still hold  *)
(* when the handler runs: the context that TenancyMiddleware bound         *)
(* (Bound), a connection nobody else holds, set for this tenant (Held),    *)
(* and persons whose requests cannot change their tenant any more (Named). *)
(***************************************************************************)
EXTENDS RequestPipeline, TLAPS

\* A request between TenancyMiddleware and its route is authentic, and its
\* task still sees what the middleware bound.
Bound ==
    \A r \in Requests :
        /\ pc[r] \in {"limiter", "idempotency"} => Protected(req[r])
        /\ pc[r] = "session" => Protected(req[r]) \/ req[r].route = "ready"
        /\ pc[r] \in {"limiter", "idempotency", "session", "handler"} /\ Protected(req[r]) =>
              /\ Authentic(req[r])
              /\ context[r].tenant = req[r].tenant /\ context[r].id = r

\* A connection has at most one holder, which has reached its handler, and the
\* setting of that holder's tenant; a free connection has no setting.
Held ==
    /\ \A q, r \in Requests : conn[q] = conn[r] /\ conn[r] # NoValue => q = r
    /\ \A r \in Requests : conn[r] # NoValue =>
          /\ pc[r] \in {"handler", "unwind", "done"}
          /\ setting[conn[r]] \in {NoValue, req[r].tenant}
    /\ \A c \in Free : setting[c] = NoValue

\* A person is named by the request that created it, which has been received.
Named ==
    \A p \in Requests :
        /\ rows[p] \subseteq {p}
        /\ pc[p] = "idle" =>
              /\ p \notin persons /\ rows[p] = {} /\ answer[p] = NoAnswer
              /\ \A r \in Requests : p \notin answer[r].found

IInv == /\ TypeOK /\ Bound /\ Held /\ Named
        /\ OwnTenantOnly /\ NothingWithoutAuthority /\ RouteErrorsNameTheRequest

-----------------------------------------------------------------------------
(* Every step, once for all the step proofs.                               *)

LEMMA NextCases ==
    ASSUME Next
    PROVE  \/ \E r \in Requests, i \in Inputs : Receive(r, i)
           \/ \E r \in Requests :
                 \/ Limiter(r) \/ IdempotencyLayer(r) \/ Unrouted(r)
                 \/ OpenSession(r) \/ Handler(r)
                 \/ CloseSession(r) \/ Unwind(r)
                 \/ Crash(r) \/ Degrade(r) \/ CommitFails(r)
           \/ UNCHANGED vars
  BY DEF Next, Serve, Terminating

-----------------------------------------------------------------------------
(* The two layers that make answers with persons in them.                  *)

\* What an answer to r may be: it names the request, and shows persons of the
\* request's own tenant, to a request that came with the token.
Proper(r, a) ==
    /\ a \in Answers
    /\ a.header = r /\ a.status # "none"
    /\ a.status \in {"notFound", "refused", "unauthenticated", "invalid"} => a.trace = r
    /\ a.trace \in {r, NoValue, KeyText}
    /\ Protected(req[r]) => Authentic(req[r])
    /\ a.found # {} => Protected(req[r])
    /\ \A p \in a.found : pc[p] # "idle" /\ TenantOf(p) = TenantOf(r)

LEMMA ReplayProper ==
    ASSUME IInv, NEW r \in Requests, IdempotencyLayer(r), pc'[r] = "unwind"
    PROVE  \E a \in Answers : Proper(r, a) /\ answer' = [answer EXCEPT ![r] = a]
  <1> USE InputAssumption DEF IInv, TypeOK
  <1>1. pc[r] = "idempotency" /\ Protected(req[r]) /\ Authentic(req[r])
    BY DEF IdempotencyLayer, Bound
  <1>2. PICK q \in Replayable(r) :
            Respond(r, "ok", NoValue, answer[q].found) \/ Respond(r, "conflict", KeyText, {})
    BY <1>1 DEF IdempotencyLayer
  <1>3. q \in Requests /\ TenantOf(q) = TenantOf(r)
    BY <1>2 DEF Replayable, TenantOf
  <1>4. answer[q].found \in SUBSET Requests
    BY <1>3 DEF Answers
  <1>5. \A p \in answer[q].found : pc[p] # "idle" /\ TenantOf(p) = TenantOf(r)
    BY <1>3, <1>4 DEF Named, OwnTenantOnly, TenantOf
  <1>6. CASE Respond(r, "ok", NoValue, answer[q].found)
    <2> DEFINE a == [status |-> "ok", header |-> r, trace |-> NoValue, found |-> answer[q].found]
    <2>1. a \in Answers
      BY <1>4 DEF Answers, Statuses, Errors
    <2>2. Proper(r, a)
      BY <1>1, <1>5, <2>1 DEF Proper
    <2>3. QED
      BY <1>6, <2>1, <2>2 DEF Respond
  <1>7. CASE Respond(r, "conflict", KeyText, {})
    <2> DEFINE a == [status |-> "conflict", header |-> r, trace |-> KeyText, found |-> {}]
    <2>1. a \in Answers
      BY DEF Answers, Statuses, Errors
    <2>2. Proper(r, a)
      BY <1>1, <2>1 DEF Proper
    <2>3. QED
      BY <1>7, <2>1, <2>2 DEF Respond
  <1>8. QED
    BY <1>2, <1>6, <1>7

LEMMA VisibleOwn ==
    ASSUME IInv, NEW r \in Requests, pc[r] = "handler", Protected(req[r]), NEW p \in Visible(r)
    PROVE  p \in Requests /\ pc[p] # "idle" /\ TenantOf(p) = TenantOf(r)
  <1>1. p \in persons \cup rows[r] /\ TenantOf(p) = context[r].tenant
    BY DEF Visible, Context, Task
  <1>2. context[r].tenant = TenantOf(r)
    BY DEF IInv, Bound, TenantOf
  <1>3. QED
    BY <1>1, <1>2 DEF IInv, TypeOK, Named

LEMMA HandlerProper ==
    ASSUME IInv, NEW r \in Requests, Handler(r)
    PROVE  \E a \in Answers : Proper(r, a) /\ answer' = [answer EXCEPT ![r] = a]
  <1> DEFINE Made(status, trace, found) ==
               [status |-> status, header |-> r, trace |-> trace, found |-> found]
             Own(found) == \A p \in found : p \in Requests /\ pc[p] # "idle" /\ TenantOf(p) = TenantOf(r)
  <1>1. pc[r] = "handler"
    BY DEF Handler
  <1>2. Protected(req[r]) => Authentic(req[r]) /\ Context(r).id = r
    BY <1>1 DEF IInv, Bound, Context, Task
  <1>3. ASSUME NEW found, Own(found), found # {} => Protected(req[r]),
               NEW status \in Statuses \ {"none"}, NEW trace \in {r, NoValue},
               status \in {"notFound", "refused", "unauthenticated", "invalid"} => trace = r,
               Respond(r, status, trace, found)
        PROVE  \E a \in Answers : Proper(r, a) /\ answer' = [answer EXCEPT ![r] = a]
    <2>1. Made(status, trace, found) \in Answers
      BY <1>3 DEF Answers
    <2>2. Proper(r, Made(status, trace, found))
      BY <1>2, <1>3, <2>1 DEF Proper
    <2>3. QED
      BY <1>3, <2>1, <2>2 DEF Respond
  <1>4. Own({})
    OBVIOUS
  <1>5. Protected(req[r]) => \A p \in Visible(r) : Own({p})
    BY <1>1, VisibleOwn
  <1> HIDE DEF Made
  <1> USE DEF Statuses, Errors
  <1>6. CASE Create(r)
    <2>1. Respond(r, "ok", NoValue, {r}) /\ Protected(req[r])
      BY <1>6 DEF Create, Protected
    <2>2. Own({r})
      BY <1>1
    <2>3. QED
      BY <1>3, <2>1, <2>2
  <1>7. CASE Decline(r)
    <2>1. Protected(req[r])
      BY <1>7 DEF Decline, Protected
    <2>2. PICK found \in {{}} \cup {{p} : p \in Visible(r)} :
              Respond(r, "ok", NoValue, found) \/ Respond(r, "refused", r, found)
      BY <1>2, <1>7, <2>1 DEF Decline
    <2>3. Own(found)
      BY <1>4, <1>5, <2>1, <2>2
    <2>4. CASE Respond(r, "ok", NoValue, found)
      BY <1>3, <2>1, <2>3, <2>4
    <2>5. CASE Respond(r, "refused", r, found)
      BY <1>3, <2>1, <2>3, <2>5
    <2>6. QED
      BY <2>2, <2>4, <2>5
  <1>8. CASE Search(r)
    <2>1. Protected(req[r])
      BY <1>8 DEF Search, Protected
    <2>2. PICK found \in SUBSET Visible(r) : Respond(r, "ok", NoValue, found)
      BY <1>8 DEF Search, Candidates
    <2>3. Own(found)
      BY <1>5, <2>1, <2>2
    <2>4. QED
      BY <1>3, <2>1, <2>2, <2>3
  <1>9. CASE Get(r)
    <2>1. Protected(req[r])
      BY <1>9 DEF Get, Protected
    <2>2. CASE \E p \in Visible(r) : Respond(r, "ok", NoValue, {p})
      <3>1. PICK p \in Visible(r) : Respond(r, "ok", NoValue, {p})
        BY <2>2
      <3>2. Own({p})
        BY <1>5, <2>1, <3>1
      <3>3. QED
        BY <1>3, <2>1, <3>1, <3>2
    <2>3. CASE Respond(r, "notFound", r, {})
      BY <1>3, <1>4, <2>3
    <2>4. QED
      BY <1>2, <1>9, <2>1, <2>2, <2>3 DEF Get
  <1>10. CASE Open(r) \/ Unprocessable(r)
    <2>1. \/ Respond(r, "ok", NoValue, {}) \/ Respond(r, "unrouted", NoValue, {})
          \/ Respond(r, "unprocessable", NoValue, {})
      BY <1>10 DEF Open, Unprocessable
    <2>2. QED
      BY <1>3, <1>4, <2>1
  <1>11. QED
    BY <1>6, <1>7, <1>8, <1>9, <1>10 DEF Handler

\* What else the handler changes.
LEMMA HandlerMoves ==
    ASSUME NEW r \in Requests, Handler(r)
    PROVE  /\ pc[r] = "handler" /\ pc' = [pc EXCEPT ![r] = "unwind"]
           /\ UNCHANGED <<req, context, conn, setting, persons>>
  BY DEF Handler

LEMMA HandlerRows ==
    ASSUME IInv, NEW r \in Requests, Handler(r)
    PROVE  \/ rows' = rows
           \/ rows' = [rows EXCEPT ![r] = {r}] /\ Protected(req[r]) /\ Authentic(req[r])
  <1>1. CASE Create(r)
    BY <1>1 DEF Handler, Create, IInv, Bound, Protected
  <1>2. CASE ~Create(r)
    BY <1>2 DEF Handler, Decline, Search, Get, Open, Unprocessable
  <1>3. QED
    BY <1>1, <1>2

\* What else the store changes.
LEMMA IdempotencyPasses ==
    ASSUME NEW r \in Requests, IdempotencyLayer(r)
    PROVE  /\ pc[r] = "idempotency"
           /\ UNCHANGED <<req, context, conn, setting, rows, persons>>
           /\ \/ pc' = [pc EXCEPT ![r] = "session"] /\ answer' = answer
              \/ pc' = [pc EXCEPT ![r] = "unwind"]
  BY DEF IdempotencyLayer

-----------------------------------------------------------------------------
(* Type correctness.                                                       *)

LEMMA InitTypeOK == Init => TypeOK
  BY DEF Init, TypeOK, PCs, Answers, Statuses, Errors, NoAnswer, Contexts, Unset

LEMMA NextTypeOK ==
    IInv /\ [Next]_vars => TypeOK'
  <1> SUFFICES ASSUME IInv, [Next]_vars
               PROVE  TypeOK'
    OBVIOUS
  <1> USE InputAssumption DEF IInv, TypeOK, PCs, Answers, Statuses, Errors, NoAnswer, Contexts, Unset
  <1>1. ASSUME NEW r \in Requests, NEW i \in Inputs, Receive(r, i) PROVE TypeOK'
    <2>1. CASE Preflight(r, i)
      BY <1>1, <2>1 DEF Receive, Preflight
    <2>2. CASE Exempt(r, i)
      BY <1>1, <2>2 DEF Receive, Exempt, Task
    <2>3. CASE Reject(r, i)
      BY <1>1, <2>3 DEF Receive, Reject, Respond
    <2>4. CASE Bind(r, i)
      <3>1. context' \in [Requests -> Contexts]
        BY <1>1, <2>4 DEF Receive, Bind, Task, Authentic
      <3>2. QED
        BY <1>1, <2>4, <3>1 DEF Receive, Bind
    <2>5. QED
      BY <1>1, <2>1, <2>2, <2>3, <2>4 DEF Receive
  <1>2. ASSUME NEW r \in Requests, Limiter(r) PROVE TypeOK'
    <2>1. CASE answer' = answer
      BY <1>2, <2>1 DEF Limiter
    <2>2. PICK trace \in {r, NoValue} : answer' # answer => Respond(r, "limited", trace, {})
      BY <1>2 DEF Limiter
    <2>3. CASE answer' # answer
      <3>1. answer' \in [Requests -> Answers]
        BY <2>2, <2>3 DEF Respond
      <3>2. pc' \in [Requests -> PCs] /\ UNCHANGED <<req, context, conn, setting, rows, persons>>
        BY <1>2 DEF Limiter
      <3>3. QED
        BY <3>1, <3>2
    <2>4. QED
      BY <2>1, <2>3
  <1>3. ASSUME NEW r \in Requests, IdempotencyLayer(r) PROVE TypeOK'
    <2>1. CASE pc'[r] # "unwind"
      BY <1>3, <2>1, IdempotencyPasses
    <2>2. CASE pc'[r] = "unwind"
      <3>1. PICK a \in Answers : Proper(r, a) /\ answer' = [answer EXCEPT ![r] = a]
        BY <1>3, <2>2, ReplayProper
      <3>2. pc' = [pc EXCEPT ![r] = "unwind"]
        BY <1>3, <2>2, IdempotencyPasses
      <3>3. UNCHANGED <<req, context, conn, setting, rows, persons>>
        BY <1>3, IdempotencyPasses
      <3>4. QED
        BY <3>1, <3>2, <3>3 DEF Proper
    <2>3. QED
      BY <2>1, <2>2
  <1>4. ASSUME NEW r \in Requests, Unrouted(r) PROVE TypeOK'
    BY <1>4 DEF Unrouted, Respond
  <1>5. ASSUME NEW r \in Requests, OpenSession(r) PROVE TypeOK'
    <2>1. PICK c \in Free : conn' = [conn EXCEPT ![r] = c]
      BY <1>5 DEF OpenSession
    <2>2. conn' \in [Requests -> Connections \cup {NoValue}]
      BY <2>1 DEF Free
    <2>3. setting' \in [Connections -> Tenants \cup {NoValue}]
      <3>1. context[r].tenant \in Tenants \cup {NoValue}
        OBVIOUS
      <3>2. setting' = setting \/ \E d \in Connections : setting' = [setting EXCEPT ![d] = context[r].tenant]
        BY <1>5 DEF OpenSession, Context, Task, Free
      <3>3. QED
        BY <3>1, <3>2
    <2>4. QED
      BY <1>5, <2>2, <2>3 DEF OpenSession
  <1>6. ASSUME NEW r \in Requests, Handler(r) PROVE TypeOK'
    <2>1. PICK a \in Answers : Proper(r, a) /\ answer' = [answer EXCEPT ![r] = a]
      BY <1>6, HandlerProper
    <2>2. QED
      BY <1>6, <2>1, HandlerMoves, HandlerRows DEF Proper
  <1>7. ASSUME NEW r \in Requests, CloseSession(r) PROVE TypeOK'
    BY <1>7 DEF CloseSession
  <1>8. ASSUME NEW r \in Requests, Unwind(r) PROVE TypeOK'
    BY <1>8 DEF Unwind, Task
  <1>9. ASSUME NEW r \in Requests, Crash(r) PROVE TypeOK'
    BY <1>9 DEF Crash, Escape, RollBack, Task
  <1>10. ASSUME NEW r \in Requests, Degrade(r) PROVE TypeOK'
    BY <1>10 DEF Degrade, Respond, RollBack
  <1>11. ASSUME NEW r \in Requests, CommitFails(r) PROVE TypeOK'
    <2>1. RollBack(r) /\ (Escape(r) \/ UNCHANGED <<answer, pc, context>>)
      BY <1>11 DEF CommitFails
    <2>2. conn' \in [Requests -> Connections \cup {NoValue}]
          /\ setting' \in [Connections -> Tenants \cup {NoValue}]
          /\ rows' \in [Requests -> SUBSET Requests]
      BY <2>1 DEF RollBack
    <2>3. CASE Escape(r)
      BY <2>1, <2>2, <2>3 DEF Escape, RollBack, Task
    <2>4. CASE UNCHANGED <<answer, pc, context>>
      BY <2>1, <2>2, <2>4 DEF RollBack
    <2>5. QED
      BY <2>1, <2>3, <2>4
  <1>12. CASE UNCHANGED vars
    BY <1>12 DEF vars
  <1>13. QED
    BY <1>1, <1>2, <1>3, <1>4, <1>5, <1>6, <1>7, <1>8, <1>9, <1>10, <1>11, <1>12, NextCases

-----------------------------------------------------------------------------
(* What each layer leaves to the next.                                     *)

LEMMA InitIInv == Init => IInv
  BY InitTypeOK, InputAssumption
     DEF Init, IInv, Bound, Held, Named, Free, NoAnswer, OwnTenantOnly, NothingWithoutAuthority,
         RouteErrorsNameTheRequest

LEMMA NextBound ==
    TypeOK /\ Bound /\ [Next]_vars => Bound'
  <1> SUFFICES ASSUME TypeOK, Bound, [Next]_vars
               PROVE  Bound'
    OBVIOUS
  <1> USE InputAssumption DEF TypeOK, Bound, Protected, Authentic
  <1>1. ASSUME NEW r \in Requests, NEW i \in Inputs, Receive(r, i) PROVE Bound'
    <2>1. CASE Preflight(r, i)
      BY <1>1, <2>1 DEF Receive, Preflight
    <2>2. CASE Exempt(r, i)
      BY <1>1, <2>2 DEF Receive, Exempt, Task
    <2>3. CASE Reject(r, i)
      BY <1>1, <2>3 DEF Receive, Reject, Respond
    <2>4. CASE Bind(r, i)
      BY <1>1, <2>4 DEF Receive, Bind, Task
    <2>5. QED
      BY <1>1, <2>1, <2>2, <2>3, <2>4 DEF Receive
  <1>2. ASSUME NEW r \in Requests, Limiter(r) PROVE Bound'
    BY <1>2 DEF Limiter, Respond
  <1>3. ASSUME NEW r \in Requests, IdempotencyLayer(r) PROVE Bound'
    BY <1>3 DEF IdempotencyLayer, Respond, Replayable
  <1>4. ASSUME NEW r \in Requests, Unrouted(r) PROVE Bound'
    BY <1>4 DEF Unrouted, Respond
  <1>5. ASSUME NEW r \in Requests, OpenSession(r) PROVE Bound'
    BY <1>5 DEF OpenSession, Context, Task
  <1>6. ASSUME NEW r \in Requests, Handler(r) PROVE Bound'
    BY <1>6, HandlerMoves
  <1>7. ASSUME NEW r \in Requests, CloseSession(r) PROVE Bound'
    BY <1>7 DEF CloseSession
  <1>8. ASSUME NEW r \in Requests, Unwind(r) PROVE Bound'
    BY <1>8 DEF Unwind, Task
  <1>9. ASSUME NEW r \in Requests, Crash(r) PROVE Bound'
    BY <1>9 DEF Crash, Escape, RollBack, Task
  <1>10. ASSUME NEW r \in Requests, Degrade(r) PROVE Bound'
    BY <1>10 DEF Degrade, Respond, RollBack
  <1>11. ASSUME NEW r \in Requests, CommitFails(r) PROVE Bound'
    BY <1>11 DEF CommitFails, Escape, RollBack, Task
  <1>12. CASE UNCHANGED vars
    BY <1>12 DEF vars
  <1>13. QED
    BY <1>1, <1>2, <1>3, <1>4, <1>5, <1>6, <1>7, <1>8, <1>9, <1>10, <1>11, <1>12, NextCases

LEMMA NextHeld ==
    TypeOK /\ Bound /\ Held /\ [Next]_vars => Held'
  <1> SUFFICES ASSUME TypeOK, Bound, Held, [Next]_vars
               PROVE  Held'
    OBVIOUS
  <1> USE InputAssumption DEF TypeOK, Held, Free
  <1>1. ASSUME NEW r \in Requests, NEW i \in Inputs, Receive(r, i) PROVE Held'
    <2>1. CASE Preflight(r, i)
      BY <1>1, <2>1 DEF Receive, Preflight
    <2>2. CASE Exempt(r, i)
      BY <1>1, <2>2 DEF Receive, Exempt, Task
    <2>3. CASE Reject(r, i)
      BY <1>1, <2>3 DEF Receive, Reject, Respond
    <2>4. CASE Bind(r, i)
      BY <1>1, <2>4 DEF Receive, Bind, Task
    <2>5. QED
      BY <1>1, <2>1, <2>2, <2>3, <2>4 DEF Receive
  <1>2. ASSUME NEW r \in Requests, Limiter(r) PROVE Held'
    BY <1>2 DEF Limiter, Respond
  <1>3. ASSUME NEW r \in Requests, IdempotencyLayer(r) PROVE Held'
    BY <1>3 DEF IdempotencyLayer, Respond, Replayable
  <1>4. ASSUME NEW r \in Requests, Unrouted(r) PROVE Held'
    BY <1>4 DEF Unrouted, Respond
  <1>5. ASSUME NEW r \in Requests, OpenSession(r) PROVE Held'
    <2>1. PICK c \in Free :
              /\ conn' = [conn EXCEPT ![r] = c]
              /\ setting' = IF req[r].route = "ready" THEN setting
                            ELSE [setting EXCEPT ![c] = Context(r).tenant]
      BY <1>5 DEF OpenSession
    <2>2. c \in Connections /\ c # NoValue /\ setting[c] = NoValue /\ \A q \in Requests : conn[q] # c
      BY <2>1
    <2>3. pc[r] = "session" /\ pc' = [pc EXCEPT ![r] = "handler"] /\ UNCHANGED req
      BY <1>5 DEF OpenSession
    <2>4. setting'[c] \in {NoValue, req[r].tenant}
      <3>1. CASE req[r].route = "ready"
        BY <2>1, <2>2, <3>1
      <3>2. CASE req[r].route # "ready"
        <4>1. Context(r).tenant \in {NoValue, req[r].tenant}
          BY <2>3, <3>2 DEF Context, Task, Bound
        <4>2. QED
          BY <2>1, <2>2, <3>2, <4>1
      <3>3. QED
        BY <3>1, <3>2
    <2>5. \A d \in Connections : d # c => setting'[d] = setting[d]
      BY <2>1, <2>2
    <2>6. QED
      BY <2>1, <2>2, <2>3, <2>4, <2>5
  <1>6. ASSUME NEW r \in Requests, Handler(r) PROVE Held'
    BY <1>6, HandlerMoves
  <1>7. ASSUME NEW r \in Requests, CloseSession(r) PROVE Held'
    BY <1>7 DEF CloseSession
  <1>8. ASSUME NEW r \in Requests, Unwind(r) PROVE Held'
    BY <1>8 DEF Unwind, Task
  <1>9. ASSUME NEW r \in Requests, Crash(r) PROVE Held'
    BY <1>9 DEF Crash, Escape, RollBack, Task
  <1>10. ASSUME NEW r \in Requests, Degrade(r) PROVE Held'
    BY <1>10 DEF Degrade, Respond, RollBack
  <1>11. ASSUME NEW r \in Requests, CommitFails(r) PROVE Held'
    BY <1>11 DEF CommitFails, Escape, RollBack, Task
  <1>12. CASE UNCHANGED vars
    BY <1>12 DEF vars
  <1>13. QED
    BY <1>1, <1>2, <1>3, <1>4, <1>5, <1>6, <1>7, <1>8, <1>9, <1>10, <1>11, <1>12, NextCases

LEMMA NextNamed ==
    IInv /\ [Next]_vars => Named'
  <1> SUFFICES ASSUME IInv, [Next]_vars
               PROVE  Named'
    OBVIOUS
  <1> USE InputAssumption DEF IInv, TypeOK, Named
  <1>1. ASSUME NEW r \in Requests, NEW i \in Inputs, Receive(r, i) PROVE Named'
    <2>1. CASE Preflight(r, i)
      BY <1>1, <2>1 DEF Receive, Preflight, NoAnswer
    <2>2. CASE Exempt(r, i)
      BY <1>1, <2>2 DEF Receive, Exempt, Task, NoAnswer
    <2>3. CASE Reject(r, i)
      BY <1>1, <2>3 DEF Receive, Reject, Respond, NoAnswer
    <2>4. CASE Bind(r, i)
      BY <1>1, <2>4 DEF Receive, Bind, Task, NoAnswer
    <2>5. QED
      BY <1>1, <2>1, <2>2, <2>3, <2>4 DEF Receive
  <1>2. ASSUME NEW r \in Requests, Limiter(r) PROVE Named'
    BY <1>2 DEF Limiter, Respond
  <1>3. ASSUME NEW r \in Requests, IdempotencyLayer(r) PROVE Named'
    <2>1. CASE pc'[r] # "unwind"
      BY <1>3, <2>1, IdempotencyPasses
    <2>2. CASE pc'[r] = "unwind"
      <3>1. PICK a \in Answers : Proper(r, a) /\ answer' = [answer EXCEPT ![r] = a]
        BY <1>3, <2>2, ReplayProper
      <3>2. pc' = [pc EXCEPT ![r] = "unwind"]
        BY <1>3, <2>2, IdempotencyPasses
      <3>3. UNCHANGED <<req, context, conn, setting, rows, persons>>
        BY <1>3, IdempotencyPasses
      <3>4. QED
        BY <3>1, <3>2, <3>3 DEF Proper
    <2>3. QED
      BY <2>1, <2>2
  <1>4. ASSUME NEW r \in Requests, Unrouted(r) PROVE Named'
    BY <1>4 DEF Unrouted, Respond
  <1>5. ASSUME NEW r \in Requests, OpenSession(r) PROVE Named'
    BY <1>5 DEF OpenSession, Context, Task
  <1>6. ASSUME NEW r \in Requests, Handler(r) PROVE Named'
    <2>1. PICK a \in Answers : Proper(r, a) /\ answer' = [answer EXCEPT ![r] = a]
      BY <1>6, HandlerProper
    <2>2. QED
      BY <1>6, <2>1, HandlerMoves, HandlerRows DEF Proper
  <1>7. ASSUME NEW r \in Requests, CloseSession(r) PROVE Named'
    BY <1>7 DEF CloseSession
  <1>8. ASSUME NEW r \in Requests, Unwind(r) PROVE Named'
    BY <1>8 DEF Unwind, Task
  <1>9. ASSUME NEW r \in Requests, Crash(r) PROVE Named'
    BY <1>9 DEF Crash, Escape, RollBack, Task, NoAnswer
  <1>10. ASSUME NEW r \in Requests, Degrade(r) PROVE Named'
    BY <1>10 DEF Degrade, Respond, RollBack
  <1>11. ASSUME NEW r \in Requests, CommitFails(r) PROVE Named'
    <2>1. RollBack(r) /\ pc[r] # "idle"
      BY <1>11 DEF CommitFails
    <2>2. CASE Escape(r)
      BY <2>1, <2>2 DEF Escape, RollBack, Task, NoAnswer
    <2>3. CASE UNCHANGED <<answer, pc, context>>
      BY <2>1, <2>3 DEF RollBack
    <2>4. QED
      BY <1>11, <2>2, <2>3 DEF CommitFails
  <1>12. CASE UNCHANGED vars
    BY <1>12 DEF vars
  <1>13. QED
    BY <1>1, <1>2, <1>3, <1>4, <1>5, <1>6, <1>7, <1>8, <1>9, <1>10, <1>11, <1>12, NextCases

-----------------------------------------------------------------------------
(* What the clients see.                                                   *)

LEMMA NextOwnTenantOnly ==
    IInv /\ [Next]_vars => OwnTenantOnly'
  <1> SUFFICES ASSUME IInv, [Next]_vars
               PROVE  OwnTenantOnly'
    OBVIOUS
  <1> USE InputAssumption DEF IInv, TypeOK, Named, OwnTenantOnly, TenantOf
  <1>1. ASSUME NEW r \in Requests, NEW i \in Inputs, Receive(r, i) PROVE OwnTenantOnly'
    <2>1. CASE Preflight(r, i)
      BY <1>1, <2>1 DEF Receive, Preflight, NoAnswer
    <2>2. CASE Exempt(r, i)
      BY <1>1, <2>2 DEF Receive, Exempt, Task, NoAnswer
    <2>3. CASE Reject(r, i)
      BY <1>1, <2>3 DEF Receive, Reject, Respond, NoAnswer
    <2>4. CASE Bind(r, i)
      BY <1>1, <2>4 DEF Receive, Bind, Task, NoAnswer
    <2>5. QED
      BY <1>1, <2>1, <2>2, <2>3, <2>4 DEF Receive
  <1>2. ASSUME NEW r \in Requests, Limiter(r) PROVE OwnTenantOnly'
    BY <1>2 DEF Limiter, Respond
  <1>3. ASSUME NEW r \in Requests, IdempotencyLayer(r) PROVE OwnTenantOnly'
    <2>1. CASE pc'[r] # "unwind"
      BY <1>3, <2>1, IdempotencyPasses
    <2>2. CASE pc'[r] = "unwind"
      <3>1. PICK a \in Answers : Proper(r, a) /\ answer' = [answer EXCEPT ![r] = a]
        BY <1>3, <2>2, ReplayProper
      <3>2. pc' = [pc EXCEPT ![r] = "unwind"]
        BY <1>3, <2>2, IdempotencyPasses
      <3>3. UNCHANGED <<req, context, conn, setting, rows, persons>>
        BY <1>3, IdempotencyPasses
      <3>4. QED
        BY <3>1, <3>2, <3>3 DEF Proper
    <2>3. QED
      BY <2>1, <2>2
  <1>4. ASSUME NEW r \in Requests, Unrouted(r) PROVE OwnTenantOnly'
    BY <1>4 DEF Unrouted, Respond
  <1>5. ASSUME NEW r \in Requests, OpenSession(r) PROVE OwnTenantOnly'
    BY <1>5 DEF OpenSession, Context, Task
  <1>6. ASSUME NEW r \in Requests, Handler(r) PROVE OwnTenantOnly'
    <2>1. PICK a \in Answers : Proper(r, a) /\ answer' = [answer EXCEPT ![r] = a]
      BY <1>6, HandlerProper
    <2>2. QED
      BY <1>6, <2>1, HandlerMoves, HandlerRows DEF Proper
  <1>7. ASSUME NEW r \in Requests, CloseSession(r) PROVE OwnTenantOnly'
    BY <1>7 DEF CloseSession
  <1>8. ASSUME NEW r \in Requests, Unwind(r) PROVE OwnTenantOnly'
    BY <1>8 DEF Unwind, Task
  <1>9. ASSUME NEW r \in Requests, Crash(r) PROVE OwnTenantOnly'
    BY <1>9 DEF Crash, Escape, RollBack, Task, NoAnswer
  <1>10. ASSUME NEW r \in Requests, Degrade(r) PROVE OwnTenantOnly'
    BY <1>10 DEF Degrade, Respond, RollBack
  <1>11. ASSUME NEW r \in Requests, CommitFails(r) PROVE OwnTenantOnly'
    BY <1>11 DEF CommitFails, Escape, RollBack, Task, NoAnswer
  <1>12. CASE UNCHANGED vars
    BY <1>12 DEF vars
  <1>13. QED
    BY <1>1, <1>2, <1>3, <1>4, <1>5, <1>6, <1>7, <1>8, <1>9, <1>10, <1>11, <1>12, NextCases

LEMMA NextNothingWithoutAuthority ==
    IInv /\ [Next]_vars => NothingWithoutAuthority'
  <1> SUFFICES ASSUME IInv, [Next]_vars
               PROVE  NothingWithoutAuthority'
    OBVIOUS
  <1> USE InputAssumption DEF IInv, TypeOK, Named, NothingWithoutAuthority, Protected, Authentic
  <1>0. \A r \in Requests :
           /\ pc[r] = "idle" => conn[r] = NoValue
           /\ pc[r] \in {"limiter", "idempotency"} => Protected(req[r])
           /\ pc[r] \in {"limiter", "idempotency", "session", "handler"} /\ Protected(req[r])
                => Authentic(req[r])
    BY DEF Bound, Held
  <1>1. ASSUME NEW r \in Requests, NEW i \in Inputs, Receive(r, i) PROVE NothingWithoutAuthority'
    <2>1. CASE Preflight(r, i)
      BY <1>1, <2>1 DEF Receive, Preflight, NoAnswer
    <2>2. CASE Exempt(r, i)
      BY <1>1, <2>2 DEF Receive, Exempt, Task, NoAnswer
    <2>3. CASE Reject(r, i)
      BY <1>1, <1>0, <2>3 DEF Receive, Reject, Respond, NoAnswer
    <2>4. CASE Bind(r, i)
      BY <1>1, <2>4 DEF Receive, Bind, Task, NoAnswer
    <2>5. QED
      BY <1>1, <2>1, <2>2, <2>3, <2>4 DEF Receive
  <1>2. ASSUME NEW r \in Requests, Limiter(r) PROVE NothingWithoutAuthority'
    BY <1>2, <1>0 DEF Limiter, Respond
  <1>3. ASSUME NEW r \in Requests, IdempotencyLayer(r) PROVE NothingWithoutAuthority'
    <2>1. CASE pc'[r] # "unwind"
      BY <1>3, <2>1, IdempotencyPasses
    <2>2. CASE pc'[r] = "unwind"
      <3>1. PICK a \in Answers : Proper(r, a) /\ answer' = [answer EXCEPT ![r] = a]
        BY <1>3, <2>2, ReplayProper
      <3>2. pc' = [pc EXCEPT ![r] = "unwind"]
        BY <1>3, <2>2, IdempotencyPasses
      <3>3. UNCHANGED <<req, context, conn, setting, rows, persons>>
        BY <1>3, IdempotencyPasses
      <3>4. QED
        BY <3>1, <3>2, <3>3 DEF Proper
    <2>3. QED
      BY <2>1, <2>2
  <1>4. ASSUME NEW r \in Requests, Unrouted(r) PROVE NothingWithoutAuthority'
    BY <1>4, <1>0 DEF Unrouted, Respond
  <1>5. ASSUME NEW r \in Requests, OpenSession(r) PROVE NothingWithoutAuthority'
    BY <1>5, <1>0 DEF OpenSession, Context, Task
  <1>6. ASSUME NEW r \in Requests, Handler(r) PROVE NothingWithoutAuthority'
    <2>1. PICK a \in Answers : Proper(r, a) /\ answer' = [answer EXCEPT ![r] = a]
      BY <1>6, HandlerProper
    <2>2. QED
      BY <1>6, <2>1, HandlerMoves, HandlerRows DEF Proper
  <1>7. ASSUME NEW r \in Requests, CloseSession(r) PROVE NothingWithoutAuthority'
    BY <1>7 DEF CloseSession
  <1>8. ASSUME NEW r \in Requests, Unwind(r) PROVE NothingWithoutAuthority'
    BY <1>8 DEF Unwind, Task
  <1>9. ASSUME NEW r \in Requests, Crash(r) PROVE NothingWithoutAuthority'
    BY <1>9, <1>0 DEF Crash, Escape, RollBack, Task, NoAnswer
  <1>10. ASSUME NEW r \in Requests, Degrade(r) PROVE NothingWithoutAuthority'
    BY <1>10 DEF Degrade, Respond, RollBack
  <1>11. ASSUME NEW r \in Requests, CommitFails(r) PROVE NothingWithoutAuthority'
    BY <1>11 DEF CommitFails, Escape, RollBack, Task, NoAnswer
  <1>12. CASE UNCHANGED vars
    BY <1>12 DEF vars
  <1>13. QED
    BY <1>1, <1>2, <1>3, <1>4, <1>5, <1>6, <1>7, <1>8, <1>9, <1>10, <1>11, <1>12, NextCases

LEMMA NextRouteErrorsNameTheRequest ==
    IInv /\ [Next]_vars => RouteErrorsNameTheRequest'
  <1> SUFFICES ASSUME IInv, [Next]_vars
               PROVE  RouteErrorsNameTheRequest'
    OBVIOUS
  <1> USE InputAssumption DEF IInv, TypeOK, Named, RouteErrorsNameTheRequest, Protected, Authentic
  <1>1. ASSUME NEW r \in Requests, NEW i \in Inputs, Receive(r, i) PROVE RouteErrorsNameTheRequest'
    <2>1. CASE Preflight(r, i)
      BY <1>1, <2>1 DEF Receive, Preflight, NoAnswer
    <2>2. CASE Exempt(r, i)
      BY <1>1, <2>2 DEF Receive, Exempt, Task, NoAnswer
    <2>3. CASE Reject(r, i)
      BY <1>1, <2>3 DEF Receive, Reject, Respond, NoAnswer
    <2>4. CASE Bind(r, i)
      BY <1>1, <2>4 DEF Receive, Bind, Task, NoAnswer
    <2>5. QED
      BY <1>1, <2>1, <2>2, <2>3, <2>4 DEF Receive
  <1>2. ASSUME NEW r \in Requests, Limiter(r) PROVE RouteErrorsNameTheRequest'
    BY <1>2 DEF Limiter, Respond
  <1>3. ASSUME NEW r \in Requests, IdempotencyLayer(r) PROVE RouteErrorsNameTheRequest'
    <2>1. CASE pc'[r] # "unwind"
      BY <1>3, <2>1, IdempotencyPasses
    <2>2. CASE pc'[r] = "unwind"
      <3>1. PICK a \in Answers : Proper(r, a) /\ answer' = [answer EXCEPT ![r] = a]
        BY <1>3, <2>2, ReplayProper
      <3>2. pc' = [pc EXCEPT ![r] = "unwind"]
        BY <1>3, <2>2, IdempotencyPasses
      <3>3. UNCHANGED <<req, context, conn, setting, rows, persons>>
        BY <1>3, IdempotencyPasses
      <3>4. QED
        BY <3>1, <3>2, <3>3 DEF Proper
    <2>3. QED
      BY <2>1, <2>2
  <1>4. ASSUME NEW r \in Requests, Unrouted(r) PROVE RouteErrorsNameTheRequest'
    BY <1>4 DEF Unrouted, Respond
  <1>5. ASSUME NEW r \in Requests, OpenSession(r) PROVE RouteErrorsNameTheRequest'
    BY <1>5 DEF OpenSession, Context, Task
  <1>6. ASSUME NEW r \in Requests, Handler(r) PROVE RouteErrorsNameTheRequest'
    <2>1. PICK a \in Answers : Proper(r, a) /\ answer' = [answer EXCEPT ![r] = a]
      BY <1>6, HandlerProper
    <2>2. QED
      BY <1>6, <2>1, HandlerMoves, HandlerRows DEF Proper
  <1>7. ASSUME NEW r \in Requests, CloseSession(r) PROVE RouteErrorsNameTheRequest'
    BY <1>7 DEF CloseSession
  <1>8. ASSUME NEW r \in Requests, Unwind(r) PROVE RouteErrorsNameTheRequest'
    BY <1>8 DEF Unwind, Task
  <1>9. ASSUME NEW r \in Requests, Crash(r) PROVE RouteErrorsNameTheRequest'
    BY <1>9 DEF Crash, Escape, RollBack, Task, NoAnswer
  <1>10. ASSUME NEW r \in Requests, Degrade(r) PROVE RouteErrorsNameTheRequest'
    BY <1>10 DEF Degrade, Respond, RollBack
  <1>11. ASSUME NEW r \in Requests, CommitFails(r) PROVE RouteErrorsNameTheRequest'
    BY <1>11 DEF CommitFails, Escape, RollBack, Task, NoAnswer
  <1>12. CASE UNCHANGED vars
    BY <1>12 DEF vars
  <1>13. QED
    BY <1>1, <1>2, <1>3, <1>4, <1>5, <1>6, <1>7, <1>8, <1>9, <1>10, <1>11, <1>12, NextCases

-----------------------------------------------------------------------------
(* The theorems.                                                           *)

LEMMA NextIInv == IInv /\ [Next]_vars => IInv'
  BY NextTypeOK, NextBound, NextHeld, NextNamed, NextOwnTenantOnly, NextNothingWithoutAuthority,
     NextRouteErrorsNameTheRequest
     DEF IInv

LEMMA Invariant == Spec => []IInv
  BY InitIInv, NextIInv, PTL DEF Spec

\* The state of the layers has its type in every reachable state.
THEOREM TypeCorrect == Spec => []TypeOK
  BY Invariant, PTL DEF IInv

\* No client sees a person of another tenant, whatever the layers decide, the
\* store replays and the faults interrupt.
THEOREM TenantIsolation == Spec => []OwnTenantOnly
  BY Invariant, PTL DEF IInv

\* The setting of a connection is its holder's tenant's, so the policies never
\* work for a request that has gone.
THEOREM SettingScoped == Spec => []SettingFollowsHolder
  <1>1. IInv => SettingFollowsHolder
    BY InputAssumption DEF IInv, Held, Free, SettingFollowsHolder
  <1>2. QED
    BY <1>1, Invariant, PTL

\* Without the token and a tenant no request gets further than
\* TenancyMiddleware: it holds no connection, writes nothing and sees nobody.
THEOREM Authority == Spec => []NothingWithoutAuthority
  BY Invariant, PTL DEF IInv

\* X-Request-ID is in every answer but the preflight's and the 500, trace_id is
\* the same id in the errors that the routes and TenancyMiddleware make, and
\* never the id of another request.
THEOREM Correlation == Spec => []RouteErrorsNameTheRequest
  BY Invariant, PTL DEF IInv

=============================================================================
