-------------------------- MODULE RequestPipeline --------------------------
(***************************************************************************)
(* The layers a request crosses (create_app in src/src/hawiya/main.py):    *)
(* CORS, TenancyMiddleware, RateLimitMiddleware, IdempotencyMiddleware,    *)
(* the route with its database session, and the handler of unhandled       *)
(* exceptions around them all.                                             *)
(*                                                                         *)
(* Requests of several tenants are interleaved on one worker.  They share  *)
(* the connection pool, and they do not share the two context variables:   *)
(* each request runs in a task, and the task of a layer below inherits the *)
(* context of the layer above.                                             *)
(*                                                                         *)
(* What the limiter and the idempotency store decide is the subject of     *)
(* RateLimit and Idempotency; here they may refuse any request they apply  *)
(* to, and the store may replay any response of its tenant.  A request's   *)
(* id is the request itself, and a person is named by the request that     *)
(* created it.                                                             *)
(***************************************************************************)
EXTENDS Naturals, FiniteSets

CONSTANTS
    Requests,
    Tenants,
    Connections,  \* the slots of the engine's pool
    NoValue,      \* an absent header, an unset variable, an empty string
    Malformed,    \* an X-Tenant-ID that is not a UUID
    KeyText,      \* the text of an Idempotency-Key
    Inputs,       \* the requests the consumers may send
    Faulty        \* the requests that may meet a fault of the database or pool

\* "write" stands for the three routes that insert rows, "ready" for the
\* readiness probe, "open" for the other paths without authentication, and
\* "unknown" for a path or a method that no router has.
Routes == {"preflight", "open", "ready", "get", "search", "write", "unknown"}

InputType == [route: Routes, bearer: BOOLEAN, tenant: Tenants \cup {NoValue, Malformed},
              id: BOOLEAN,   \* whether X-Request-ID is given
              key: BOOLEAN]  \* whether Idempotency-Key is

ASSUME InputAssumption ==
    /\ {NoValue, Malformed} \cap (Tenants \cup Connections \cup Requests) = {}
    /\ NoValue # Malformed /\ KeyText \notin Requests \cup {NoValue}
    /\ Inputs \subseteq InputType /\ Faulty \subseteq Requests

VARIABLES
    req,      \* the input of each request
    pc,       \* the layer it is in
    context,  \* the tenant and request id its task sees
    conn,     \* the pooled connection its session holds
    setting,  \* app.current_tenant of each connection
    rows,     \* the persons its transaction has inserted
    persons,  \* the committed rows of the persons table
    answer    \* what its client received

vars == <<req, pc, context, conn, setting, rows, persons, answer>>

PCs == {"idle", "limiter", "idempotency", "session", "handler", "unwind", "done"}

\* The errors of the routes are "notFound" and "refused", which stands for
\* their 400, 409, 413, 415, 422 and 503; those of FastAPI itself are
\* "unprocessable", the 422 of a request that does not fit the route's
\* parameters, and "unrouted", the 404 or 405 of the router.
Errors == {"notFound", "refused", "unauthenticated", "invalid", "limited", "conflict",
           "unprocessable", "unrouted", "crashed"}
Statuses == {"none", "ok", "degraded"} \cup Errors

Answers == [status: Statuses,
            header: Requests \cup {NoValue},            \* X-Request-ID
            trace: Requests \cup {NoValue, KeyText},    \* trace_id of an error
            found: SUBSET Requests]                     \* persons it shows
NoAnswer == [status |-> "none", header |-> NoValue, trace |-> NoValue, found |-> {}]

Contexts == [tenant: Tenants \cup {NoValue}, id: Requests \cup {NoValue}]
Unset == [tenant |-> NoValue, id |-> NoValue]
NoInput == [route |-> "open", bearer |-> FALSE, tenant |-> NoValue, id |-> FALSE, key |-> FALSE]

TypeOK ==
    /\ req \in [Requests -> Inputs \cup {NoInput}]
    /\ pc \in [Requests -> PCs]
    /\ context \in [Requests -> Contexts]
    /\ conn \in [Requests -> Connections \cup {NoValue}]
    /\ setting \in [Connections -> Tenants \cup {NoValue}]
    /\ rows \in [Requests -> SUBSET Requests]
    /\ persons \subseteq Requests
    /\ answer \in [Requests -> Answers]

Init ==
    /\ req = [r \in Requests |-> NoInput]
    /\ pc = [r \in Requests |-> "idle"]
    /\ context = [r \in Requests |-> Unset]
    /\ conn = [r \in Requests |-> NoValue]
    /\ setting = [c \in Connections |-> NoValue]
    /\ rows = [r \in Requests |-> {}]
    /\ persons = {}
    /\ answer = [r \in Requests |-> NoAnswer]

-----------------------------------------------------------------------------
(* Context and connections.                                                *)

\* Seeded bug: the variables are globals of the process.
TaskShared(r) == CHOOSE q \in Requests : TRUE

\* The task whose context r reads and writes: its own, by ContextVar.
Task(r) == r

Context(r) == context[Task(r)]

Free == {c \in Connections : \A r \in Requests : conn[r] # c}

\* The person's tenant, as its row has it.
TenantOf(p) == req[p].tenant

\* What a query of r returns: the repository filters by the tenant argument,
\* and the policy by the connection's setting.
Visible(r) == {p \in persons \cup rows[r] :
                 TenantOf(p) = Context(r).tenant /\ TenantOf(p) = setting[conn[r]]}

\* What a search may return: those whose names are similar enough, up to the
\* limit.
Candidates(r) == SUBSET Visible(r)

\* The answer that leaves TenancyMiddleware: it puts the id in the header.
Respond(r, status, trace, found) ==
    answer' = [answer EXCEPT ![r] =
                 [status |-> status, header |-> r, trace |-> trace, found |-> found]]

-----------------------------------------------------------------------------
(* The layers, inwards.                                                    *)

\* CORSMiddleware answers a preflight before anybody asks for a token.
Preflight(r, i) ==
    /\ i.route = "preflight"
    /\ pc' = [pc EXCEPT ![r] = "done"]
    /\ answer' = [answer EXCEPT ![r] = [NoAnswer EXCEPT !.status = "ok"]]
    /\ UNCHANGED context

\* UNAUTHENTICATED_PATHS: only the request id is bound.
Exempt(r, i) ==
    /\ i.route \in {"open", "ready"}
    /\ context' = [context EXCEPT ![Task(r)].id = r]
    /\ pc' = [pc EXCEPT ![r] = IF i.route = "ready" THEN "session" ELSE "handler"]
    /\ UNCHANGED answer

Protected(i) == i.route \in {"get", "search", "write", "unknown"}

\* Seeded bugs: a tenant header is enough; it is not parsed.
AuthenticTenantOnly(i) == i.tenant \in Tenants
AuthenticUnparsed(i) == i.bearer /\ i.tenant # NoValue

Authentic(i) == i.bearer /\ i.tenant \in Tenants

Reject(r, i) ==
    /\ Protected(i) /\ ~Authentic(i)
    /\ Respond(r, IF i.bearer /\ i.tenant = Malformed THEN "invalid" ELSE "unauthenticated",
               r, {})
    /\ pc' = [pc EXCEPT ![r] = "done"]
    /\ UNCHANGED context

\* Seeded bug: the id is not bound for the layers below.
BindTenantOnly(r, i) ==
    /\ Protected(i) /\ Authentic(i)
    /\ context' = [context EXCEPT ![Task(r)].tenant = i.tenant]
    /\ pc' = [pc EXCEPT ![r] = "limiter"]
    /\ UNCHANGED answer

Bind(r, i) ==
    /\ Protected(i) /\ Authentic(i)
    /\ context' = [context EXCEPT ![Task(r)] = [tenant |-> i.tenant, id |-> r]]
    /\ pc' = [pc EXCEPT ![r] = "limiter"]
    /\ UNCHANGED answer

Receive(r, i) ==
    /\ pc[r] = "idle"
    /\ req' = [req EXCEPT ![r] = i]
    /\ Preflight(r, i) \/ Exempt(r, i) \/ Reject(r, i) \/ Bind(r, i)
    /\ UNCHANGED <<conn, setting, rows, persons>>

\* RateLimitMiddleware: through, or 429 with the id the client gave, if any.
Limiter(r) ==
    /\ pc[r] = "limiter"
    /\ \/ pc' = [pc EXCEPT ![r] = "idempotency"] /\ UNCHANGED answer
       \/ /\ Respond(r, "limited", IF req[r].id THEN r ELSE NoValue, {})
          /\ pc' = [pc EXCEPT ![r] = "unwind"]
    /\ UNCHANGED <<req, context, conn, setting, rows, persons>>

Keyed(r) == req[r].route \in {"search", "write", "unknown"} /\ req[r].key

\* Seeded bug: the entries of the store are not told apart by tenant.
ReplayableAnyTenant(r) == {q \in Requests : Keyed(q) /\ answer[q].status = "ok"}

\* The requests whose stored response may be replayed to r: the tenant is in
\* the store's key, the path is not.
Replayable(r) == {q \in Requests :
                    Keyed(q) /\ answer[q].status = "ok" /\ req[q].tenant = req[r].tenant}

\* IdempotencyMiddleware: through, the stored response, or 422 with the key
\* for a trace id.
IdempotencyLayer(r) ==
    /\ pc[r] = "idempotency"
    /\ \/ pc' = [pc EXCEPT ![r] = "session"] /\ UNCHANGED answer
       \/ /\ Keyed(r)
          /\ \E q \in Replayable(r) : \/ Respond(r, "ok", NoValue, answer[q].found)
                                     \/ Respond(r, "conflict", KeyText, {})
          /\ pc' = [pc EXCEPT ![r] = "unwind"]
    /\ UNCHANGED <<req, context, conn, setting, rows, persons>>

\* What FastAPI answers before it calls a dependency: no route has this path
\* and method, or the body is no JSON or no form.  It has handlers of its own
\* for these, which know neither the envelope nor the request id.
Unrouted(r) ==
    /\ pc[r] = "session" /\ req[r].route \in {"search", "write", "unknown"}
    /\ Respond(r, IF req[r].route = "unknown" THEN "unrouted" ELSE "unprocessable", NoValue, {})
    /\ pc' = [pc EXCEPT ![r] = "unwind"]
    /\ UNCHANGED <<req, context, conn, setting, rows, persons>>

\* get_session: a connection of the pool, in a transaction, with the setting
\* made from the context; it raises without a tenant.  The probe's connection
\* runs no such statement.
OpenSession(r) ==
    /\ pc[r] = "session" /\ req[r].route # "unknown"
    /\ req[r].route = "ready" \/ Context(r).tenant # NoValue
    /\ \E c \in Free :
         /\ conn' = [conn EXCEPT ![r] = c]
         /\ setting' = IF req[r].route = "ready" THEN setting
                       ELSE [setting EXCEPT ![c] = Context(r).tenant]
    /\ pc' = [pc EXCEPT ![r] = "handler"]
    /\ UNCHANGED <<req, context, rows, persons, answer>>

\* A write route inserts its person and shows it.
Create(r) ==
    /\ req[r].route = "write"
    /\ rows' = [rows EXCEPT ![r] = {r}]
    /\ Respond(r, "ok", NoValue, {r})

\* Or it inserts none: it shows the person that the matcher found, or nobody
\* (an extraction, a resolution that may not create), or it refuses, with the
\* candidate of a 409 or without.
Decline(r) ==
    /\ req[r].route = "write"
    /\ \E found \in {{}} \cup {{p} : p \in Visible(r)} :
         \/ Respond(r, "ok", NoValue, found)
         \/ Respond(r, "refused", Context(r).id, found)
    /\ UNCHANGED rows

Search(r) ==
    /\ req[r].route = "search"
    /\ \E found \in Candidates(r) : Respond(r, "ok", NoValue, found)
    /\ UNCHANGED rows

Get(r) ==
    /\ req[r].route = "get"
    /\ \/ \E p \in Visible(r) : Respond(r, "ok", NoValue, {p})
       \/ \E p \in Requests \ Visible(r) : Respond(r, "notFound", Context(r).id, {})
    /\ UNCHANGED rows

\* The other routes ask for nothing; a method that theirs is not is refused by
\* the router.
Open(r) ==
    /\ req[r].route \in {"open", "ready"}
    /\ \/ Respond(r, "ok", NoValue, {})
       \/ req[r].route = "open" /\ Respond(r, "unrouted", NoValue, {})
    /\ UNCHANGED rows

\* FastAPI compares path and body with the route's parameters after it has
\* called the dependencies.
Unprocessable(r) ==
    /\ req[r].route \in {"get", "search", "write"}
    /\ Respond(r, "unprocessable", NoValue, {})
    /\ UNCHANGED rows

\* The route and its service, which requires_tenant lets in.
Handler(r) ==
    /\ pc[r] = "handler"
    /\ Create(r) \/ Decline(r) \/ Search(r) \/ Get(r) \/ Open(r) \/ Unprocessable(r)
    /\ pc' = [pc EXCEPT ![r] = "unwind"]
    /\ UNCHANGED <<req, context, conn, setting, persons>>

-----------------------------------------------------------------------------
(* The way out.                                                            *)

\* Seeded bug: after an error response the exit gives nothing back.
CloseSessionIfOk(r) ==
    /\ conn[r] # NoValue /\ pc[r] \in {"unwind", "done"}
    /\ IF answer[r].status # "ok" THEN UNCHANGED vars
       ELSE /\ persons' = persons \cup rows[r]
            /\ setting' = [setting EXCEPT ![conn[r]] = NoValue]
            /\ conn' = [conn EXCEPT ![r] = NoValue]
            /\ UNCHANGED <<req, pc, context, rows, answer>>

\* The session's exit, before the response or after it: the transaction ends,
\* the setting local to it with it, and the connection returns to the pool.
CloseSession(r) ==
    /\ conn[r] # NoValue /\ pc[r] \in {"unwind", "done"}
    /\ persons' = persons \cup rows[r]
    /\ setting' = [setting EXCEPT ![conn[r]] = NoValue]
    /\ conn' = [conn EXCEPT ![r] = NoValue]
    /\ UNCHANGED <<req, pc, context, rows, answer>>

\* The response has crossed TenancyMiddleware, which resets the variables.
Unwind(r) ==
    /\ pc[r] = "unwind"
    /\ context' = [context EXCEPT ![Task(r)] = Unset]
    /\ pc' = [pc EXCEPT ![r] = "done"]
    /\ UNCHANGED <<req, conn, setting, rows, persons, answer>>

\* What a failed transaction leaves: nothing, and a connection that is free.
RollBack(r) ==
    /\ conn' = [conn EXCEPT ![r] = NoValue]
    /\ setting' = [c \in Connections |-> IF c = conn[r] THEN NoValue ELSE setting[c]]
    /\ rows' = [rows EXCEPT ![r] = {}]
    /\ UNCHANGED <<req, persons>>

\* An exception no layer catches: every "finally" on the way runs, and the
\* response is made outside them all, where the id is not bound any more.
Escape(r) ==
    /\ answer' = [answer EXCEPT ![r] = [NoAnswer EXCEPT !.status = "crashed"]]
    /\ pc' = [pc EXCEPT ![r] = "done"]
    /\ context' = [context EXCEPT ![Task(r)] = Unset]

\* The limiter's arithmetic fails (a limit of zero), the pool's timeout passes,
\* or the database fails under the handler.
Crash(r) ==
    /\ r \in Faulty /\ Protected(req[r])
    /\ pc[r] \in {"limiter", "session", "handler"}
    /\ req[r].route = "unknown" => pc[r] = "limiter"
    /\ Escape(r) /\ RollBack(r)

\* The probe catches the exception and answers 200, "degraded".
Degrade(r) ==
    /\ r \in Faulty /\ req[r].route = "ready" /\ pc[r] \in {"session", "handler"}
    /\ Respond(r, "degraded", NoValue, {})
    /\ pc' = [pc EXCEPT ![r] = "unwind"]
    /\ UNCHANGED context
    /\ RollBack(r)

\* The commit at the session's exit fails: a 500 instead of the response, or
\* nothing the client learns of if the response has been sent.
CommitFails(r) ==
    /\ r \in Faulty /\ Protected(req[r])
    /\ conn[r] # NoValue /\ pc[r] \in {"unwind", "done"}
    /\ \/ pc[r] = "unwind" /\ Escape(r)
       \/ UNCHANGED <<answer, pc, context>>
    /\ RollBack(r)

Terminating == (\A r \in Requests : pc[r] = "done" /\ conn[r] = NoValue) /\ UNCHANGED vars

Serve(r) == Limiter(r) \/ IdempotencyLayer(r) \/ Unrouted(r) \/ OpenSession(r)
            \/ Handler(r) \/ CloseSession(r) \/ Unwind(r)

Next ==
    \/ \E r \in Requests, i \in Inputs : Receive(r, i)
    \/ \E r \in Requests : Serve(r) \/ Crash(r) \/ Degrade(r) \/ CommitFails(r)
    \/ Terminating

\* The event loop runs every task that can take a step, and the pool hands a
\* connection that returns to a request that waits for one.  Clients need not
\* send anything, and nothing need fail.
Fairness == \A r \in Requests : WF_vars(Serve(r))

Spec == Init /\ [][Next]_vars
FairSpec == Spec /\ Fairness
-----------------------------------------------------------------------------
(* What the layers promise together.                                       *)

\* No client sees a person of another tenant, whatever ran between the check
\* of its header and its query.
OwnTenantOnly ==
    \A r \in Requests : \A p \in answer[r].found : TenantOf(p) = req[r].tenant

\* The policies of a connection work for the tenant of the request that holds
\* it, and for nobody while the connection waits in the pool.
SettingFollowsHolder ==
    \A c \in Connections :
        setting[c] # NoValue =>
            \E r \in Requests : conn[r] = c /\ setting[c] = req[r].tenant

\* Without the bearer token and a tenant, a request of the API gets no further
\* than TenancyMiddleware: no limit, key, route or error of a layer below
\* answers it, it holds no connection, and leaves and shows no person.
NothingWithoutAuthority ==
    \A r \in Requests :
        /\ rows[r] # {} \/ answer[r].found # {} => Protected(req[r])
        /\ Protected(req[r]) /\ ~(req[r].bearer /\ req[r].tenant \in Tenants) =>
              /\ answer[r].status \in {"none", "unauthenticated", "invalid"}
              /\ rows[r] = {} /\ answer[r].found = {} /\ conn[r] = NoValue

\* X-Request-ID is in every answer but those made outside TenancyMiddleware
\* (the preflight's and the 500); trace_id is the same id in the errors of the
\* routes and of TenancyMiddleware, and no trace_id is ever the id of another
\* request.
RouteErrorsNameTheRequest ==
    \A r \in Requests :
        /\ answer[r].status \notin {"none", "crashed"} /\ req[r].route # "preflight"
             => answer[r].header = r
        /\ answer[r].status \in {"notFound", "refused", "unauthenticated", "invalid"}
             => answer[r].trace = r
        /\ answer[r].trace \in {r, NoValue, KeyText}

\* Every request comes to an end, answered and without its connection, even
\* when there are fewer connections than requests.
EveryRequestEnds ==
    \A r \in Requests :
        pc[r] # "idle" ~> pc[r] = "done" /\ conn[r] = NoValue /\ answer[r].status # "none"
=============================================================================
