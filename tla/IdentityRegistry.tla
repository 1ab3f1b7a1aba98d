-------------------------- MODULE IdentityRegistry --------------------------
(***************************************************************************)
(* The request transactions that read and write the Golden Record tables:  *)
(* POST /v1/documents/extract, POST /v1/identity/resolve and               *)
(* POST /v1/persons, each running its service inside the one database      *)
(* session that get_session opens for it (src/src/hawiya/db/session.py).   *)
(*                                                                         *)
(* Requests run concurrently, on one worker or on several, over one        *)
(* PostgreSQL database at READ COMMITTED.  What the database gives the     *)
(* code is modelled by three rules: a SELECT sees the rows committed when  *)
(* it runs, a transaction's rows become visible all at once, and inserting *)
(* an active identifier waits while another open transaction holds the     *)
(* same key and fails once a committed one does (the partial unique index  *)
(* uq_pid_active_identifier of migration 0003).                            *)
(*                                                                         *)
(* A row is named by its kind and by the request that inserted it, which   *)
(* fixes its contents; so a person's person_uuid is the request that       *)
(* created the person.  Name variants, metrics and logs are left out: no   *)
(* operation here reads them.                                              *)
(***************************************************************************)
EXTENDS Naturals, FiniteSets

CONSTANTS
    Requests,      \* the HTTP requests of a behaviour
    Tenants,
    Passports,     \* passport numbers
    EmiratesIds,   \* Emirates ID numbers
    Nationalities,
    BirthDates,
    NoValue,       \* a field that is absent, or NULL
    Inputs,        \* the requests the consumers may send
    Faulty,        \* the requests that may meet a database fault or a crash
    CommitFirst    \* TRUE:  FastAPI exits the session before it answers
                   \*        (0.106 to 0.117)
                   \* FALSE: it answers first (0.118 on); pyproject.toml
                   \*        allows both

Kinds == {"extract", "resolve", "create"}

\* What the handler of a request can learn about its subject: from the image
\* for extract and resolve, from the JSON body for create.
InputType ==
    [kind: Kinds, tenant: Tenants,
     passport: Passports \cup {NoValue}, emirates: EmiratesIds \cup {NoValue},
     nationality: Nationalities \cup {NoValue},
     birthDate: BirthDates \cup {NoValue}, createIfMissing: BOOLEAN]

\* NoValue is none of the values, and only a JSON body carries an Emirates ID.
ASSUME InputAssumption ==
    /\ NoValue \notin Requests \cup Passports \cup EmiratesIds
                        \cup Nationalities \cup BirthDates
    /\ Inputs \subseteq InputType
    /\ \A i \in Inputs : i.kind # "create" => i.emirates = NoValue

ASSUME ModeAssumption == CommitFirst \in BOOLEAN /\ Faulty \subseteq Requests

IdentifierTypes == {"passport", "emirates"}

\* The rows one transaction can insert.  audit_log rows are told apart by the
\* endpoint and the decision they record.
Rows == IdentifierTypes \cup
        {"person", "extraction", "match_decision",
         "audit_extract", "audit_failed", "audit_resolve", "audit_create"}

Statuses == {"none", "ok", "created", "duplicate", "unreadable", "rejected"}
Actions  == {"none", "auto_matched", "suggested_match", "new_record",
             "no_match_no_create"}

\* The handler's return value: the response it will be turned into.
Results == [status: Statuses, action: Actions, person: Requests \cup {NoValue}]
Result(s, a, p) == [status |-> s, action |-> a, person |-> p]
NoResult == Result("none", "none", NoValue)

VARIABLES
    req,      \* the input of each request
    pc,       \* where its handler is
    tx,       \* the state of its database transaction
    pending,  \* rows added to the session and not flushed yet
    rows,     \* rows its transaction has inserted (visible once committed)
    link,     \* document_extractions.person_uuid of the row it inserted
    result,   \* what its handler decided
    answer    \* what its client received

vars == <<req, pc, tx, pending, rows, link, result, answer>>

PCs == {"idle", "extract", "matchEmirates", "matchPassport", "getPerson",
        "apply", "record", "finish", "done"}

TypeOK ==
    /\ req \in [Requests -> Inputs]
    /\ pc \in [Requests -> PCs]
    /\ tx \in [Requests -> {"none", "open", "committed", "aborted"}]
    /\ pending \in [Requests -> SUBSET Rows]
    /\ rows \in [Requests -> SUBSET Rows]
    /\ link \in [Requests -> Requests \cup {NoValue}]
    /\ result \in [Requests -> Results]
    /\ answer \in [Requests -> {"none", "sent", "error", "lost"}]

Init ==
    /\ req \in [Requests -> Inputs]
    /\ pc = [r \in Requests |-> "idle"]
    /\ tx = [r \in Requests |-> "none"]
    /\ pending = [r \in Requests |-> {}]
    /\ rows = [r \in Requests |-> {}]
    /\ link = [r \in Requests |-> NoValue]
    /\ result = [r \in Requests |-> NoResult]
    /\ answer = [r \in Requests |-> "none"]

-----------------------------------------------------------------------------
(* Identifiers, and what the database says about them.                     *)

Identifier(r, t) == IF t = "passport" THEN req[r].passport ELSE req[r].emirates

Identifiers(r) == {t \in IdentifierTypes : Identifier(r, t) # NoValue}

\* Requests q and r carry the same identifier of type t in the same tenant.
SameKey(q, r, t) ==
    /\ req[q].tenant = req[r].tenant
    /\ Identifier(q, t) # NoValue
    /\ Identifier(q, t) = Identifier(r, t)

\* q's transaction has inserted its identifier of type t, for good or not yet.
Holds(q, t) == tx[q] \in {"open", "committed"} /\ t \in rows[q]

\* Seeded bugs: no unique index; an index that does not wait for open
\* transactions; a lookup that forgets the tenant.
RivalsWithoutIndex(r, t) == {}

RivalsCommittedOnly(r, t) ==
    {q \in Requests \ {r} : tx[q] = "committed" /\ t \in rows[q] /\ SameKey(q, r, t)}

FindActiveAnyTenant(r, t) ==
    {q \in Requests : /\ tx[q] = "committed" /\ t \in rows[q]
                      /\ Identifier(q, t) = Identifier(r, t)
                      /\ Identifier(r, t) # NoValue}

\* The other transactions whose active identifier row has r's key of type t.
Rivals(r, t) == {q \in Requests \ {r} : Holds(q, t) /\ SameKey(q, r, t)}

\* The persons PersonIdentifierRepository.find_active can return.
FindActive(r, t) ==
    {q \in Requests : tx[q] = "committed" /\ t \in rows[q] /\ SameKey(q, r, t)}

-----------------------------------------------------------------------------
(* Control shared by the handlers.                                         *)

Answered(r) == answer[r] # "none"

\* The handler returns; result is what the client will be told.
Return(r, res) ==
    /\ result' = [result EXCEPT ![r] = res]
    /\ pc' = [pc EXCEPT ![r] = "finish"]

\* The session rolls back and closes; a client still waiting gets `a`.
Rollback(r, a) ==
    /\ tx' = [tx EXCEPT ![r] = IF @ = "open" THEN "aborted" ELSE @]
    /\ rows' = [rows EXCEPT ![r] = IF tx[r] = "open" THEN {} ELSE @]
    /\ link' = [link EXCEPT ![r] = IF tx[r] = "open" THEN NoValue ELSE @]
    /\ pending' = [pending EXCEPT ![r] = {}]
    /\ answer' = [answer EXCEPT ![r] = IF @ = "none" THEN a ELSE @]
    /\ result' = [result EXCEPT ![r] = IF Answered(r) THEN @ ELSE NoResult]
    /\ pc' = [pc EXCEPT ![r] = "done"]
    /\ UNCHANGED req

\* get_session: a session, its transaction, and app.current_tenant set in it.
Begin(r) ==
    /\ pc[r] = "idle"
    /\ tx' = [tx EXCEPT ![r] = "open"]
    /\ pc' = [pc EXCEPT ![r] =
                IF req[r].kind = "create" THEN "matchEmirates" ELSE "extract"]
    /\ UNCHANGED <<req, pending, rows, link, result, answer>>

-----------------------------------------------------------------------------
(* ExtractionService.extract, as called by both document routes.           *)

\* Empty, too large (400, 413) or not a document (415): nothing is written.
ExtractRejects(r) ==
    /\ pc[r] = "extract"
    /\ Return(r, Result("rejected", "none", NoValue))
    /\ UNCHANGED <<req, tx, pending, rows, link, answer>>

\* Seeded bug: the failure is answered and not audited.
ExtractFailsUnaudited(r) ==
    /\ pc[r] = "extract"
    /\ Return(r, Result("unreadable", "none", NoValue))
    /\ UNCHANGED <<req, tx, pending, rows, link, answer>>

\* No readable MRZ, or no OCR backend (422, 503): the failure is audited and
\* the exception becomes a handled response, so the transaction commits.
ExtractFails(r) ==
    /\ pc[r] = "extract"
    /\ pending' = [pending EXCEPT ![r] = @ \cup {"audit_failed"}]
    /\ Return(r, Result("unreadable", "none", NoValue))
    /\ UNCHANGED <<req, tx, rows, link, answer>>

\* parse_td3 raises what no route handles: the transaction is rolled back.
ExtractRaises(r) ==
    /\ pc[r] = "extract"
    /\ Rollback(r, "error")

ExtractSucceeds(r) ==
    /\ pc[r] = "extract"
    /\ pending' = [pending EXCEPT ![r] = @ \cup {"extraction", "audit_extract"}]
    /\ IF req[r].kind = "extract"
         THEN Return(r, Result("ok", "none", NoValue))
         ELSE /\ pc' = [pc EXCEPT ![r] = "matchPassport"]
              /\ UNCHANGED result
    /\ UNCHANGED <<req, tx, rows, link, answer>>

-----------------------------------------------------------------------------
(* DeterministicMatcher.match: one action per SELECT.                      *)

\* Step 1, reached by create only: the Emirates ID decides alone.
MatchEmirates(r) ==
    /\ pc[r] = "matchEmirates"
    /\ IF FindActive(r, "emirates") # {}
         THEN /\ \E p \in FindActive(r, "emirates") :
                    result' = [result EXCEPT ![r] =
                                 Result("none", "auto_matched", p)]
              /\ pc' = [pc EXCEPT ![r] = "apply"]
         ELSE /\ pc' = [pc EXCEPT ![r] = "matchPassport"]
              /\ UNCHANGED result
    /\ UNCHANGED <<req, tx, pending, rows, link, answer>>

MatchPassport(r) ==
    /\ pc[r] = "matchPassport"
    /\ IF FindActive(r, "passport") # {}
         THEN /\ \E p \in FindActive(r, "passport") :
                    result' = [result EXCEPT ![r].person = p]
              /\ pc' = [pc EXCEPT ![r] = "getPerson"]
         ELSE /\ result' = [result EXCEPT ![r].action = "no_match_no_create"]
              /\ pc' = [pc EXCEPT ![r] = "apply"]
    /\ UNCHANGED <<req, tx, pending, rows, link, answer>>

\* The person row is there, and its field is set and equal to the request's.
PersonVisible(p) == tx[p] = "committed" /\ "person" \in rows[p]

\* Seeded bug: a field nobody filled in agrees with everything.
AgreesUnlessContradicted(a, b) == a # NoValue /\ b # NoValue => a = b

Agrees(a, b) == a # NoValue /\ a = b

\* Seeded bug: a partial match asks for a review instead.
GetPersonOrReview(r) ==
    /\ pc[r] = "getPerson"
    /\ result' = [result EXCEPT ![r].action = "manual_review"]
    /\ pc' = [pc EXCEPT ![r] = "apply"]
    /\ UNCHANGED <<req, tx, pending, rows, link, answer>>

\* Steps 2 and 3: nationality and birth date decide between the two verdicts.
GetPerson(r) ==
    LET p == result[r].person
        full == /\ PersonVisible(p)
                /\ Agrees(req[p].nationality, req[r].nationality)
                /\ Agrees(req[p].birthDate, req[r].birthDate)
    IN  /\ pc[r] = "getPerson"
        /\ result' = [result EXCEPT ![r].action =
                        IF full THEN "auto_matched" ELSE "suggested_match"]
        /\ pc' = [pc EXCEPT ![r] = "apply"]
        /\ UNCHANGED <<req, tx, pending, rows, link, answer>>

-----------------------------------------------------------------------------
(* What the services do with the verdict.                                  *)

Matched(r) == result[r].action \in {"auto_matched", "suggested_match"}

\* PersonService.create on a match: PossibleDuplicateError, answered with 409.
RefuseDuplicate(r) ==
    /\ pc[r] = "apply"
    /\ req[r].kind = "create"
    /\ Matched(r)
    /\ Return(r, [result[r] EXCEPT !.status = "duplicate"])
    /\ UNCHANGED <<req, tx, pending, rows, link, answer>>

\* Seeded bug: the person is added to the session and not flushed.
CreatePersonUnflushed(r) ==
    /\ pc[r] = "apply"
    /\ ~Matched(r)
    /\ req[r].kind = "create" \/ req[r].createIfMissing
    /\ pending' = [pending EXCEPT ![r] =
                     @ \cup Identifiers(r) \cup {"person"} \cup
                     IF req[r].kind = "create" THEN {"audit_create"} ELSE {}]
    /\ result' = [result EXCEPT
                    ![r].status = IF req[r].kind = "create" THEN "created" ELSE @,
                    ![r].action = IF req[r].kind = "create" THEN @ ELSE "new_record",
                    ![r].person = r]
    /\ pc' = [pc EXCEPT ![r] =
                 IF req[r].kind = "create" THEN "finish" ELSE "record"]
    /\ UNCHANGED <<req, tx, rows, link, answer>>

\* PersonRepository.create flushes: the person, and everything the session was
\* already holding, is inserted.  The identifiers are added after that flush.
CreatePerson(r) ==
    /\ pc[r] = "apply"
    /\ ~Matched(r)
    /\ req[r].kind = "create" \/ req[r].createIfMissing
    /\ rows' = [rows EXCEPT ![r] = @ \cup pending[r] \cup {"person"}]
    /\ IF req[r].kind = "create"
         THEN /\ pending' = [pending EXCEPT ![r] =
                                Identifiers(r) \cup {"audit_create"}]
              /\ Return(r, Result("created", result[r].action, r))
         ELSE /\ pending' = [pending EXCEPT ![r] = Identifiers(r)]
              /\ result' = [result EXCEPT ![r] = Result("none", "new_record", r)]
              /\ pc' = [pc EXCEPT ![r] = "record"]
    /\ UNCHANGED <<req, tx, link, answer>>

\* resolve goes straight on when it matched or may not create.
KeepVerdict(r) ==
    /\ pc[r] = "apply"
    /\ req[r].kind = "resolve"
    /\ Matched(r) \/ ~req[r].createIfMissing
    /\ pc' = [pc EXCEPT ![r] = "record"]
    /\ UNCHANGED <<req, tx, pending, rows, link, result, answer>>

\* Seeded bug: a decision is recorded for new records only.
RecordDecisionOfNew(r) ==
    /\ pc[r] = "record"
    /\ link' = [link EXCEPT ![r] =
                  IF "extraction" \in rows[r] THEN result[r].person ELSE @]
    /\ pending' = [pending EXCEPT ![r] =
                     @ \cup {"audit_resolve"} \cup
                     IF Matched(r) THEN {} ELSE {"match_decision"}]
    /\ Return(r, [result[r] EXCEPT !.status = "ok"])
    /\ UNCHANGED <<req, tx, rows, answer>>

\* _update_extraction_link, the MatchDecision and the audit row.  The UPDATE
\* runs on the database, so it changes the extraction only if its row has been
\* inserted already: the session does not flush before it (autoflush=False).
RecordDecision(r) ==
    /\ pc[r] = "record"
    /\ link' = [link EXCEPT ![r] =
                  IF "extraction" \in rows[r] THEN result[r].person ELSE @]
    /\ pending' = [pending EXCEPT ![r] =
                     @ \cup {"match_decision", "audit_resolve"}]
    /\ Return(r, [result[r] EXCEPT !.status = "ok"])
    /\ UNCHANGED <<req, tx, rows, answer>>

-----------------------------------------------------------------------------
(* Flush, commit and answer.  PersonService.create flushes before it       *)
(* returns; every other request flushes as part of the commit.             *)

MayFlush(r) == CommitFirst \/ req[r].kind = "create" \/ Answered(r)

\* Seeded bug: the two identifiers are inserted in any order.
NextIdentifierAnyOrder(r, t) == t \in pending[r] \cap IdentifierTypes

\* The unit of work inserts the identifiers in the order they were added.
NextIdentifier(r, t) ==
    /\ t \in pending[r] \cap IdentifierTypes
    /\ t = "emirates" => "passport" \notin pending[r]

InsertIdentifier(r, t) ==
    /\ pc[r] = "finish"
    /\ MayFlush(r)
    /\ NextIdentifier(r, t)
    /\ Rivals(r, t) = {}
    /\ rows' = [rows EXCEPT ![r] = @ \cup {t}]
    /\ pending' = [pending EXCEPT ![r] = @ \ {t}]
    /\ UNCHANGED <<req, pc, tx, link, result, answer>>

\* The index refuses the key of a committed row: IntegrityError, answered 500.
UniqueViolation(r, t) ==
    /\ pc[r] = "finish"
    /\ MayFlush(r)
    /\ NextIdentifier(r, t)
    /\ \E q \in Rivals(r, t) : tx[q] = "committed"
    /\ Rollback(r, "error")

FlushRest(r) ==
    /\ pc[r] = "finish"
    /\ MayFlush(r)
    /\ pending[r] # {}
    /\ pending[r] \cap IdentifierTypes = {}
    /\ rows' = [rows EXCEPT ![r] = @ \cup pending[r]]
    /\ pending' = [pending EXCEPT ![r] = {}]
    /\ UNCHANGED <<req, pc, tx, link, result, answer>>

MayCommit(r) ==
    /\ pc[r] = "finish"
    /\ tx[r] = "open"
    /\ pending[r] = {}
    /\ CommitFirst \/ Answered(r)

Commit(r) ==
    /\ MayCommit(r)
    /\ tx' = [tx EXCEPT ![r] = "committed"]
    /\ pc' = [pc EXCEPT ![r] = IF Answered(r) THEN "done" ELSE @]
    /\ UNCHANGED <<req, pending, rows, link, result, answer>>

\* Seeded bug: the answer does not wait for the commit.
MayRespondEarly(r) == TRUE

MayRespond(r) ==
    IF CommitFirst THEN tx[r] = "committed"
                   ELSE req[r].kind = "create" => pending[r] = {}

Respond(r) ==
    /\ pc[r] = "finish"
    /\ ~Answered(r)
    /\ MayRespond(r)
    /\ answer' = [answer EXCEPT ![r] = "sent"]
    /\ pc' = [pc EXCEPT ![r] = IF tx[r] = "committed" THEN "done" ELSE @]
    /\ UNCHANGED <<req, tx, pending, rows, link, result>>

-----------------------------------------------------------------------------
(* Faults.                                                                 *)

\* A statement fails on the database or on the way to it.
DatabaseFault(r) ==
    /\ r \in Faulty
    /\ pc[r] \notin {"idle", "done"}
    /\ tx[r] = "open"
    /\ Rollback(r, "error")

\* COMMIT took effect, and the connection broke before the worker learnt it.
CommitReplyLost(r) ==
    /\ r \in Faulty
    /\ MayCommit(r)
    /\ tx' = [tx EXCEPT ![r] = "committed"]
    /\ answer' = [answer EXCEPT ![r] = IF @ = "none" THEN "error" ELSE @]
    /\ pc' = [pc EXCEPT ![r] = "done"]
    /\ UNCHANGED <<req, pending, rows, link, result>>

\* The worker dies; PostgreSQL rolls back what it had not committed.
WorkerDies(r) ==
    /\ r \in Faulty
    /\ pc[r] \notin {"idle", "done"}
    /\ Rollback(r, "lost")

-----------------------------------------------------------------------------
Extract(r) == \/ ExtractRejects(r)
              \/ ExtractFails(r)
              \/ ExtractRaises(r)
              \/ ExtractSucceeds(r)

Match(r) == MatchEmirates(r) \/ MatchPassport(r) \/ GetPerson(r)

Apply(r) == \/ RefuseDuplicate(r)
            \/ CreatePerson(r)
            \/ KeepVerdict(r)
            \/ RecordDecision(r)

Finish(r) == \/ \E t \in IdentifierTypes : InsertIdentifier(r, t)
             \/ \E t \in IdentifierTypes : UniqueViolation(r, t)
             \/ FlushRest(r)
             \/ Commit(r)
             \/ Respond(r)

Fault(r) == DatabaseFault(r) \/ CommitReplyLost(r) \/ WorkerDies(r)

\* Every request that was sent has run its course.
Terminated == (\A r \in Requests : pc[r] = "done") /\ UNCHANGED vars

Step(r) == Extract(r) \/ Match(r) \/ Apply(r) \/ Finish(r)

Next == \/ \E r \in Requests : Begin(r) \/ Step(r) \/ Fault(r)
        \/ Terminated

Spec == Init /\ [][Next]_vars

\* The event loop resumes every handler whose await has completed, and
\* PostgreSQL wakes a waiting INSERT when the transaction it waits for ends.
\* Nothing makes a consumer send a request or a fault happen.
FairSpec == Spec /\ \A r \in Requests : WF_vars(Step(r))
-----------------------------------------------------------------------------
(* Properties.                                                             *)

Committed(r) == tx[r] = "committed"

Told(r) == IF answer[r] = "sent" THEN result[r].person ELSE NoValue

\* Two Golden Records of one tenant never hold the same active identifier,
\* however the SELECT of one request and the INSERT of another interleave
\* (DeterministicMatcher.match, PersonIdentifierRepository.create and the
\* index uq_pid_active_identifier).
UniqueActiveIdentifier ==
    \A q, r \in Requests, t \in IdentifierTypes :
        q # r /\ Committed(q) /\ Committed(r) /\ t \in rows[q] \cap rows[r]
            => ~SameKey(q, r, t)

\* Whatever was committed was committed whole: a Golden Record with all its
\* identifiers and the audit row of its creation, an extraction with its audit
\* row, a resolution with its decision and its own audit row; and the
\* extraction that created a Golden Record points at it
\* (IdentityService.resolve, PersonService.create, get_session).
CommittedWhole ==
    \A r \in Requests : Committed(r) =>
        /\ "person" \in rows[r] => Identifiers(r) \subseteq rows[r]
        /\ rows[r] \cap IdentifierTypes # {} => "person" \in rows[r]
        /\ "extraction" \in rows[r] <=> "audit_extract" \in rows[r]
        /\ CASE req[r].kind = "create"  ->
                    "person" \in rows[r] <=> "audit_create" \in rows[r]
             [] req[r].kind = "resolve" ->
                    /\ "extraction" \in rows[r]
                         => {"match_decision", "audit_resolve"} \subseteq rows[r]
                    /\ "person" \in rows[r] => link[r] = r
             [] req[r].kind = "extract" ->
                    rows[r] \subseteq {"extraction", "audit_extract", "audit_failed"}

\* An automatic match rests on the same Emirates ID, or on the same passport
\* number with nationality and birth date both present and equal: two of the
\* three never suffice (DeterministicMatcher.match, steps 1 to 3).
AutoMatchSound ==
    \A r \in Requests : result[r].action = "auto_matched" =>
        LET p == result[r].person
        IN  /\ PersonVisible(p)
            /\ \/ SameKey(p, r, "emirates")
               \/ /\ SameKey(p, r, "passport")
                  /\ req[p].nationality = req[r].nationality
                  /\ req[p].birthDate = req[r].birthDate
                  /\ NoValue \notin {req[r].nationality, req[r].birthDate}

\* Clients that presented one passport to one tenant are told of one person:
\* those that resolved it, and the one whose person was created with it
\* (IdentityService.resolve, PersonService.create).
OnePersonPerPassport ==
    \A q, r \in Requests :
        /\ \A x \in {q, r} : /\ Told(x) # NoValue
                             /\ req[x].kind = "resolve" \/ Told(x) = x
        /\ SameKey(q, r, "passport")
        => Told(q) = Told(r)

\* Request r waits for q's transaction to end before it can insert.
WaitsFor(r, q) ==
    /\ pc[r] = "finish"
    /\ MayFlush(r)
    /\ tx[q] = "open"
    /\ \E t \in IdentifierTypes : NextIdentifier(r, t) /\ q \in Rivals(r, t)

\* No two transactions wait for each other's identifiers: both services add
\* the passport before the Emirates ID (PersonService.create).
NoLockCycle ==
    \A q, r \in Requests : ~(WaitsFor(q, r) /\ WaitsFor(r, q))

\* The audit rows the code writes for the answer r's handler decided on.
Evidence(r) ==
    CASE result[r].status = "unreadable" -> {"audit_failed"}
      [] result[r].status = "created" -> {"audit_create"}
      [] result[r].status = "ok" ->
            {"audit_extract"} \cup
            IF req[r].kind = "resolve" THEN {"audit_resolve"} ELSE {}
      [] OTHER -> {}

AuditedIn(r) == Evidence(r) # {} => Committed(r) /\ Evidence(r) \subseteq rows[r]

\* When a client receives an outcome, its audit row is already durable
\* (README.md rule 5; AuditWriter.write shares the request's transaction).
AnswerIsAudited ==
    \A r \in Requests : answer[r] = "sent" => AuditedIn(r)

\* The weaker reading of "No AI output should ever leave the service without an
\* entry in audit_log" (README.md:105): the row is there in the end.
AuditedInTheEnd ==
    \A r \in Requests : answer[r] = "sent" /\ pc[r] = "done" => AuditedIn(r)

\* resolve "updates the underlying DocumentExtraction.person_uuid" (docstring
\* of identity_service.py): the stored extraction names the resolved person.
ExtractionLinked ==
    \A r \in Requests :
        Committed(r) /\ "match_decision" \in rows[r] /\ answer[r] = "sent"
            => link[r] = result[r].person

\* Every request that reaches a handler comes to an end, with its client
\* answered unless its worker died.
EveryRequestEnds ==
    \A r \in Requests :
        pc[r] # "idle" ~> pc[r] = "done" /\ Answered(r) /\ tx[r] # "open"

-----------------------------------------------------------------------------
(* The promise of GoldenRegistry, seen through committed rows and answers. *)

KeysOf(r) == {<<req[r].tenant, t, Identifier(r, t)>> : t \in Identifiers(r)}

TenantKeys(n) == {<<n, "passport", v>> : v \in Passports}
                 \cup {<<n, "emirates", v>> : v \in EmiratesIds}

Golden == INSTANCE GoldenRegistry WITH
    Keys    <- TenantKeys,
    tenant  <- [r \in Requests |-> req[r].tenant],
    keys    <- [r \in Requests |-> KeysOf(r)],
    persons <- {r \in Requests : PersonVisible(r)},
    told    <- [r \in Requests |-> Told(r)]

\* The concurrent transactions behave as the one-at-a-time registry does.
ImplementsGoldenRegistry == Golden!Spec
=============================================================================
