# Hawiya AI in TLA+

Hawiya AI extracts identity documents, matches them against Golden Records and
keeps those records, for several tenants over one PostgreSQL database. This
directory holds TLA+ models of it, the TLC configurations that check them and
the theorems TLAPS proves about them. `src/` below is the repository root; the
Python package is `src/src/hawiya`.

    tlc -workers 2 -config registry.cfg MCIdentityRegistry.tla
    tlc -workers 2 -config pipeline.cfg MCRequestPipeline.tla
    tlapm IdentityRegistryProofs.tla
    tlapm RequestPipelineProofs.tla
    tlapm IdempotencyProofs.tla
    tlapm RateLimitProofs.tla
    tlapm SequenceLemmas.tla             (which the next three build on)
    tlapm MigrationsProofs.tla
    tlapm DocumentReadingProofs.tla
    tlapm ArabicNamesProofs.tla

## 1. The system

### Parts

| Part | Code | State it keeps | Operations | Modelled in |
|---|---|---|---|---|
| Registry transactions | `api/{documents,identity,persons}.py`, `services/*`, `db/session.py`, `db/repositories/*`, `audit/writer.py` | one SQLAlchemy session and transaction per request; rows of persons, person_identifiers, document_extractions, match_decisions, audit_log | extract, resolve, create; flush, commit, rollback | `IdentityRegistry` |
| Deterministic matcher | `matching/deterministic.py` | none; reads committed rows | match | `IdentityRegistry` |
| Request pipeline, tenancy | `main.py`, `tenancy/{middleware,context}.py`, `services/base.py`, `db/session.py` | context variables of each request; pooled connections and their `app.current_tenant` | authenticate, bind, reset, open and close the session, error envelope | `RequestPipeline` |
| Person read and search | `api/persons.py`, `person_repository.py` | none | get, search | `RequestPipeline`; the ranking is not |
| Health | `api/health.py` | none | health, ready | `RequestPipeline` |
| Idempotency | `tenancy/idempotency.py` | process-local map (tenant, key) → response | get, forward, capture, put, expire | `Idempotency` |
| Rate limiter | `tenancy/rate_limit.py` | process-local token buckets | check, refill, take | `RateLimit` |
| Schema and migrations | `db/migrations`, `models/*` | the catalog, `alembic_version` | upgrade, downgrade | `Migrations`; the unique index in `IdentityRegistry` |
| OCR adapter, classifier | `extractors/{ocr,document_classifier}.py` | a temporary file | classify, read_mrz | `DocumentReading` |
| MRZ and check digits | `extractors/{mrz,validators,types}.py`, `_fields_from_parsed` | none | repair, parse, verify, status | `DocumentReading` |
| Arabic names | `matching/arabic_names.py` | none | normalise, phonetic key | `ArabicNames` |
| Scripts | `src/scripts` | – | – | `build_td3_mrz` in `DocumentReading` |
| PII, logs, metrics, traces | `security/pii.py`, `observability/*` | counters | – | not |
| Demo UI, packaging, deployment | `src/apps`, `src/deploy` | React state of one operator | – | not |

### How they interact

A request passes CORS, tenancy (which authenticates it and sets the context
variables), the rate limiter and the idempotency middleware, in this order, and
reaches a route. FastAPI opens a session for it (`get_session`): a transaction
in which `app.current_tenant` is set. The route calls one service; every row
the service writes, the audit row included, is added to that session. The
session commits when the dependency exits and rolls back if an exception
reaches it. Requests share nothing else than the database, and in one worker
the idempotency store and the buckets.

### What is hard about it

- *Check, then insert.* The matcher's SELECT and the INSERT of the identifier
  are separate statements at READ COMMITTED. Only the unique index stops two
  requests from registering one passport twice, and its INSERT waits for the
  other transaction, which is a lock that could be waited for in a cycle.
- *Flush order.* The session has `autoflush=False`. What a SELECT or an UPDATE
  of the same transaction sees depends on who flushed before it.
- *Exceptions that commit.* A failed OCR raises, yet its audit row must be
  kept: it is, because the route turns the exception into a response.
- *Answer and commit.* FastAPI 0.106 to 0.117 exits the session before it
  sends the answer, 0.118 and later after it. `pyproject.toml` asks for 0.115
  or later and so allows both.
- *Failures.* A statement may fail, the reply to COMMIT may be lost, a worker
  may die.
- *Process-local state.* The idempotency store and the buckets are per worker
  and start empty. Between the look into the store and the write of the
  response lies the whole request.
- *Shared connections.* More requests than connections; the tenant that the
  row-level security reads is a setting of the connection.
- *Characters.* A zone is read by an OCR that takes glyphs for others; the
  repair and the check digits work on columns and residues modulo ten.
- *Containers that start together* all run the migrations.

`PROJECT.json` lists each hazard at its line with the properties that cover it.

### What makes each part correct

- Registry: one active identifier, one person, per tenant; all of a request's
  rows or none; an automatic match only on sufficient evidence; what a client
  is told is durable and audited; every request ends.
- Pipeline: no person of another tenant is shown, no connection works for a
  tenant that does not hold it, nothing happens without a token and a tenant,
  and every request ends and gives its connection back.
- Idempotency: a replay is the response to the same request of the same tenant
  and not too old; what is cached was committed; a retry within the promise
  does not run again.
- Rate limiter: never more than capacity + rate × time admitted in any window;
  nobody is refused for what others did; a client that waits `Retry-After` is
  admitted if nobody else took the token.
- Migrations: the schema is that of its version, whatever failed or died;
  tenants' data is protected at every committed state.
- Documents: no way out of the adapter forgets the scan; a misread glyph under a check digit is
  seen; the repair undoes what it is there for and nothing else; dates and names
  are the holder's.
- Names: every spelling of a name that the rules mean to unify has one key, and
  the stored form is a fixed point.

## 2. Modules

| Module | Role |
|---|---|
| `IdentityRegistry` | the three writing requests over the database |
| `GoldenRegistry` | abstract specification: what a consumer is promised |
| `RequestPipeline` | the layers around every request, its context and its connection |
| `Idempotency` | the store of each worker, and what happens around a look into it |
| `RateLimit` | the token buckets of one worker |
| `Migrations` | runs of alembic over the three revisions |
| `DocumentReading` | one upload, from its bytes to its fields and checks |
| `ArabicNames` | the functions on names, and the ways one name is written |
| `MC*` | inputs and symmetry of the model-checked instances |
| `IdentityRegistryProofs` | types, unique identifiers, order of locks, automatic matches of the registry; on them, whole commits, audited answers, one person per passport, the refinement of `GoldenRegistry` |
| `RequestPipelineProofs` | the inductive invariant of the layers, and a theorem for each of its invariants |
| `IdempotencyProofs` | where entries come from and what becomes of them |
| `RateLimitProofs` | the tokens left, and what was forwarded and refused |
| `SequenceLemmas` | induction, what `FlattenSeq` computes, sequences by their positions, maxima |
| `MigrationsProofs` | the revisions and every meeting of runs that apply them |
| `DocumentReadingProofs` | the zone from the print to the answer: check digits, repair, names, dates; the temporary file |
| `ArabicNamesProofs` | names letter by letter: the matching form, the phonetic key, the display form |

The modules meet at their edges. `RequestPipeline` takes any decision of the
limiter and any entry of its tenant in the store as possible, which `RateLimit`
and `Idempotency` narrow down, and its `Create` and `Decline` stand for the
transactions of `IdentityRegistry` with any outcome: which person a resolution
shows, and which candidate a 409 names, is decided there. The `ExtractRejects`,
`ExtractFails`, `ExtractRaises` and `ExtractSucceeds` of `IdentityRegistry` are
the outcomes of `DocumentReading`. `Idempotency` shares `CommitFirst` with
`IdentityRegistry`. `Migrations` ends with the schema that `IdentityRegistry`
starts on.

### IdentityRegistry

One request is one process; `pc` is the point its handler has reached, and one
action runs from one `await` on the database to the next.

| State | In the code |
|---|---|
| `req` | the request: its kind, its tenant, and what the image or the body says |
| `tx` | its transaction; open from `get_session` to COMMIT or ROLLBACK |
| `pending` | rows in `session.new` |
| `rows` | rows its transaction has inserted; visible to others once committed |
| `link` | `document_extractions.person_uuid` of the row it inserted |
| `result` | the verdict, then the return value of the handler |
| `answer` | what the client got: the result (`sent`), a 500 (`error`), nothing (`lost`) |

| Action | In the code |
|---|---|
| `Begin` | `get_session`, `set_session_tenant` |
| `ExtractRejects`, `ExtractFails`, `ExtractRaises`, `ExtractSucceeds` | the outcomes of `ExtractionService.extract` and of the routes' checks before it |
| `MatchEmirates`, `MatchPassport`, `GetPerson` | the SELECTs of `DeterministicMatcher.match` |
| `RefuseDuplicate` | `PossibleDuplicateError` and its 409 |
| `CreatePerson` | `_create_person_from_extraction`, or `PersonService.create` after its guard; the flush in `PersonRepository.create` is part of it |
| `KeepVerdict`, `RecordDecision` | steps 4 to 7 of `IdentityService.resolve` |
| `InsertIdentifier`, `UniqueViolation`, `FlushRest` | the flush, row by row where rows can collide |
| `Commit`, `Respond` | exit of the session and the answer, in the order `CommitFirst` names |
| `DatabaseFault`, `CommitReplyLost`, `WorkerDies` | the faults, for requests in `Faulty` |

A row is named by its kind and the request that inserted it, so a person's UUID
is the request that created the person, and its contents are that request's
input. PostgreSQL enters as three rules: a SELECT sees what is committed when it
runs; a commit shows all rows at once; an INSERT of an active identifier waits
(is not enabled) while an open transaction holds the key, and fails once a
committed one does. A rolled-back transaction releases its keys. Deadlock
detection of PostgreSQL is not modelled: `NoLockCycle` says that it never has
anything to detect.

Left out: names and name variants, confidences, the texts of answers, metrics
and logs. No operation modelled here reads them.

### GoldenRegistry

`Register` adds a person that shares no identifier with an existing one, `Tell`
tells a client of a person of its own tenant that it created or that carries an
identifier it named; persons are never removed and answers never revised. The
refinement mapping of `IdentityRegistry` reads `persons` off the committed rows
and `told` off the answers sent. It is checked with `CommitFirst = TRUE`: with
the answer sent first it does not hold, as `answer_audited` shows for the audit.

### RequestPipeline

`pc` is the layer a request is in. `context` holds the two `ContextVar`s of
each task, `conn` the connection its session has checked out, `setting` the
`app.current_tenant` of each connection, `answer` the status, `X-Request-ID`,
`trace_id` and persons that the client got.

| Action | In the code |
|---|---|
| `Receive`: `Preflight`, `Exempt`, `Reject`, `Bind` | CORS, then the four ways through `TenancyMiddleware.dispatch` |
| `Limiter`, `IdempotencyLayer` | through, or the answer the layer makes; a replayed response shows what it showed the first time |
| `OpenSession` | `get_session`, `set_session_tenant`; the probe's `connect()` |
| `Unrouted` | what FastAPI answers before any dependency runs: the 404 and 405 of the router, the 422 of a body it cannot read |
| `Handler`: `Create`, `Decline`, `Search`, `Get`, `Open`, `Unprocessable` | the routes: a person inserted; none inserted, with a person found, with nobody, or refused (400, 409, 413, 415, 422, 503); a search, which returns any of the persons it may see; a person or a 404; the open routes; FastAPI's 422 after the dependencies, for a path or a body that does not fit |
| `CloseSession`, `Unwind` | the exit of the session, the "finally" of the middleware; in either order, as FastAPI's versions differ |
| `Crash`, `CommitFails` | a fault of the limiter, the pool, the database or the COMMIT: rollback, every "finally", and the handler of unhandled exceptions outside all layers, unless the answer was sent already |
| `Degrade` | the probe catches the fault and answers 200 |

The errors differ in who makes them, and so in what they carry. The routes and
`TenancyMiddleware` use the envelope of `API_SPEC.md` with the request's id as
`trace_id`; the limiter and the idempotency layer use it with another id or
none; the handler of unhandled exceptions with none; FastAPI's own 404, 405 and
422 have a `detail` and neither envelope nor `trace_id`, since `main.py`
registers a handler for `Exception` only. `RouteErrorsNameTheRequest` is what
holds; that `API_SPEC.md` promises more is noted in section 3.

### Idempotency

A response is named by the request whose handler made it. `Arrive` is
`__call__` up to the collected body; `Forward` and `Reply` are the look into
the store with its two outcomes; `Handle`, `Commit`, `CommitFails` are the
application; `Respond` is the capturing send, which stores a 2xx before passing
it on. `Restart` loses the store and the requests in flight of a worker. The
clock is in ticks. `before`, `ran`, `lookedAt`, `storedAt` and `forgotten` are
history.

### RateLimit

Time is in whole seconds and tokens in sixtieths, in which the code's division
is exact. `Dispatch` is one request: `PassThrough`, or `Check` with its three
outcomes `Forwarded`, `Limited`, and `Raised`, what a limit of zero does.
`admitted`, `refused` and `promise` are history.

### Migrations

`Upgrade1` to `Downgrade3` are the revisions, statement by statement; a
statement creates or drops an object (table, type, index, policy, the two flags
of row-level security, extension). A run has its own view until it commits.
PostgreSQL and alembic enter as: a statement waits for an open run that touched
what it needs (`Holders`), fails on what is there, missing or depended upon
(`Fails`), and a failure or a circle of waiting rolls the run back (`Fail`);
`alembic_version` is updated where it still has the old value.

### DocumentReading

The zone is kept character by character, because its check digits are about
characters; everything else of the image is a format. `ReadInit` prints a valid
zone as `build_td3_mrz` does; `Misread` and `Clip` are the OCR's mistakes; the
other actions are the stages of `_read_sync`, each with every way out of it.
`ReadZone` computes repair, checks and parsing at once, as the code does without
an `await`. A killed process leaves the temporary file (`temp = "present"` at
the end), and so does an `OSError` of `os.unlink`, which the code suppresses:
`Unlink` may leave it "kept", whatever else the outcome is. `NoScanLeft`
excepts these two, and says that nothing else does.

### ArabicNames

A name is a sequence of characters, each named: the 52 Latin letters, the Arabic
ones the tables tell apart, "peh" for any other of U+0600 to U+06FF, the space
(for every white space), the hyphen. Any other string is a character that no
table knows, a digit, an apostrophe or a letter with an accent, and belongs to
neither script. Not among them are the few letters that `upper()` turns into
several, or into one of the tables' (the German sharp s, the ligatures, the
dotless i).

The first half of the module is the functions of `arabic_names.py`; the second
writes a name again and again. These variations are the inputs that
`_add_name_variant`, `create` and the search are given, not steps of the code:

- in Arabic script: a mark added (`Vocalise`), one form of a letter for another
  (`Vary`), a space added at an end or beside another one (`Widen`);
- in Latin script: the case of a letter (`ChangeCase`), its doubling (`Double`),
  one vowel for another (`Revowel`), the article put in front or the prefix left
  out (`AddArticle`, `OmitArticle`), and spaces as above (`Widen`).

Nothing else is a variation: "Abdulrahman" and "Abdul Rahman" have different
keys, since only the second has a prefix, and so have transliterations that
differ in a consonant. And of the variations in Latin script some are excepted,
because to `strip_prefixes` they make another name:

- another vowel must not make a prefix of a word ("Bon Ali", written "Bin Ali",
  loses its first word): `SamePrefix`. The same guard stands on doubling, where
  it excepts nothing that TLC finds: no prefix has a double letter;
- behind a prefix that is left out stands no second one, which would go, too;
- a space behind a name that is nothing but a prefix makes it one ("Al", "Al "):
  `NoNewPrefix`;
- a name with a space in front is written (`Widen` does so, at position 0), but
  `SpellingsMeet` says nothing of its key, and no article is put before it:
  the code does not find a prefix behind a space. Section 3 says what comes of
  it.

## 3. Runs

| Run | Instance | Shows |
|---|---|---|
| `registry` | 3 requests from 8 inputs, each may fail, answer after commit; 781,073 states up to symmetry | the safety invariants, and that the transactions implement `GoldenRegistry` |
| `registry_late` | 3 requests from 3 inputs, one may fail, answer before commit, fairness; 93,252 states | uniqueness and atomicity do not depend on that order, and every request ends |
| `pipeline` | 3 requests from 10 inputs over 1 connection, one may fail, fairness; 766,437 states | tenants stay apart through context, pool and store; nothing without authority; which errors carry the request's id; every request is answered and gives its connection back |
| `idempotency` | 3 requests from 3 inputs, 2 workers, one restart, TTL 1 of 2 ticks, one request may fail; 5.1 million states up to symmetry | what is replayed, cached and run again |
| `rate_limit` | 2 tenants, 3 paths, limits 0, 1, 2, 7, 65 seconds in steps of 25 and 40 | the admission bound, refusals that were earned, a `Retry-After` that is neither too short nor too long |
| `migrations` | 3 runs to any of 4 versions, each may be killed; 23,000 states | schema and version agree, the data is protected, a run alone succeeds |
| `documents` | 4 holders, 17 confusions, up to 2 misread glyphs; 9 names respelt twice; 566,000 states | the check digits, the repair, dates and names, the temporary file, the keys of names |
| `answer_audited` | 2 registry requests on one passport, no faults, answer before commit | a client holds an answer whose audit row was rolled back |
| `extraction_linked` | the same, answer after commit | a resolution that finds its person leaves its extraction unlinked |
| `idempotency_once` | a POST and its retry on one worker, no faults | two responses to one key |
| `mrz_raises` | the instance of `documents` | a misread glyph raises out of `parse_td3` |
| `no_future_birth` | the instance of `documents` | a holder of 99 is read as born next year |

The last five are expected to fail; each disagrees with a sentence of the
documentation or of a docstring, quoted under `findings` in `PROJECT.json`:

- The README promises an audit entry for every output that leaves the service;
  with a current FastAPI the answer leaves before the entry is committed.
- `IdentityService` says it updates the extraction's `person_uuid`; its UPDATE
  runs before the extraction is flushed and changes nothing, unless a person
  was created in between.
- `idempotency.py` promises the same response to the same key; a retry that
  overlaps the first request is executed as well.
- `parse_td3` promises that a failed checksum does not raise; a check digit
  that is a letter, or a `>`, does, outside every `except` of the request.
- `_parse_dob` promises no future births, and a comment of its test that 27 is
  1927 in 2026; the slack of one year makes it 2027. `DatesAreRight` promises
  the right century up to 98 years.

Met while modelling, and without a run of their own:

- `src/API_SPEC.md:82,101` promises one envelope and a `trace_id` equal to
  `X-Request-ID` for all errors. FastAPI's own 404, 405 and 422 have neither;
  the 429 has the id only if the client gave one, the 422 of the idempotency
  layer has the key instead, and the 500 an empty string and no `X-Request-ID`.
  `RouteErrorsNameTheRequest` says for which errors the promise is kept.
- `_strip_ocr_junk` says that anything behind two spaces is noise
  (`extraction_service.py:171-172`); it strips the name first, and so keeps
  noise that no given name precedes: behind a surname alone, one filler read as
  `K` is returned as the given name. `NamesReadWhole` is therefore about holders
  with a given name.
- `strip_prefixes` says that it removes leading articles (`arabic_names.py:92`);
  its pattern is anchored and its `strip()` comes later, so it finds none behind
  a leading space, and `_add_name_variant` stores the stripped name with that
  key (`person_repository.py:87-90`): " Bint-Noora" is stored as "Bint-Noora"
  under BNTNR, and looked for under NR. `SpellingsMeet` excepts names that begin
  with a space, and only those.
- `kubernetes.md:299-300` wants every decision audited and every match recorded
  (`src/docs/deployment`); the duplicate guard of `PersonService.create` raises
  before it writes either, and its 409 carries the matcher's candidate.
  `AnswerIsAudited` and `AuditedInTheEnd` ask for the rows that the handler of
  an answer writes, and so for none behind a 409.
- `src/API_SPEC.md:127` has a 409 `IDEMPOTENCY_CONFLICT`; the code answers 422
  `IDEMPOTENCY_KEY_CONFLICT`. `src/API_SPEC.md:124` counts the 24 hours from the
  first observation of a key; the code counts them from the storing of the
  response, which is what `ReplayIsTheAnswer` and `RetryRunsOnce` speak of.
  `idempotency.py:21` says the layer is outside the tenancy middleware; it is
  inside (`main.py:57-59`), as `RequestPipeline` has it.
- `/v1/ready` declares a 503 and answers 200 `degraded`.
- A filler read as `K` passes every check digit, since both weigh 0 modulo ten:
  the document number may end in a `K` at full confidence. `MisreadIsSeen`
  excepts such pairs, and only those.
- `strip_prefixes` takes off what is spelt like a prefix, whatever it is: the
  keys of "Bon Ali" and "Bin Ali" differ. The variations of `ArabicNames` except
  such a pair.

`CachedIsCommitted` is checked with the commit before the answer
(`CommitFirst`). Without it a response is always cached before its commit, since
the store is written as the response leaves: that half of the hazard is a
consequence of the order of the answer, which `answer_audited` shows to fail,
and not a property of the store.

**Bounds.** Three requests are the fewest in which a third meets the outcome of
a race of two (it finds the winner, or the loser's key released; the entry, or
an expired one; the connection that comes back). One passport and one Emirates
ID make every request a rival of every other; two tenants with the same
passport, or the same idempotency key, tell a lookup by tenant from one
without. One connection makes every session wait for every other. `MaxTime`
passes the TTL with a tick to spare, so that an entry is met before, at and
after its end; 65 seconds refill a bucket of any limit once, and 25 and 40 make
`Retry-After` a fraction for a limit of 7. The three paths are of one class, or
none: with both classes the histories of four buckets are too many for that
limit, and it is `RefusalsAreEarned` that shows, for any paths, that one class
does not use up the other's tokens. `Never` is a time no behaviour reaches.
Three runs of alembic are two that meet and one that comes after. Two misread
glyphs, at any of 88 columns, can hide each other from a check digit; the four
holders have a leap day, full and empty fields, a year of birth at each end of
the window, one beyond it, and one no given name; `CurrentYear` is 2026. Two
changes of
a name can undo, follow or sit upon each other, and the nine names have
letters of every family and of none, an article once and twice, prefixes of one
word and of two with either separator, an apostrophe, and a first word that is a
vowel away from a prefix. The ten inputs of `pipeline` have each route, both
tenants, a keyed request of each, and each way of not being authenticated. The registry, the pipeline and
the migrations need no bound beyond their sets: every request or run ends.

**Symmetry.** Requests, workers, tenants and runs are permuted only where no
`Init`, `Next` or property names one; requests in `Faulty` are not permuted with
others. `registry_late` and `pipeline`, which check liveness, use none.

**Fairness.** `FairSpec` of `IdentityRegistry` and of `RequestPipeline` assume
weak fairness of each request's own steps: the event loop resumes a handler
whose `await` has completed, PostgreSQL wakes a waiting INSERT when the
transaction it waits for ends, and the pool hands a returned connection to a
request that waits for one (weak fairness suffices for it: requests are
finite, so a connection stays free once the last holder has returned it). Not
assumed: that a consumer sends a request, that a fault happens, or that OCR
succeeds. The other modules state safety only.

**Deadlock** is checked in every run; `Terminating` (`Terminated` in the
registry) is the only way to stop, and `MCDocuments` stops when its document is
read or its name respelt.

Every property of a passing run has a seeded bug in its module (the definitions
marked "Seeded bug" or "mutant of") that breaks it: a unique index that does not
wait, a context shared between tasks, a store that forgets the tenant, an entry
that expires a tick early, a bucket refilled since its birth, seconds rounded
down, tables dropped in the wrong order, a slice that ends a column early, an
article stripped from the stored name, and so on.

## 4. Theorems

TLC checks the instances of section 3; the theorems hold for all values of the
constants, under each module's named assumptions and nothing else, but for three
that have `CommitFirst` as a hypothesis. The inductive invariants were checked
by TLC, on the instance of the module's run, before they were proved.

| Module | Theorem | States |
|---|---|---|
| `IdentityRegistryProofs` | `TypeCorrectness` | `Spec => []TypeOK` |
| | `Uniqueness` | `Spec => []UniqueActiveIdentifier` |
| | `LockOrder` | `Spec => []NoLockCycle` |
| | `MatchSoundness` | `Spec => []AutoMatchSound` |
| | `WholeCommits` | `Spec => []CommittedWhole` |
| | `AuditBeforeAnswer` | `CommitFirst`: `Spec => []AnswerIsAudited` |
| | `OnePerson` | `CommitFirst`: `Spec => []OnePersonPerPassport` |
| | `Refinement` | `CommitFirst`: `Spec => ImplementsGoldenRegistry` |
| `RequestPipelineProofs` | `TypeCorrect` | `Spec => []TypeOK` |
| | `TenantIsolation` | `Spec => []OwnTenantOnly` |
| | `SettingScoped` | `Spec => []SettingFollowsHolder` |
| | `Authority` | `Spec => []NothingWithoutAuthority` |
| | `Correlation` | `Spec => []RouteErrorsNameTheRequest` |
| `IdempotencyProofs` | `TypeCorrect` | `Spec => []TypeOK` |
| | `ReplayIsAuthentic` | `Spec => []ReplayIsTheAnswer` |
| | `ConflictIsReal` | `Spec => []ConflictHasACause` |
| | `CacheIsDurable` | `Spec => []CachedIsCommitted` |
| | `RetryIsAbsorbed` | `Spec => []RetryRunsOnce` |
| `RateLimitProofs` | `TypeCorrect` | `Spec => []TypeOK` |
| | `AdmissionIsBounded` | `Spec => []AdmissionBound` |
| | `RefusalsAreEarned` | `Spec => []RefusalIsEarned` |
| | `RetryAfterIsExact` | `Spec => []RetryAfterIsRight` |
| `MigrationsProofs` | `TypeCorrect` | `Spec => []TypeOK` |
| | `SchemaIsItsVersion` | `Spec => []SchemaMatchesVersion` |
| | `CommittedTablesAreProtected` | `Spec => []TenantDataProtected` |
| | `ARunAloneSucceeds` | `Spec => []AloneSucceeds` |
| `DocumentReadingProofs` | `ReadingTyped` | `ReadSpec => []ReadTypeOK` |
| | `ScanRemoved` | `ReadSpec => []NoScanLeft` |
| | `CenturiesAreRight` | `ReadSpec => []DatesAreRight` |
| | `MisreadsShow` | `ReadSpec => []MisreadIsSeen` |
| | `RepairsAreUndone` | `ReadSpec => []RepairUndoes` |
| | `NamesSurviveFillers` | `ReadSpec => []NamesReadWhole` |
| `ArabicNamesProofs` | `SpellingsAgree` | `NameSpec => []SpellingsMeet` |
| | `CanonicalForms` | `NameSpec => []CanonicalIsStable` |

`CommitFirst` is the order of FastAPI 0.106 to 0.117, one of the two that
`pyproject.toml` allows. It is a hypothesis because the statements are false
without it: `answer_audited` is the counterexample.

### The registry

The assumptions are `InputAssumption` (`NoValue` is not a value; only a JSON
body carries an Emirates ID) and `ModeAssumption`.

Uniqueness of the committed identifiers is not inductive: two open transactions
holding one key could both commit. The invariant `IInv` therefore says it of
every row that may still become visible (`HeldOnce`). An insert keeps it because
it happens only without rivals; a commit or rollback because rows then only
become visible that were counted already, or go. For the other steps it
must be known that they insert no identifier, and that is `IdentifiersLast`:
identifiers enter the session with the person, and the table after the handler
returned. `PassportFirst` says that a transaction that inserted its Emirates ID
has no passport pending. With it a cycle is impossible: two transactions that
wait for each other would have to hold different identifiers, so one holds the
Emirates ID and waits with its passport.

`MatchSoundness` needs two facts about time. What the matcher's earlier SELECT
found must hold at the later one (`Candidate`: between the two there is a person
with the request's passport and no verdict yet), and a person once visible must
stay so (`VisibleStays`, which needs that only a request without a transaction
can begin one, `FreshWhenIdle`). That an identifier's person is visible with it
is `PersonFirst`.

`CommittedWhole` says nothing of a transaction that is still open, which is
where it is decided. The invariant `DInv` speaks of what a handler has added to
its session, inserted or not (`Work`), and says what it is at each of its points
(`Written`), which kind of request can be there with which transaction
(`Lifecycle`), and that a request is not its own match before it has created a
person (`NotItself`). When a handler has returned, its work is that of one of
its outcomes (`RowsOfResult`); a commit needs an empty session and so leaves all
of it in the tables. An answer that is sent keeps that result, and with
`CommitFirst` its transaction is committed by then: that is `AnswerIsAudited`.

The refinement adds `Named`: the person a request is about to tell of is its own
or was found by an identifier of the request, and stays found (`FoundStays`).
The steps map as follows. `Commit` of a transaction with a person is `Register`:
nobody registered has its identifiers, since `HeldOnce` counted its rows before
they were visible. `Respond` with a person is `Tell`, by `Named`. A `Commit`
whose reply is lost registers as well. All other steps stutter, because the
mapping reads only committed rows and sent answers. `OnePerson` is the same
argument for two requests: both named the holder of one key.

### The pipeline

The assumptions are its own `InputAssumption` (an absent value, a malformed
tenant and a key are not tenants, connections or ids).

`TenantIsolation` needs that what a query filters by is still what the headers
said, although both filters were written layers earlier. `Bound` says it of the
context, from the middleware to the handler. `Held` says it of the connection:
one holder, with its tenant's setting or none, and no setting while it is free,
which every way out (exit, rollback, failed commit) must restore. `Named` says
that a person's request has been received, so the tenant of a row that is
committed, or of a person an answer shows, does not change any more; with it a
replayed answer is as good as a computed one (`ReplayProper`, `HandlerProper`).
That each task has a context of its own is how `contextvars` works and is part
of the model (`Task`), not a conclusion.

### Idempotency

The properties speak of requests and answers, and the store lies between them.
`EntryOf` says of every entry which request left it: one of this worker and
slot, with this body, at a time its end tells. `Kept` is the converse, and what
`RetryRunsOnce` rests on: a response that was put is in its slot, or a later one
is, or its time is over, or the worker has restarted. `Stored` says what a
response that was put has gone through (a 2xx, and the commit if that comes
first), `Place` what a request cannot have done where it stands, and `Earlier`
that a request arrives after the ones before it ended. An answer keeps what was
true when the key was looked up, in terms of the clock of that moment
(`ReplayServed`, `ConflictServed`), because the entry itself may be gone.

### The rate limiter

`AdmissionBound` has a history on one side and a clock on the other; what joins
them is the bucket. For every moment at which a request was forwarded, `Bounded`
says that the requests since, and the tokens left, are no more than a bucketful
and the refill; `Spent` says that they are no fewer, unless the bucket was full
in between. The first is the bound (the tokens are not negative), the second the
reason for a refusal: with less than a token left and "limit" requests back more
than a minute ago, there would be tokens. `Earned` is `RefusalIsEarned` without
counting, with the number of requests as a witness; `Refusal` ties a promise to
the bucket as it is until the next request. All of it is said of the bucket the
next check will find, `BucketFor`, so that a new bucket is no special case. The
proofs are of integers: the model counts sixtieths of a token.

### The migrations

The assumption is `RunAssumption` (targets are revisions, the killable runs are
runs); the number of runs and the revisions they are asked for are arbitrary.

The scripts are concrete, but what runs of them meet is not, so the argument
goes from the statements to the plans to the runs. The first half of the module
is about one script. It says what is in the schema at each revision
(`AtVersion`), which objects use which, and that each revision creates an
object after what it uses (`Ups`) and drops it after what uses it (`Downs`);
that lists of names have no repetition, and what `FlattenSeq` makes of the
revisions between two versions, is part of it. `PlanOf` then says of a run in
the middle of its script what it has created or dropped, what it sees, and what
is left: carried out on the schema of the version it began at, the rest arrives
at the schema of its target.

A run is on its plan with respect to what is committed *now*, and that is the
point of the invariant. Others may commit between two of its statements. While
it has not written `alembic_version` they may move the schema under it; its
plan is then still that of the version it read (`seen`), and it stops at the
latest at its version statement, which finds another value. Once it has the
row, nobody else commits a version (`OneVersion`), and its plan is that of the
committed one; `Base` is the choice between the two. So a run that reaches its
end commits the schema of the version it sets, `SchemaAtVersion`.
`ARunAloneSucceeds` adds `Unmet`: a run that met no other is the only one, and
has started from the committed version, so that the next statement of its plan
has what it needs and nothing in its way.

### Reading documents

The assumptions are about what passports are printed for. `HolderAssumption`:
a number and optional data of characters of the zone that fit their fields and
do not end in a filler, which is what pads them; a nationality of three columns,
letters and fillers. `WordAssumption`: names are words without fillers that fit
their field together. `build_td3_mrz` raises for what does not fit (`_pad`) or
is no character of the zone (`char_value`). `DateAssumption`: dates are days of
the calendar. Any glyph may be mistaken for any other, any number of times.

The invariant is `RInv` and `Faithful`. `RInv` has the shape of the reading
(`Lines`: both lines have 43 or 44 columns, which `Misread` and `Clip` keep and
`Repair` needs) and the protocol of the thread (`Progress`: where the file can
exist, what the outcome can be when the `finally` is reached, and that the
fields are those of the text read). `Faithful` says that a column that is not in
`misread` has its printed character, so that what a property says of misread
columns is about characters.

What was printed is computed first: `PrintedLines` has the columns of a line that
is the concatenation of six fields, of any contents. From there:

- *Dates.* `SixDigits` and `DateBack` take printed digits back through
  `CharValue`; `BirthYear` and `ExpiryYear` are the windows, by cases of the
  century.
- *Check digits.* The weighted sum of a field is a fold over its columns; by
  induction on the set of columns, two fields that differ in one column have
  sums that differ by what it counts (`SumsDiffer`). The weights 7, 3, 1 are
  prime to ten, so different residues stay different (`OneOff`). The composite
  field is a concatenation of the four fields and their digits; each of its
  columns is one of the line's.
- *Repair.* Its tables leave alone what is printed in the columns they apply to,
  and so change a column only if it was misread.
- *Dates and repair.* The dates are not among what `RepairUndoes` gives back:
  whether a printed year is read into its century is `DatesAreRight`.
- *Names.* Words have no fillers, so in a printed name every filler but the two
  between surname and given names stands alone, and the first two together
  after these are behind the name; what follows them does not matter. Without
  given names there are no two such fillers behind the first, which is why
  `NamesReadWhole` is about a holder who has some.

### Names

The assumption is `NamesAssumption`: a name is a sequence of strings, any
characters in any order (see section 2 for what a string stands for), and any
number of changes of the kinds listed there may follow.

The code makes a form of a name in passes over all of it; a change is at one
letter. What has to be known is that a pass over a name one letter longer gives
the old result, or the old result and one letter more, depending on that letter
and on what stands last. For `Keep` this is `KeptMore`, by induction on the
length; composition and the folding of letter forms are moved past the stripping
(`StripNFC`, `MatchingIs`), where each works on a letter alone. Collapsing
spaces looks ahead, to whether a letter follows; `CollapseIs` takes it apart
into `Single`, which only looks back, and the removal of one last space. Then
`SoundAfter` holds: names that have been heard alike up to some point, and have
the same letters after it, have the same matching form. So a mark, a variant or
a space is compared where it stands. The Latin key goes the same way: `Spoken`
is the codes without repetitions, `SpokenAfter` extends a likeness to the right,
and `LatinKey` says that the key is what is spoken behind the prefix, since
`strip()` only takes what has no code. Where a prefix ends depends on the spaces
that follow it and, in two words, on those between them; but the word itself is
one only (`OnePrefix`), and what the separators behind it add to the key is
nothing, so that the key is what is spoken behind the word (`KeyBehind`). With
it, a doubled letter, a vowel and a capital leave what is spoken, an article put
in front is the prefix found, and a space more, between the words or behind
them, moves the end of the prefix and nothing else (`WidenedKey`).

The invariant `Recognisable` adds to `SpellingsMeet` that the script stays what
it was (without it the key could be computed by the other table) and that the
spelling is a finite sequence. `CanonicalForms` needs no history: a display form
has no marks and only plain letters, and `CollapseTwice` says that its spaces
are final.

### Only model-checked

- `EveryRequestEnds` of the registry and of the pipeline: liveness under
  fairness is out of the prover's reach.
- The runs with a violation: a counterexample needs no proof.

## 5. Not modelled

- The texts, confidences, metrics, logs and traces: nothing modelled reads them.
- The similarity of pg_trgm, and so the ranking of a search: a float that the
  database computes.
- The image processing: PassportEye, Tesseract, Pillow and PyMuPDF appear as
  what they return or raise.
- `security/pii.py`: pure functions that no code calls.
- The demo UI and the operational scripts, apart from `build_td3_mrz`: clients
  of the service, for demonstrations and by hand. The columns of the tables and
  the Helm, Compose and air-gap files: configuration.
- Memory: entries of the idempotency store and buckets of the limiter are
  removed only when asked for again, or never; the code bounds neither.
