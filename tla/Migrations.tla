----------------------------- MODULE Migrations -----------------------------
(***************************************************************************)
(* The three Alembic revisions (src/src/hawiya/db/migrations/versions) and *)
(* the runs of "alembic upgrade" and "alembic downgrade" that apply them.  *)
(* Every container runs "alembic upgrade head" as it starts                *)
(* (src/deploy/docker-compose.yml), so runs may meet.                      *)
(*                                                                         *)
(* env.py puts a whole run in one transaction, and PostgreSQL's DDL is     *)
(* transactional: a run works on its own view of the schema, which becomes *)
(* the schema when it commits.  A statement waits while another open run   *)
(* has touched what it needs, and fails on what is there already, on what  *)
(* is missing, and on dropping what others depend on.                      *)
(*                                                                         *)
(* Columns and their types are left out, but for the enum types, which are *)
(* objects of the schema with a life of their own.                         *)
(***************************************************************************)
EXTENDS Naturals, Sequences, FiniteSets, SequencesExt

CONSTANTS
    Runs,      \* runs of the alembic command
    Targets,   \* the revisions they are asked for
    Killable   \* the runs whose process or connection may die

ASSUME RunAssumption == Targets \subseteq 0..3 /\ Killable \subseteq Runs

-----------------------------------------------------------------------------
(* The schema's objects.                                                   *)

Obj(kind, name, on) == [kind |-> kind, name |-> name, on |-> on]
Alone(kind, name) == Obj(kind, name, "")

\* The enum types of a table's columns, in the order they are created.
TypesOf(t) ==
    CASE t = "tenants" -> <<"tenant_status">>
      [] t = "document_extractions" -> <<"document_type", "checksum_status", "processing_path">>
      [] t = "persons" -> <<"sex", "person_status">>
      [] t = "person_identifiers" -> <<"identifier_type", "identifier_status">>
      [] t = "person_name_variants" -> <<"name_script", "name_variant_type">>
      [] t = "match_decisions" -> <<"match_type", "match_decision_value", "review_outcome">>
      [] OTHER -> << >>

\* The table its foreign key references.
RefsOf(t) ==
    CASE t \in {"audit_log", "document_extractions", "persons"} -> {"tenants"}
      [] t \in {"person_identifiers", "person_name_variants"} -> {"persons"}
      [] OTHER -> {}

IndexesOf(t) ==
    CASE t = "audit_log" -> <<"ix_audit_log_tenant_created", "ix_audit_log_tenant_request">>
      [] t = "document_extractions" ->
            <<"ix_doc_extr_tenant_created", "ix_doc_extr_tenant_input_hash",
              "ix_doc_extr_tenant_consumer_req">>
      [] t = "persons" ->
            <<"ix_persons_tenant_status_dob", "ix_persons_tenant_nationality",
              "ix_persons_tenant_name_ar_trgm">>
      [] t = "person_identifiers" -> <<"ix_pid_tenant_person", "uq_pid_active_identifier">>
      [] t = "person_name_variants" ->
            <<"ix_pnv_tenant_person", "ix_pnv_tenant_phonetic", "ix_pnv_tenant_name_trgm">>
      [] t = "match_decisions" -> <<"ix_match_decisions_tenant_created">>
      [] OTHER -> << >>

\* The GIN indexes need operator classes of two extensions.
GinIndexes == {"ix_persons_tenant_name_ar_trgm", "ix_pnv_tenant_name_trgm"}
Extensions == <<"pg_trgm", "unaccent", "btree_gin">>

\* What an object cannot exist without.
Uses(o) ==
    (IF o.on # "" THEN {Alone("table", o.on)} ELSE {})
    \cup (IF o.kind = "table"
          THEN {Alone("type", e) : e \in ToSet(TypesOf(o.name))}
               \cup {Alone("table", t) : t \in RefsOf(o.name)} ELSE {})
    \cup (IF o.name \in GinIndexes
          THEN {Alone("extension", "pg_trgm"), Alone("extension", "btree_gin")} ELSE {})

-----------------------------------------------------------------------------
(* The statements of the revisions.                                        *)

Create(o) == [do |-> "create", what |-> o]
Drop(o) == [do |-> "drop", what |-> o]
IfPresent(o) == [do |-> "dropIfExists", what |-> o]
Each(Op(_), names) == [i \in DOMAIN names |-> Op(names[i])]

\* op.create_table creates the enum types it meets.
CreateTable(t) == Each(LAMBDA e : Create(Alone("type", e)), TypesOf(t))
                  \o <<Create(Alone("table", t))>>
CreateIndexes(t) == Each(LAMBDA n : Create(Obj("index", n, t)), IndexesOf(t))

\* Seeded bug: row level security that the owner of the table escapes.
ProtectUnforced(t) == <<Create(Obj("enabled", t, t)), Create(Obj("policy", t, t))>>

\* Row level security: enabled, forced, and its policy.
Protect(t) == <<Create(Obj("enabled", t, t)), Create(Obj("forced", t, t)),
                Create(Obj("policy", t, t))>>

Expose(t) == <<IfPresent(Obj("policy", t, t)), Drop(Obj("enabled", t, t))>>

\* The indexes, the last first, and the table; its types stay.
DropTable(t) == Each(LAMBDA n : Drop(Obj("index", n, t)), Reverse(IndexesOf(t)))
                \o <<Drop(Alone("table", t))>>

DropTypes(names) == Each(LAMBDA e : IfPresent(Alone("type", e)), names)

Upgrade1 ==
    CreateTable("tenants") \o CreateTable("audit_log") \o CreateIndexes("audit_log")
    \o Protect("audit_log")

Downgrade1 ==
    Expose("audit_log") \o DropTable("audit_log") \o DropTable("tenants")
    \o DropTypes(<<"tenant_status">>)

Upgrade2 ==
    CreateTable("document_extractions") \o CreateIndexes("document_extractions")
    \o Protect("document_extractions")

\* Seeded bug: the types of the second revision are left behind.
Downgrade2KeepTypes ==
    Expose("document_extractions") \o DropTable("document_extractions")

Downgrade2 ==
    Expose("document_extractions") \o DropTable("document_extractions")
    \o DropTypes(<<"processing_path", "checksum_status", "document_type">>)

Tables3 == <<"persons", "person_identifiers", "person_name_variants", "match_decisions">>

Upgrade3 ==
    Each(LAMBDA e : Create(Alone("extension", e)), Extensions)
    \o FlattenSeq(Each(LAMBDA t : CreateTable(t) \o CreateIndexes(t), Tables3))
    \o FlattenSeq(Each(Protect, Tables3))

Types3 == <<"review_outcome", "match_decision_value", "match_type", "name_variant_type",
            "name_script", "identifier_status", "identifier_type", "person_status", "sex">>

\* Seeded bug: the tables dropped in the order they were created.
Downgrade3InOrder ==
    FlattenSeq(Each(Expose, Tables3)) \o FlattenSeq(Each(DropTable, Tables3))
    \o DropTypes(Types3)

Downgrade3 ==
    FlattenSeq(Each(Expose, Reverse(Tables3)))
    \o FlattenSeq(Each(DropTable, Reverse(Tables3)))
    \o DropTypes(Types3)

\* Alembic sets the version after each revision, WHERE it is what it was.
Version(from, to) == [do |-> "version", from |-> from, to |-> to]

Up == << Upgrade1 \o <<Version(0, 1)>>, Upgrade2 \o <<Version(1, 2)>>,
         Upgrade3 \o <<Version(2, 3)>> >>
Down == << Downgrade1 \o <<Version(1, 0)>>, Downgrade2 \o <<Version(2, 1)>>,
           Downgrade3 \o <<Version(3, 2)>> >>

\* The statements from one revision to another.
Script(from, to) ==
    IF from <= to THEN FlattenSeq(SubSeq(Up, from + 1, to))
    ELSE FlattenSeq(Reverse(SubSeq(Down, to + 1, from)))

-----------------------------------------------------------------------------
VARIABLES
    schema,   \* the committed objects
    version,  \* the committed alembic_version
    pc,       \* where each run is
    script,   \* what it has left to execute
    view,     \* the objects it sees
    touched,  \* the objects it has created or dropped, and locks
    seen,     \* the version it sees
    killed,   \* history: the runs that were killed
    met       \* history: the runs that were not alone

vars == <<schema, version, pc, script, view, touched, seen, killed, met>>

VersionRow == Alone("row", "alembic_version")
Running == {m \in Runs : pc[m] = "running"}

TypeOK ==
    /\ version \in 0..3 /\ seen \in [Runs -> 0..3]
    /\ pc \in [Runs -> {"idle", "running", "succeeded", "failed"}]
    /\ killed \subseteq Killable /\ met \subseteq Runs
    /\ \A m \in Runs : pc[m] # "running" => view[m] \cup touched[m] = {}
    /\ \A o \in schema \cup UNION {view[m] \cup touched[m] : m \in Runs} :
         o.kind \in {"table", "type", "index", "enabled", "forced", "policy", "extension", "row"}

Init ==
    /\ schema = {} /\ version = 0
    /\ pc = [m \in Runs |-> "idle"]
    /\ script = [m \in Runs |-> << >>]
    /\ view = [m \in Runs |-> {}]
    /\ touched = [m \in Runs |-> {}]
    /\ seen = [m \in Runs |-> 0]
    /\ killed = {} /\ met = {}

\* A run reads the version, in its transaction, and knows its statements.
Begin(m, target) ==
    /\ pc[m] = "idle"
    /\ pc' = [pc EXCEPT ![m] = "running"]
    /\ script' = [script EXCEPT ![m] = Script(version, target)]
    /\ view' = [view EXCEPT ![m] = schema]
    /\ seen' = [seen EXCEPT ![m] = version]
    /\ met' = IF Running = {} THEN met ELSE met \cup Running \cup {m}
    /\ UNCHANGED <<schema, version, touched, killed>>

\* The objects a statement must have to itself or find unchanged.
Footprint(s) == IF s.do = "version" THEN {VersionRow} ELSE {s.what} \cup Uses(s.what)

\* The runs a statement waits for.
Holders(m, s) ==
    {q \in Running \ {m} : \E o \in touched[q] :
        \/ o \in Footprint(s)
        \/ s.do \in {"drop", "dropIfExists"} /\ s.what \in Uses(o)}

\* What others see of the schema changes under a run that waited.
Seen(m) == (schema \ touched[m]) \cup (view[m] \cap touched[m])

Dependents(o, objects) ==
    {x \in objects : o \in Uses(x) /\ ~(o.kind = "table" /\ x.on = o.name)}

Fails(m, s) ==
    CASE s.do = "create" -> \/ s.what \in Seen(m) /\ s.what.kind # "extension"
                            \/ ~(Uses(s.what) \subseteq Seen(m))
      [] s.do = "drop" -> s.what \notin Seen(m) \/ Dependents(s.what, Seen(m)) # {}
      [] s.do = "dropIfExists" -> Dependents(s.what, Seen(m)) # {}
      [] s.do = "version" -> VersionRow \notin touched[m] /\ version # s.from

\* The objects a statement creates or removes: dropping a table removes what
\* is on it.
Affected(m, s) ==
    {s.what} \cup (IF s.do # "create" /\ s.what.kind = "table"
                   THEN {x \in Seen(m) : x.on = s.what.name} ELSE {})

Execute(m) ==
    /\ pc[m] = "running" /\ script[m] # << >>
    /\ LET s == Head(script[m]) IN
         /\ Holders(m, s) = {} /\ ~Fails(m, s)
         /\ IF s.do = "version"
            THEN /\ seen' = [seen EXCEPT ![m] = s.to]
                 /\ touched' = [touched EXCEPT ![m] = @ \cup {VersionRow}]
                 /\ UNCHANGED view
            ELSE /\ view' = [view EXCEPT ![m] =
                        IF s.do = "create" THEN Seen(m) \cup {s.what}
                        ELSE Seen(m) \ Affected(m, s)]
                 /\ touched' = [touched EXCEPT ![m] = @ \cup Affected(m, s)]
                 /\ UNCHANGED seen
    /\ script' = [script EXCEPT ![m] = Tail(@)]
    /\ UNCHANGED <<schema, version, pc, killed, met>>

\* Seeded bug: a run that failed keeps its locks.
AbortHolding(m) ==
    /\ pc' = [pc EXCEPT ![m] = "failed"]
    /\ script' = [script EXCEPT ![m] = << >>]
    /\ view' = [view EXCEPT ![m] = {}]
    /\ UNCHANGED <<schema, version, touched, seen, met>>

Abort(m) ==
    /\ pc' = [pc EXCEPT ![m] = "failed"]
    /\ script' = [script EXCEPT ![m] = << >>]
    /\ view' = [view EXCEPT ![m] = {}]
    /\ touched' = [touched EXCEPT ![m] = {}]
    /\ UNCHANGED <<schema, version, seen, met>>

\* A statement fails, or closes a circle of waiting runs, which PostgreSQL
\* breaks: everything the run did is rolled back.
Fail(m) ==
    /\ pc[m] = "running" /\ script[m] # << >>
    /\ LET s == Head(script[m]) IN
         \/ Holders(m, s) = {} /\ Fails(m, s)
         \/ \E q \in Holders(m, s) : script[q] # << >> /\ m \in Holders(q, Head(script[q]))
    /\ Abort(m)
    /\ UNCHANGED killed

Kill(m) ==
    /\ pc[m] = "running" /\ m \in Killable
    /\ Abort(m)
    /\ killed' = killed \cup {m}

Commit(m) ==
    /\ pc[m] = "running" /\ script[m] = << >>
    /\ pc' = [pc EXCEPT ![m] = "succeeded"]
    /\ schema' = Seen(m)
    /\ version' = IF VersionRow \in touched[m] THEN seen[m] ELSE version
    /\ view' = [view EXCEPT ![m] = {}]
    /\ touched' = [touched EXCEPT ![m] = {}]
    /\ UNCHANGED <<script, seen, killed, met>>

Terminating == (\A m \in Runs : pc[m] \in {"succeeded", "failed"}) /\ UNCHANGED vars

Next ==
    \/ \E m \in Runs, t \in Targets : Begin(m, t)
    \/ \E m \in Runs : Execute(m) \/ Fail(m) \/ Kill(m) \/ Commit(m)
    \/ Terminating

Spec == Init /\ [][Next]_vars
-----------------------------------------------------------------------------
(* What the revisions promise.                                             *)

AllTables == << <<"tenants", "audit_log">>, <<"document_extractions">>, Tables3 >>

\* The objects of a table, its enum types and its protection included.
ObjectsOf(t) ==
    {Alone("table", t)} \cup {Alone("type", e) : e \in ToSet(TypesOf(t))}
    \cup {Obj("index", n, t) : n \in ToSet(IndexesOf(t))}
    \cup (IF t = "tenants" THEN {}
          ELSE {Obj(k, t, t) : k \in {"enabled", "forced", "policy"}})

\* The schema is the one its version stands for, after any upgrades and
\* downgrades, runs that failed and runs that died: nothing is missing and
\* nothing is left behind, but for the extensions.
SchemaMatchesVersion ==
    {o \in schema : o.kind # "extension"}
        = UNION {ObjectsOf(t) : t \in ToSet(FlattenSeq(SubSeq(AllTables, 1, version)))}

\* At no time is there a committed table of tenants' data without its policy,
\* enabled and forced on the table's owner too.
TenantDataProtected ==
    \A o \in schema : o.kind = "table" /\ o.name # "tenants" =>
        {Obj(k, o.name, o.name) : k \in {"enabled", "forced", "policy"}} \subseteq schema

\* A run fails only if it was killed or met another: the statements are in an
\* order that works, upwards from any revision and downwards, and again after
\* that.
AloneSucceeds == \A m \in Runs : pc[m] = "failed" => m \in killed \cup met
=============================================================================
