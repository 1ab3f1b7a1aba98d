-------------------------- MODULE MigrationsProofs --------------------------
(***************************************************************************)
(* What Migrations.tla promises, for every set of runs and of targets.      *)
(*                                                                         *)
(* First the objects of the schema, and which can be there without which;   *)
(* then the revisions: an upgrade creates every object after what it uses,  *)
(* a downgrade removes it after what uses it.  A run's plan says what it    *)
(* has made or removed and what it has left to do.  The inductive           *)
(* invariant is that the committed schema is that of the committed version  *)
(* and that every run is on its plan: a run that met no other then has what *)
(* its next statement needs, and one that commits leaves the schema of the  *)
(* version it sets.                                                         *)
(***************************************************************************)
EXTENDS Migrations, Integers, SequenceLemmas

-----------------------------------------------------------------------------
(* The objects of the schema.                                              *)

Names == {"tenants", "audit_log", "document_extractions", "persons", "person_identifiers",
          "person_name_variants", "match_decisions"}

\* The objects of a table: its types, itself, its indexes, its protection.
Tp(t) == {Alone("type", e) : e \in ToSet(TypesOf(t))}
Tb(t) == {Alone("table", t)}
Ix(t) == {Obj("index", n, t) : n \in ToSet(IndexesOf(t))}
Pr(t) == {Obj(k, t, t) : k \in {"enabled", "forced", "policy"}}
Exts == {Alone("extension", e) : e \in ToSet(Extensions)}

\* Everything the revisions create.
Things == (UNION {ObjectsOf(t) : t \in Names}) \cup Exts

\* The tables each revision creates.
TablesOf(k) == CASE k = 1 -> {"tenants", "audit_log"}
                 [] k = 2 -> {"document_extractions"}
                 [] k = 3 -> {"persons", "person_identifiers", "person_name_variants",
                              "match_decisions"}

\* What belongs to a table, part by part.
LEMMA ObjectsOfIs ==
    \A t : ObjectsOf(t) = Tp(t) \cup Tb(t) \cup Ix(t)
                          \cup (IF t = "tenants" THEN {} ELSE Pr(t))
  BY DEF ObjectsOf, Tp, Tb, Ix, Pr

\* A list of names, none twice.
Distinct(names) == \A i, j \in DOMAIN names : i # j => names[i] # names[j]
List(names) == DOMAIN names = 1..Len(names) /\ Len(names) \in Nat /\ Distinct(names)

\* No table lists an enum type twice.
LEMMA TypesLists == \A t \in Names : List(TypesOf(t))
  <1> SUFFICES ASSUME NEW t \in Names PROVE List(TypesOf(t))
    OBVIOUS
  <1>1. CASE t = "tenants"
    BY <1>1 DEF TypesOf, List, Distinct
  <1>2. CASE t = "audit_log"
    BY <1>2 DEF TypesOf, List, Distinct
  <1>3. CASE t = "document_extractions"
    BY <1>3 DEF TypesOf, List, Distinct
  <1>4. CASE t = "persons"
    BY <1>4 DEF TypesOf, List, Distinct
  <1>5. CASE t = "person_identifiers"
    BY <1>5 DEF TypesOf, List, Distinct
  <1>6. CASE t = "person_name_variants"
    BY <1>6 DEF TypesOf, List, Distinct
  <1>7. CASE t = "match_decisions"
    BY <1>7 DEF TypesOf, List, Distinct
  <1>8. QED
    BY <1>1, <1>2, <1>3, <1>4, <1>5, <1>6, <1>7 DEF Names

\* No table lists an index twice.
LEMMA IndexesLists == \A t \in Names : List(IndexesOf(t))
  <1> SUFFICES ASSUME NEW t \in Names PROVE List(IndexesOf(t))
    OBVIOUS
  <1>1. CASE t = "tenants"
    BY <1>1 DEF IndexesOf, List, Distinct
  <1>2. CASE t = "audit_log"
    BY <1>2 DEF IndexesOf, List, Distinct
  <1>3. CASE t = "document_extractions"
    BY <1>3 DEF IndexesOf, List, Distinct
  <1>4. CASE t = "persons"
    BY <1>4 DEF IndexesOf, List, Distinct
  <1>5. CASE t = "person_identifiers"
    BY <1>5 DEF IndexesOf, List, Distinct
  <1>6. CASE t = "person_name_variants"
    BY <1>6 DEF IndexesOf, List, Distinct
  <1>7. CASE t = "match_decisions"
    BY <1>7 DEF IndexesOf, List, Distinct
  <1>8. QED
    BY <1>1, <1>2, <1>3, <1>4, <1>5, <1>6, <1>7 DEF Names

\* The enum types of each table.
LEMMA TypesSets ==
    /\ ToSet(TypesOf("tenants")) = {"tenant_status"}
    /\ ToSet(TypesOf("audit_log")) = {}
    /\ ToSet(TypesOf("document_extractions")) = {"document_type", "checksum_status", "processing_path"}
    /\ ToSet(TypesOf("persons")) = {"sex", "person_status"}
    /\ ToSet(TypesOf("person_identifiers")) = {"identifier_type", "identifier_status"}
    /\ ToSet(TypesOf("person_name_variants")) = {"name_script", "name_variant_type"}
    /\ ToSet(TypesOf("match_decisions")) = {"match_type", "match_decision_value", "review_outcome"}
  BY DEF TypesOf, ToSet

\* Two tables share no enum type.
LEMMA TypesDiffer ==
    \A t, u \in Names : t # u => ToSet(TypesOf(t)) \cap ToSet(TypesOf(u)) = {}
  BY TypesSets DEF Names

\* No enum type has the name of a GIN index.
LEMMA TypesNotGin == \A t \in Names : ToSet(TypesOf(t)) \cap GinIndexes = {}
  BY TypesSets DEF Names, GinIndexes

\* No table has the name of a GIN index, and none the empty name.
LEMMA NamesNotGin == Names \cap GinIndexes = {} /\ "" \notin Names
  BY DEF Names, GinIndexes

\* No extension has the name of a GIN index.
LEMMA ExtensionsNotGin == ToSet(Extensions) \cap GinIndexes = {}
  BY DEF Extensions, GinIndexes, ToSet

\* The extensions the GIN indexes need are among those created.
LEMMA GinUsesExts ==
    {Alone("extension", "pg_trgm"), Alone("extension", "btree_gin")} \subseteq Exts
  BY DEF Exts, Extensions, ToSet

\* Uses, one object at a time.
LEMMA UsesMember ==
    ASSUME NEW o, NEW y
    PROVE  y \in Uses(o) <=>
             \/ o.on # "" /\ y = Alone("table", o.on)
             \/ o.kind = "table" /\ \E e \in ToSet(TypesOf(o.name)) : y = Alone("type", e)
             \/ o.kind = "table" /\ \E t \in RefsOf(o.name) : y = Alone("table", t)
             \/ o.name \in GinIndexes /\ (\/ y = Alone("extension", "pg_trgm")
                                          \/ y = Alone("extension", "btree_gin"))
  BY DEF Uses

\* What each kind of object uses.
LEMMA UsesKinds == ASSUME NEW o, NEW y \in Uses(o) PROVE y.kind \in {"table", "type", "extension"}
  <1>1. ASSUME NEW e, y = Alone("type", e) PROVE y.kind = "type"
    BY <1>1 DEF Alone, Obj
  <1>2. ASSUME NEW t, y = Alone("table", t) PROVE y.kind = "table"
    BY <1>2 DEF Alone, Obj
  <1>3. ASSUME NEW e, y = Alone("extension", e) PROVE y.kind = "extension"
    BY <1>3 DEF Alone, Obj
  <1>4. QED
    BY <1>1, <1>2, <1>3, UsesMember

\* An enum type uses nothing.
LEMMA TypesUseNothing == ASSUME NEW t \in Names, NEW x \in Tp(t) PROVE Uses(x) = {}
  <1>1. PICK e \in ToSet(TypesOf(t)) : x = Obj("type", e, "")
    BY DEF Tp, Alone
  <1>2. e \notin GinIndexes
    BY TypesNotGin
  <1>3. x.kind = "type" /\ x.name = e /\ x.on = ""
    BY <1>1 DEF Obj
  <1>4. \A y : y \notin Uses(x)
    BY <1>2, <1>3, UsesMember
  <1>5. QED
    BY <1>4

\* An extension uses nothing.
LEMMA ExtsUseNothing == ASSUME NEW x \in Exts PROVE Uses(x) = {}
  <1>1. PICK e \in ToSet(Extensions) : x = Obj("extension", e, "")
    BY DEF Exts, Alone
  <1>2. e \notin GinIndexes
    BY ExtensionsNotGin
  <1>3. x.kind = "extension" /\ x.name = e /\ x.on = ""
    BY <1>1 DEF Obj
  <1>4. \A y : y \notin Uses(x)
    BY <1>2, <1>3, UsesMember
  <1>5. QED
    BY <1>4

\* A table uses its enum types and the tables it references.
LEMMA TableUses ==
    ASSUME NEW t \in Names
    PROVE  Uses(Alone("table", t)) = Tp(t) \cup UNION {Tb(r) : r \in RefsOf(t)}
  <1> DEFINE x == Alone("table", t)
  <1>1. x.kind = "table" /\ x.name = t /\ x.on = ""
    BY DEF Alone, Obj
  <1>2. t \notin GinIndexes
    BY NamesNotGin
  <1>3. \A y : y \in Uses(x) <=> \/ \E e \in ToSet(TypesOf(t)) : y = Alone("type", e)
                                 \/ \E r \in RefsOf(t) : y = Alone("table", r)
    <2> HIDE DEF x
    <2>1. QED
      BY <1>1, <1>2, UsesMember
  <1>4. QED
    BY <1>3 DEF Tp, Tb

\* An index uses its table, and a GIN index two extensions.
LEMMA IndexUses ==
    ASSUME NEW t \in Names, NEW x \in Ix(t)
    PROVE  /\ Tb(t) \subseteq Uses(x) /\ Uses(x) \subseteq Tb(t) \cup Exts
           /\ x.name \notin GinIndexes => Uses(x) = Tb(t)
  <1>1. PICK n : x = Obj("index", n, t)
    BY DEF Ix
  <1>2. x.kind = "index" /\ x.on = t /\ t # ""
    BY <1>1, NamesNotGin DEF Obj
  <1>3. \A y : y \in Uses(x) <=> \/ y = Alone("table", t)
                                 \/ x.name \in GinIndexes
                                    /\ (\/ y = Alone("extension", "pg_trgm")
                                        \/ y = Alone("extension", "btree_gin"))
    BY <1>2, UsesMember
  <1>4. QED
    BY <1>3, GinUsesExts DEF Tb

\* Row level security uses its table alone.
LEMMA ProtectionUses ==
    ASSUME NEW t \in Names, NEW x \in Pr(t) PROVE Uses(x) = Tb(t)
  <1>1. PICK k \in {"enabled", "forced", "policy"} : x = Obj(k, t, t)
    BY DEF Pr
  <1>2. x.kind # "table" /\ x.on = t /\ x.name = t /\ t # "" /\ t \notin GinIndexes
    BY <1>1, NamesNotGin DEF Obj
  <1>3. \A y : y \in Uses(x) <=> y = Alone("table", t)
    BY <1>2, UsesMember
  <1>4. QED
    BY <1>3 DEF Tb

-----------------------------------------------------------------------------
(* Sequences of statements.                                                *)

\* The statements that create and the ones that remove.
Creates == [do : {"create"}, what : Things]
Drops == [do : {"drop"}, what : Things]
         \cup [do : {"dropIfExists"}, what : {o \in Things : o.kind # "table"}]

\* The objects of a list of statements.
Whats(s) == {s[i].what : i \in DOMAIN s}

\* x can be there without y.
Before(x, y) == y \notin Uses(x) /\ x # y
AllBefore(A, B) == \A x \in A, y \in B : Before(x, y)
Upward(s) == \A i, j \in DOMAIN s : i < j => Before(s[i].what, s[j].what)
Downward(s) == \A i, j \in DOMAIN s : i < j => Before(s[j].what, s[i].what)

\* The objects of two lists of statements are those of both.
LEMMA WhatsCat ==
    ASSUME NEW S, NEW a \in Seq(S), NEW b \in Seq(S)
    PROVE  /\ a \o b \in Seq(S)
           /\ Whats(a \o b) = Whats(a) \cup Whats(b)
  <1> DEFINE c == a \o b
             k == Len(a)
             l == Len(b)
  <1>1. /\ c \in Seq(S) /\ DOMAIN c = 1..k + l /\ DOMAIN a = 1..k /\ DOMAIN b = 1..l
        /\ k \in Nat /\ l \in Nat
        /\ \A i \in 1..k : c[i] = a[i]
        /\ \A i \in 1..l : c[k + i] = b[i]
    OBVIOUS
  <1> HIDE DEF c, k, l
  <1>2. \A i \in 1..k : i \in 1..k + l
    BY <1>1
  <1>3. \A i \in 1..l : k + i \in 1..k + l
    BY <1>1
  <1>4. \A i \in 1..k + l : i \in 1..k \/ (i - k \in 1..l /\ i = k + (i - k))
    BY <1>1
  <1>5. ASSUME NEW x \in Whats(c) PROVE x \in Whats(a) \cup Whats(b)
    <2>1. PICK i \in 1..k + l : x = c[i].what
      BY <1>1 DEF Whats
    <2>2. CASE i \in 1..k
      BY <1>1, <2>1, <2>2 DEF Whats
    <2>3. CASE i - k \in 1..l /\ i = k + (i - k)
      BY <1>1, <2>1, <2>3 DEF Whats
    <2>4. QED
      BY <1>4, <2>2, <2>3
  <1>6. Whats(a) \subseteq Whats(c)
    BY <1>1, <1>2 DEF Whats
  <1>7. ASSUME NEW x \in Whats(b) PROVE x \in Whats(c)
    <2>1. PICK i \in 1..l : x = b[i].what
      BY <1>1 DEF Whats
    <2>2. x = c[k + i].what /\ k + i \in DOMAIN c
      BY <1>1, <1>3, <2>1
    <2>3. QED
      BY <2>2 DEF Whats
  <1>8. QED
    BY <1>1, <1>5, <1>6, <1>7 DEF c

\* Two lists in an order that works upwards, one after the other.
LEMMA UpwardCat ==
    ASSUME NEW S, NEW a \in Seq(S), NEW b \in Seq(S), Upward(a), Upward(b),
           AllBefore(Whats(a), Whats(b))
    PROVE  Upward(a \o b)
  <1> DEFINE c == a \o b
             k == Len(a)
             l == Len(b)
  <1>1. /\ c \in Seq(S) /\ DOMAIN c = 1..k + l /\ DOMAIN a = 1..k /\ DOMAIN b = 1..l
        /\ k \in Nat /\ l \in Nat
        /\ \A i \in 1..k : c[i] = a[i]
        /\ \A i \in 1..l : c[k + i] = b[i]
    OBVIOUS
  <1> HIDE DEF c, k, l
  <1>2. \A i \in 1..k + l : i \in 1..k \/ (i - k \in 1..l /\ i = k + (i - k))
    BY <1>1
  <1>3. ASSUME NEW i \in 1..k + l, NEW j \in 1..k + l, i < j
        PROVE  Before(c[i].what, c[j].what)
    <2>1. CASE i \in 1..k /\ j \in 1..k
      BY <1>1, <1>3, <2>1 DEF Upward
    <2>2. CASE i \in 1..k /\ j \notin 1..k
      <3>1. c[i].what \in Whats(a)
        BY <1>1, <2>2 DEF Whats
      <3>2. j - k \in 1..l /\ c[j] = b[j - k]
        BY <1>1, <1>2, <2>2
      <3>3. c[j].what \in Whats(b)
        BY <1>1, <3>2 DEF Whats
      <3>4. QED
        BY <3>1, <3>3 DEF AllBefore
    <2>3. CASE i \notin 1..k
      <3>1. i - k \in 1..l /\ c[i] = b[i - k] /\ j - k \in 1..l /\ c[j] = b[j - k]
        <4>1. i - k \in 1..l /\ i = k + (i - k)
          BY <1>2, <2>3
        <4>2. j \notin 1..k
          BY <1>1, <1>3, <2>3
        <4>3. j - k \in 1..l /\ j = k + (j - k)
          BY <1>2, <4>2
        <4>4. QED
          BY <1>1, <4>1, <4>3
      <3>2. i - k < j - k
        BY <1>1, <1>3
      <3>3. QED
        BY <1>1, <3>1, <3>2 DEF Upward
    <2>4. QED
      BY <2>1, <2>2, <2>3
  <1>4. QED
    BY <1>1, <1>3 DEF Upward, c

\* Two lists in an order that works downwards, one after the other.
LEMMA DownwardCat ==
    ASSUME NEW S, NEW a \in Seq(S), NEW b \in Seq(S), Downward(a), Downward(b),
           AllBefore(Whats(b), Whats(a))
    PROVE  Downward(a \o b)
  <1> DEFINE c == a \o b
             k == Len(a)
             l == Len(b)
  <1>1. /\ c \in Seq(S) /\ DOMAIN c = 1..k + l /\ DOMAIN a = 1..k /\ DOMAIN b = 1..l
        /\ k \in Nat /\ l \in Nat
        /\ \A i \in 1..k : c[i] = a[i]
        /\ \A i \in 1..l : c[k + i] = b[i]
    OBVIOUS
  <1> HIDE DEF c, k, l
  <1>2. \A i \in 1..k + l : i \in 1..k \/ (i - k \in 1..l /\ i = k + (i - k))
    BY <1>1
  <1>3. ASSUME NEW i \in 1..k + l, NEW j \in 1..k + l, i < j
        PROVE  Before(c[j].what, c[i].what)
    <2>1. CASE i \in 1..k /\ j \in 1..k
      BY <1>1, <1>3, <2>1 DEF Downward
    <2>2. CASE i \in 1..k /\ j \notin 1..k
      <3>1. c[i].what \in Whats(a)
        BY <1>1, <2>2 DEF Whats
      <3>2. j - k \in 1..l /\ c[j] = b[j - k]
        BY <1>1, <1>2, <2>2
      <3>3. c[j].what \in Whats(b)
        BY <1>1, <3>2 DEF Whats
      <3>4. QED
        BY <3>1, <3>3 DEF AllBefore
    <2>3. CASE i \notin 1..k
      <3>1. i - k \in 1..l /\ c[i] = b[i - k] /\ j - k \in 1..l /\ c[j] = b[j - k]
        <4>1. i - k \in 1..l /\ i = k + (i - k)
          BY <1>2, <2>3
        <4>2. j \notin 1..k
          BY <1>1, <1>3, <2>3
        <4>3. j - k \in 1..l /\ j = k + (j - k)
          BY <1>2, <4>2
        <4>4. QED
          BY <1>1, <4>1, <4>3
      <3>2. i - k < j - k
        BY <1>1, <1>3
      <3>3. QED
        BY <1>1, <3>1, <3>2 DEF Downward
    <2>4. QED
      BY <2>1, <2>2, <2>3
  <1>4. QED
    BY <1>1, <1>3 DEF Downward, c
-----------------------------------------------------------------------------
(* Which objects can be there without which.                               *)

\* What an enum type looks like.
LEMMA TypeFields == ASSUME NEW t, NEW x \in Tp(t) PROVE x.kind = "type" /\ x.on = ""
  <1>1. PICK e : x = Alone("type", e)
    BY DEF Tp
  <1>2. QED
    BY <1>1 DEF Alone, Obj

\* What a table looks like.
LEMMA TableFields == ASSUME NEW t, NEW x \in Tb(t) PROVE x.kind = "table" /\ x.on = "" /\ x.name = t
  <1>1. x = Alone("table", t)
    BY DEF Tb
  <1>2. QED
    BY <1>1 DEF Alone, Obj

\* What an index looks like.
LEMMA IndexFields == ASSUME NEW t, NEW x \in Ix(t) PROVE x.kind = "index" /\ x.on = t
  BY DEF Ix, Obj

\* What a part of row level security looks like.
LEMMA ProtectionFields ==
    ASSUME NEW t, NEW x \in Pr(t)
    PROVE  x.kind \in {"enabled", "forced", "policy"} /\ x.on = t /\ x.name = t
  BY DEF Pr, Obj

\* What an extension looks like.
LEMMA ExtFields == ASSUME NEW x \in Exts PROVE x.kind = "extension" /\ x.on = ""
  <1>1. PICK e : x = Alone("extension", e)
    BY DEF Exts
  <1>2. QED
    BY <1>1 DEF Alone, Obj

\* Nothing uses these.
LEMMA NotUsed ==
    ASSUME NEW A, NEW B, A \cap B = {},
           \A y \in B : y.kind \in {"index", "enabled", "forced", "policy"}
    PROVE  AllBefore(A, B)
  BY UsesKinds DEF AllBefore, Before

\* These use nothing.
LEMMA UseNothing ==
    ASSUME NEW A, NEW B, A \cap B = {}, A \subseteq (UNION {Tp(t) : t \in Names}) \cup Exts
    PROVE  AllBefore(A, B)
  BY TypesUseNothing, ExtsUseNothing DEF AllBefore, Before

\* What holds of two sets of objects holds of their subsets.
LEMMA BeforeMono ==
    ASSUME NEW A, NEW B, AllBefore(A, B), NEW X, NEW Y, X \subseteq A, Y \subseteq B
    PROVE  AllBefore(X, Y)
  BY DEF AllBefore

\* What holds of two sets of objects holds of both together.
LEMMA BeforeUnion ==
    ASSUME NEW A, NEW B, NEW C
    PROVE  /\ AllBefore(A, C) /\ AllBefore(B, C) => AllBefore(A \cup B, C)
           /\ AllBefore(C, A) /\ AllBefore(C, B) => AllBefore(C, A \cup B)
  BY DEF AllBefore

\* A table's objects by their kind.
LEMMA ObjectsKinds ==
    ASSUME NEW t, NEW x \in ObjectsOf(t)
    PROVE  \/ x \in Tp(t) /\ x.kind = "type"
           \/ x \in Tb(t) /\ x.kind = "table"
           \/ x \in Ix(t) /\ x.kind = "index"
           \/ x \in Pr(t) /\ x.kind \in {"enabled", "forced", "policy"}
  <1>1. x \in Tp(t) \/ x \in Tb(t) \/ x \in Ix(t) \/ x \in Pr(t)
    BY ObjectsOfIs
  <1>2. x \in Tp(t) => x.kind = "type"
    BY TypeFields
  <1>3. x \in Tb(t) => x.kind = "table"
    BY TableFields
  <1>4. x \in Ix(t) => x.kind = "index"
    BY IndexFields
  <1>5. x \in Pr(t) => x.kind \in {"enabled", "forced", "policy"}
    BY ProtectionFields
  <1>6. QED
    BY <1>1, <1>2, <1>3, <1>4, <1>5

\* An object is of one table.
LEMMA OneOwner ==
    ASSUME NEW t \in Names, NEW u \in Names, t # u
    PROVE  ObjectsOf(t) \cap ObjectsOf(u) = {}
  <1> SUFFICES ASSUME NEW x, x \in ObjectsOf(t), x \in ObjectsOf(u) PROVE FALSE
    OBVIOUS
  <1>1. CASE x.kind = "type"
    <2>1. x \in Tp(t) /\ x \in Tp(u)
      BY <1>1, ObjectsKinds
    <2>2. PICK e \in ToSet(TypesOf(t)) : x = Alone("type", e)
      BY <2>1 DEF Tp
    <2>3. PICK f \in ToSet(TypesOf(u)) : x = Alone("type", f)
      BY <2>1 DEF Tp
    <2>4. x.name = e
      BY <2>2 DEF Alone, Obj
    <2>5. x.name = f
      BY <2>3 DEF Alone, Obj
    <2>6. QED
      BY <2>4, <2>5, TypesDiffer
  <1>2. CASE x.kind = "table"
    <2>1. x \in Tb(t) /\ x \in Tb(u)
      BY <1>2, ObjectsKinds
    <2>2. x.name = t
      BY <2>1, TableFields
    <2>3. x.name = u
      BY <2>1, TableFields
    <2>4. QED
      BY <2>2, <2>3
  <1>3. CASE x.kind \in {"index", "enabled", "forced", "policy"}
    <2>1. /\ x \in Ix(t) \/ x \in Pr(t)
          /\ x \in Ix(u) \/ x \in Pr(u)
      BY <1>3, ObjectsKinds
    <2>2. x.on = t
      BY <2>1, IndexFields, ProtectionFields
    <2>3. x.on = u
      BY <2>1, IndexFields, ProtectionFields
    <2>4. QED
      BY <2>2, <2>3
  <1>4. QED
    BY <1>1, <1>2, <1>3, ObjectsKinds

\* No object of a table is an extension.
LEMMA ExtsApart == ASSUME NEW t PROVE ObjectsOf(t) \cap Exts = {}
  BY ObjectsKinds, ExtFields

\* What the objects of a table use: each other, the tables they reference and
\* the extensions.
LEMMA ObjectsUse ==
    ASSUME NEW t \in Names, NEW x \in ObjectsOf(t)
    PROVE  /\ Uses(x) \subseteq ObjectsOf(t) \cup (UNION {Tb(r) : r \in RefsOf(t)}) \cup Exts
           /\ x \notin Uses(x)
  <1>1. CASE x \in Tp(t)
    BY <1>1, TypesUseNothing
  <1>2. CASE x \in Tb(t)
    <2>1. x = Alone("table", t)
      BY <1>2 DEF Tb
    <2>2. Uses(x) = Tp(t) \cup UNION {Tb(r) : r \in RefsOf(t)}
      BY <2>1, TableUses
    <2>3. t \notin RefsOf(t)
      BY DEF RefsOf
    <2>4. x.kind = "table" /\ x.name = t
      BY <1>2, TableFields
    <2>5. x \notin Tp(t)
      BY <2>4, TypeFields
    <2>6. \A r \in RefsOf(t) : x \notin Tb(r)
      BY <2>3, <2>4, TableFields
    <2>7. QED
      BY <2>2, <2>5, <2>6, ObjectsOfIs
  <1>3. CASE x \in Ix(t)
    <2>1. Uses(x) \subseteq Tb(t) \cup Exts
      BY <1>3, IndexUses
    <2>2. x.kind = "index"
      BY <1>3, IndexFields
    <2>3. x \notin Uses(x)
      BY <2>2, UsesKinds
    <2>4. QED
      BY <2>1, <2>3, ObjectsOfIs
  <1>4. CASE x \in Pr(t)
    <2>1. Uses(x) = Tb(t)
      BY <1>4, ProtectionUses
    <2>2. x.kind \in {"enabled", "forced", "policy"}
      BY <1>4, ProtectionFields
    <2>3. x \notin Uses(x)
      BY <2>2, UsesKinds
    <2>4. QED
      BY <2>1, <2>3, ObjectsOfIs
  <1>5. QED
    BY <1>1, <1>2, <1>3, <1>4, ObjectsKinds

\* A table is there without one that it does not reference.
LEMMA TableBefore ==
    ASSUME NEW t \in Names, NEW u \in Names, t # u, u \notin RefsOf(t)
    PROVE  AllBefore(ObjectsOf(t), ObjectsOf(u))
  <1> SUFFICES ASSUME NEW x \in ObjectsOf(t), NEW y \in ObjectsOf(u) PROVE Before(x, y)
    BY DEF AllBefore
  <1>1. x # y /\ y \notin ObjectsOf(t) /\ y \notin Exts
    BY OneOwner, ExtsApart
  <1>2. ASSUME NEW r \in RefsOf(t), y \in Tb(r) PROVE FALSE
    <2>1. y.kind = "table" /\ y.name = r
      BY <1>2, TableFields
    <2>2. y \in Tb(u)
      BY <2>1, ObjectsKinds
    <2>3. y.name = u
      BY <2>2, TableFields
    <2>4. QED
      BY <2>1, <2>3
  <1>3. Uses(x) \subseteq ObjectsOf(t) \cup (UNION {Tb(r) : r \in RefsOf(t)}) \cup Exts
    BY ObjectsUse
  <1>4. QED
    BY <1>1, <1>2, <1>3 DEF Before

-----------------------------------------------------------------------------
(* The statements about one table.                                         *)

\* Statements that create, or drop, the objects W, none twice, in an order
\* that works.
Ups(s, W) == s \in Seq(Creates) /\ Whats(s) = W /\ Upward(s)
Downs(s, W) == s \in Seq(Drops) /\ Whats(s) = W /\ Downward(s)

\* One list of creations after another.
LEMMA UpsCat ==
    ASSUME NEW a, NEW A, NEW b, NEW B, Ups(a, A), Ups(b, B), AllBefore(A, B)
    PROVE  Ups(a \o b, A \cup B)
  BY WhatsCat, UpwardCat DEF Ups

\* One list of removals after another.
LEMMA DownsCat ==
    ASSUME NEW a, NEW A, NEW b, NEW B, Downs(a, A), Downs(b, B), AllBefore(B, A)
    PROVE  Downs(a \o b, A \cup B)
  BY WhatsCat, DownwardCat DEF Downs

\* One creation.
LEMMA UpsOne == ASSUME NEW o \in Things PROVE Ups(<<Create(o)>>, {o})
  <1>1. Create(o) \in Creates /\ Create(o).what = o
    BY DEF Create, Creates
  <1> DEFINE s == <<Create(o)>>
  <1>2. s \in Seq(Creates) /\ DOMAIN s = {1} /\ s[1].what = o
    BY <1>1
  <1> HIDE DEF s
  <1>3. Ups(s, {o})
    BY <1>2 DEF Ups, Whats, Upward
  <1>4. QED
    BY <1>3 DEF s

\* One removal.
LEMMA DownsOne ==
    ASSUME NEW o \in Things
    PROVE  /\ Downs(<<Drop(o)>>, {o})
           /\ o.kind # "table" => Downs(<<IfPresent(o)>>, {o})
  <1>1. ASSUME NEW d, d \in Drops, d.what = o PROVE Downs(<<d>>, {o})
    <2> DEFINE s == <<d>>
    <2>1. s \in Seq(Drops) /\ DOMAIN s = {1} /\ s[1].what = o
      BY <1>1
    <2> HIDE DEF s
    <2>2. Downs(s, {o})
      BY <2>1 DEF Downs, Whats, Downward
    <2>3. QED
      BY <2>2 DEF s
  <1>2. Drop(o) \in Drops /\ Drop(o).what = o
    BY DEF Drop, Drops
  <1>3. o.kind # "table" => IfPresent(o) \in Drops
    BY DEF IfPresent, Drops
  <1>4. IfPresent(o).what = o
    BY DEF IfPresent
  <1>5. QED
    BY <1>1, <1>2, <1>3, <1>4

\* Types and indexes do not use their like.
LEMMA UnlikeUses ==
    ASSUME NEW x, NEW y
    PROVE  /\ x.kind = "index" => x \notin Uses(y)
           /\ x.kind = "type" /\ y.kind = "type" => x \notin Uses(y)
  <1>1. x.kind = "index" => x \notin Uses(y)
    BY UsesKinds
  <1>2. ASSUME x.kind = "type", y.kind = "type" PROVE x \notin Uses(y)
    <2>1. ASSUME NEW t PROVE Alone("table", t).kind = "table"
      BY DEF Alone, Obj
    <2>2. ASSUME NEW t PROVE Alone("extension", t).kind = "extension"
      BY DEF Alone, Obj
    <2>3. QED
      BY <1>2, <2>1, <2>2, UsesMember
  <1>3. QED
    BY <1>1, <1>2

\* A statement for each name of a list.
LEMMA EachIs ==
    ASSUME NEW names, List(names), NEW S, NEW s \in [DOMAIN names -> S],
           \A i, j \in DOMAIN names : s[i].what \notin Uses(s[j].what),
           \A i \in DOMAIN names : s[i].what.name = names[i]
    PROVE  s \in Seq(S) /\ Upward(s) /\ Downward(s)
  <1> DEFINE k == Len(names)
  <1>1. k \in Nat /\ DOMAIN names = 1..k /\ DOMAIN s = 1..k
    BY DEF List
  <1>2. s \in Seq(S)
    BY <1>1
  <1>3. \A i, j \in 1..k : i # j => names[i] # names[j]
    BY <1>1 DEF List, Distinct
  <1>4. ASSUME NEW i \in 1..k, NEW j \in 1..k, i # j
        PROVE  Before(s[i].what, s[j].what)
    BY <1>1, <1>3, <1>4 DEF Before
  <1>5. QED
    BY <1>1, <1>2, <1>4 DEF Upward, Downward

\* A statement for each enum type of a list.
LEMMA EachType ==
    ASSUME NEW names, List(names), NEW S, NEW s \in [DOMAIN names -> S],
           \A i \in DOMAIN names : s[i].what = Alone("type", names[i])
    PROVE  /\ s \in Seq(S) /\ Upward(s) /\ Downward(s)
           /\ Whats(s) = {Alone("type", n) : n \in ToSet(names)}
  <1>1. ASSUME NEW i \in DOMAIN names
        PROVE  s[i].what.kind = "type" /\ s[i].what.name = names[i]
    <2>1. \A n : Alone("type", n).kind = "type" /\ Alone("type", n).name = n
      BY DEF Alone, Obj
    <2>2. QED
      BY <2>1
  <1>2. \A i, j \in DOMAIN names : s[i].what \notin Uses(s[j].what)
    BY <1>1, UnlikeUses
  <1>3. Whats(s) = {Alone("type", n) : n \in ToSet(names)}
    BY DEF Whats, ToSet
  <1>4. QED
    BY <1>1, <1>2, <1>3, EachIs

\* A statement for each index of a list.
LEMMA EachIndex ==
    ASSUME NEW names, List(names), NEW t, NEW S, NEW s \in [DOMAIN names -> S],
           \A i \in DOMAIN names : s[i].what = Obj("index", names[i], t)
    PROVE  /\ s \in Seq(S) /\ Upward(s) /\ Downward(s)
           /\ Whats(s) = {Obj("index", n, t) : n \in ToSet(names)}
  <1>1. ASSUME NEW i \in DOMAIN names
        PROVE  s[i].what.kind = "index" /\ s[i].what.name = names[i]
    <2>1. s[i].what = Obj("index", names[i], t)
      OBVIOUS
    <2>2. QED
      BY <2>1 DEF Obj
  <1>2. \A i, j \in DOMAIN names : s[i].what \notin Uses(s[j].what)
    BY <1>1, UnlikeUses
  <1>3. Whats(s) = {Obj("index", n, t) : n \in ToSet(names)}
    BY DEF Whats, ToSet
  <1>4. QED
    BY <1>1, <1>2, <1>3, EachIs

\* A table's objects are objects of the schema.
LEMMA ThingsOf ==
    ASSUME NEW t \in Names
    PROVE  /\ Tp(t) \subseteq Things /\ Tb(t) \subseteq Things /\ Ix(t) \subseteq Things
           /\ t # "tenants" => Pr(t) \subseteq Things
           /\ ObjectsOf(t) \subseteq Things
  BY ObjectsOfIs DEF Things

\* create_table makes the table after its enum types.
LEMMA CreateTableIs == ASSUME NEW t \in Names PROVE Ups(CreateTable(t), Tp(t) \cup Tb(t))
  <1> DEFINE names == TypesOf(t)
             s == [i \in DOMAIN names |-> Create(Alone("type", names[i]))]
  <1>1. CreateTable(t) = s \o <<Create(Alone("table", t))>>
    BY DEF CreateTable, Each
  <1>2. ASSUME NEW i \in DOMAIN names
        PROVE  s[i] \in Creates /\ s[i].what = Alone("type", names[i])
    <2>1. Alone("type", names[i]) \in Things
      BY ThingsOf DEF Tp, ToSet
    <2>2. QED
      BY <2>1 DEF Create, Creates
  <1>3. s \in [DOMAIN names -> Creates]
    BY <1>2
  <1>4. List(names)
    BY TypesLists
  <1> HIDE DEF s
  <1>5. /\ s \in Seq(Creates) /\ Upward(s) /\ Downward(s)
        /\ Whats(s) = {Alone("type", n) : n \in ToSet(names)}
    BY <1>2, <1>3, <1>4, EachType
  <1>6. Ups(s, Tp(t))
    BY <1>5 DEF Ups, Tp
  <1>7. Ups(<<Create(Alone("table", t))>>, Tb(t))
    BY ThingsOf, UpsOne DEF Tb
  <1>8. Tp(t) \cap Tb(t) = {}
    BY TypeFields, TableFields
  <1>9. AllBefore(Tp(t), Tb(t))
    BY <1>8, UseNothing
  <1>10. QED
    BY <1>1, <1>6, <1>7, <1>9, UpsCat

\* The indexes of a table, created.
LEMMA CreateIndexesIs == ASSUME NEW t \in Names PROVE Ups(CreateIndexes(t), Ix(t))
  <1> DEFINE names == IndexesOf(t)
             s == [i \in DOMAIN names |-> Create(Obj("index", names[i], t))]
  <1>1. CreateIndexes(t) = s
    BY DEF CreateIndexes, Each
  <1>2. ASSUME NEW i \in DOMAIN names
        PROVE  s[i] \in Creates /\ s[i].what = Obj("index", names[i], t)
    <2>1. Obj("index", names[i], t) \in Things
      BY ThingsOf DEF Ix, ToSet
    <2>2. QED
      BY <2>1 DEF Create, Creates
  <1>3. s \in [DOMAIN names -> Creates]
    BY <1>2
  <1>4. List(names)
    BY IndexesLists
  <1> HIDE DEF s
  <1>5. /\ s \in Seq(Creates) /\ Upward(s) /\ Downward(s)
        /\ Whats(s) = {Obj("index", n, t) : n \in ToSet(names)}
    BY <1>2, <1>3, <1>4, EachIndex
  <1>6. QED
    BY <1>1, <1>5 DEF Ups, Ix

\* The parts of a table's protection do not use each other.
LEMMA ProtectionApart ==
    ASSUME NEW t \in Names, NEW x \in Pr(t), NEW y \in Pr(t), x # y PROVE Before(x, y)
  <1>1. y.kind \in {"enabled", "forced", "policy"}
    BY ProtectionFields
  <1>2. QED
    BY <1>1, UsesKinds DEF Before

\* Row level security of a table, switched on.
LEMMA ProtectIs ==
    ASSUME NEW t \in Names, t # "tenants" PROVE Ups(Protect(t), Pr(t))
  <1> DEFINE e == Obj("enabled", t, t)
             f == Obj("forced", t, t)
             p == Obj("policy", t, t)
  <1>1. e \in Pr(t) /\ f \in Pr(t) /\ p \in Pr(t) /\ e # f /\ e # p /\ f # p
    BY DEF Pr, Obj
  <1>2. Pr(t) = {e, f, p}
    BY DEF Pr
  <1>3. Protect(t) = (<<Create(e)>> \o <<Create(f)>>) \o <<Create(p)>>
    BY DEF Protect
  <1> HIDE DEF e, f, p
  <1>4. Ups(<<Create(e)>>, {e}) /\ Ups(<<Create(f)>>, {f}) /\ Ups(<<Create(p)>>, {p})
    BY <1>1, ThingsOf, UpsOne
  <1>5. AllBefore({e}, {f}) /\ AllBefore({e, f}, {p})
    BY <1>1, ProtectionApart DEF AllBefore
  <1>6. Ups(<<Create(e)>> \o <<Create(f)>>, {e} \cup {f})
    BY <1>4, <1>5, UpsCat
  <1>7. {e} \cup {f} = {e, f} /\ {e, f} \cup {p} = Pr(t)
    BY <1>2
  <1>8. QED
    BY <1>3, <1>4, <1>5, <1>6, <1>7, UpsCat

\* What a downgrade of the table's protection names: the rest goes with the
\* table.
Exposed(t) == {Obj("policy", t, t), Obj("enabled", t, t)}

\* Row level security of a table, switched off.
LEMMA ExposeIs ==
    ASSUME NEW t \in Names, t # "tenants"
    PROVE  Downs(Expose(t), Exposed(t)) /\ Exposed(t) \subseteq Pr(t)
  <1> DEFINE e == Obj("enabled", t, t)
             p == Obj("policy", t, t)
  <1>1. e \in Pr(t) /\ p \in Pr(t) /\ e # p /\ p.kind # "table"
    BY DEF Pr, Obj
  <1>2. Expose(t) = <<IfPresent(p)>> \o <<Drop(e)>> /\ Exposed(t) = {p} \cup {e}
    BY DEF Expose, Exposed
  <1> HIDE DEF e, p
  <1>3. Downs(<<IfPresent(p)>>, {p}) /\ Downs(<<Drop(e)>>, {e})
    BY <1>1, ThingsOf, DownsOne
  <1>4. AllBefore({e}, {p})
    BY <1>1, ProtectionApart DEF AllBefore
  <1>5. Downs(<<IfPresent(p)>> \o <<Drop(e)>>, {p} \cup {e})
    BY <1>3, <1>4, DownsCat
  <1>6. Exposed(t) \subseteq Pr(t)
    BY <1>1, <1>2
  <1>7. QED
    BY <1>2, <1>5, <1>6

\* A list of names read backwards.
LEMMA ReverseList ==
    ASSUME NEW names, List(names)
    PROVE  /\ List(Reverse(names)) /\ ToSet(Reverse(names)) = ToSet(names)
  <1> DEFINE k == Len(names)
             r == Reverse(names)
  <1>1. k \in Nat /\ DOMAIN names = 1..k
    BY DEF List
  <1>2. r = [i \in 1..k |-> names[(k - i) + 1]]
    BY DEF Reverse
  <1>3. DOMAIN r = 1..k /\ Len(r) = k
    BY <1>1, <1>2
  <1>4. \A i \in 1..k : (k - i) + 1 \in 1..k /\ (k - ((k - i) + 1)) + 1 = i
    BY <1>1
  <1>5. \A i, j \in 1..k : i # j => (k - i) + 1 # (k - j) + 1
    BY <1>1
  <1>6. \A i, j \in 1..k : i # j => names[i] # names[j]
    BY <1>1 DEF List, Distinct
  <1> HIDE DEF k, r
  <1>7. Distinct(r)
    BY <1>2, <1>3, <1>4, <1>5, <1>6 DEF Distinct
  <1>8. ToSet(r) = ToSet(names)
    <2>1. \A i \in 1..k : r[i] = names[(k - i) + 1]
      BY <1>2
    <2>2. \A i \in 1..k : names[i] = r[(k - i) + 1]
      BY <1>4, <2>1
    <2>3. QED
      BY <1>1, <1>3, <1>4, <2>1, <2>2 DEF ToSet
  <1>9. QED
    BY <1>1, <1>3, <1>7, <1>8 DEF List, r

\* The indexes of a table and the table, dropped.
LEMMA DropTableIs == ASSUME NEW t \in Names PROVE Downs(DropTable(t), Ix(t) \cup Tb(t))
  <1> DEFINE names == Reverse(IndexesOf(t))
             s == [i \in DOMAIN names |-> Drop(Obj("index", names[i], t))]
  <1>1. DropTable(t) = s \o <<Drop(Alone("table", t))>>
    BY DEF DropTable, Each
  <1>2. List(names) /\ ToSet(names) = ToSet(IndexesOf(t))
    BY IndexesLists, ReverseList
  <1> HIDE DEF names
  <1>3. ASSUME NEW i \in DOMAIN names
        PROVE  s[i] \in Drops /\ s[i].what = Obj("index", names[i], t)
    <2>1. names[i] \in ToSet(IndexesOf(t))
      BY <1>2 DEF ToSet
    <2>2. Obj("index", names[i], t) \in Things
      BY <2>1, ThingsOf DEF Ix
    <2>3. QED
      BY <2>2 DEF Drop, Drops
  <1>4. s \in [DOMAIN names -> Drops]
    BY <1>3
  <1> HIDE DEF s
  <1>5. /\ s \in Seq(Drops) /\ Upward(s) /\ Downward(s)
        /\ Whats(s) = {Obj("index", n, t) : n \in ToSet(names)}
    BY <1>2, <1>3, <1>4, EachIndex
  <1>6. Downs(s, Ix(t))
    BY <1>2, <1>5 DEF Downs, Ix
  <1>7. Downs(<<Drop(Alone("table", t))>>, Tb(t))
    BY ThingsOf, DownsOne DEF Tb
  <1>8. Tb(t) \cap Ix(t) = {} /\ \A y \in Ix(t) : y.kind = "index"
    BY IndexFields, TableFields
  <1>9. AllBefore(Tb(t), Ix(t))
    BY <1>8, NotUsed
  <1>10. QED
    BY <1>1, <1>6, <1>7, <1>9, DownsCat

\* Enum types, dropped.
LEMMA DropTypesIs ==
    ASSUME NEW names, List(names), NEW W, W = {Alone("type", n) : n \in ToSet(names)},
           W \subseteq Things
    PROVE  Downs(DropTypes(names), W)
  <1> DEFINE s == [i \in DOMAIN names |-> IfPresent(Alone("type", names[i]))]
  <1>1. DropTypes(names) = s
    BY DEF DropTypes, Each
  <1>2. ASSUME NEW i \in DOMAIN names
        PROVE  s[i] \in Drops /\ s[i].what = Alone("type", names[i])
    <2>1. Alone("type", names[i]) \in Things
      BY DEF ToSet
    <2>2. Alone("type", names[i]).kind # "table"
      BY DEF Alone, Obj
    <2>3. QED
      BY <2>1, <2>2 DEF IfPresent, Drops
  <1>3. s \in [DOMAIN names -> Drops]
    BY <1>2
  <1> HIDE DEF s
  <1>4. /\ s \in Seq(Drops) /\ Upward(s) /\ Downward(s)
        /\ Whats(s) = {Alone("type", n) : n \in ToSet(names)}
    BY <1>2, <1>3, EachType
  <1>5. QED
    BY <1>1, <1>4 DEF Downs

\* The extensions, created.
LEMMA ExtensionsIs ==
    Ups(Each(LAMBDA e : Create(Alone("extension", e)), Extensions), Exts)
  <1> DEFINE s == [i \in DOMAIN Extensions |-> Create(Alone("extension", Extensions[i]))]
  <1>1. Each(LAMBDA e : Create(Alone("extension", e)), Extensions) = s
    BY DEF Each
  <1>2. List(Extensions)
    BY DEF Extensions, List, Distinct
  <1>3. ASSUME NEW i \in DOMAIN Extensions
        PROVE  /\ s[i] \in Creates /\ s[i].what = Alone("extension", Extensions[i])
               /\ s[i].what \in Exts /\ s[i].what.name = Extensions[i]
    <2>1. Alone("extension", Extensions[i]) \in Exts
      BY DEF Exts, ToSet
    <2>2. Alone("extension", Extensions[i]).name = Extensions[i]
      BY DEF Alone, Obj
    <2>3. QED
      BY <2>1, <2>2 DEF Create, Creates, Things
  <1>4. s \in [DOMAIN Extensions -> Creates]
    BY <1>3
  <1> HIDE DEF s
  <1>5. \A i, j \in DOMAIN Extensions : s[i].what \notin Uses(s[j].what)
    BY <1>3, ExtsUseNothing
  <1>6. s \in Seq(Creates) /\ Upward(s) /\ Downward(s)
    BY <1>2, <1>3, <1>4, <1>5, EachIs
  <1>7. Whats(s) = Exts
    BY <1>3, <1>4 DEF Whats, Exts, ToSet
  <1>8. QED
    BY <1>1, <1>6, <1>7 DEF Ups

\* Four lists of creations, one after another.
LEMMA UpsFour ==
    ASSUME NEW a, NEW A, NEW b, NEW B, NEW c, NEW C, NEW d, NEW D,
           Ups(a, A), Ups(b, B), Ups(c, C), Ups(d, D),
           AllBefore(A, B), AllBefore(A, C), AllBefore(A, D),
           AllBefore(B, C), AllBefore(B, D), AllBefore(C, D)
    PROVE  Ups(FlattenSeq(<<a, b, c, d>>), ((A \cup B) \cup C) \cup D)
  <1>1. Ups(a \o b, A \cup B)
    BY UpsCat
  <1>2. AllBefore(A \cup B, C)
    BY BeforeUnion
  <1>3. Ups((a \o b) \o c, (A \cup B) \cup C)
    BY <1>1, <1>2, UpsCat
  <1>4. AllBefore((A \cup B) \cup C, D)
    BY BeforeUnion
  <1>5. Ups(((a \o b) \o c) \o d, ((A \cup B) \cup C) \cup D)
    BY <1>3, <1>4, UpsCat
  <1>6. FlattenSeq(<<a, b, c, d>>) = ((a \o b) \o c) \o d
    <2> DEFINE F(w, x, y, z) == <<w, x, y, z>>
               G(w, x, y, z) == ((w \o x) \o y) \o z
    <2>1. \A w, x, y, z : FlattenSeq(F(w, x, y, z)) = G(w, x, y, z)
      BY FlattenFour
    <2> HIDE DEF F, G
    <2>2. FlattenSeq(F(a, b, c, d)) = G(a, b, c, d)
      BY <2>1
    <2>3. QED
      BY <2>2 DEF F, G
  <1>7. QED
    BY <1>5, <1>6

\* Four lists of removals, one after another.
LEMMA DownsFour ==
    ASSUME NEW a, NEW A, NEW b, NEW B, NEW c, NEW C, NEW d, NEW D,
           Downs(a, A), Downs(b, B), Downs(c, C), Downs(d, D),
           AllBefore(B, A), AllBefore(C, A), AllBefore(D, A),
           AllBefore(C, B), AllBefore(D, B), AllBefore(D, C)
    PROVE  Downs(FlattenSeq(<<a, b, c, d>>), ((A \cup B) \cup C) \cup D)
  <1>1. Downs(a \o b, A \cup B)
    BY DownsCat
  <1>2. AllBefore(C, A \cup B)
    BY BeforeUnion
  <1>3. Downs((a \o b) \o c, (A \cup B) \cup C)
    BY <1>1, <1>2, DownsCat
  <1>4. AllBefore(D, (A \cup B) \cup C)
    BY BeforeUnion
  <1>5. Downs(((a \o b) \o c) \o d, ((A \cup B) \cup C) \cup D)
    BY <1>3, <1>4, DownsCat
  <1>6. FlattenSeq(<<a, b, c, d>>) = ((a \o b) \o c) \o d
    <2> DEFINE F(w, x, y, z) == <<w, x, y, z>>
               G(w, x, y, z) == ((w \o x) \o y) \o z
    <2>1. \A w, x, y, z : FlattenSeq(F(w, x, y, z)) = G(w, x, y, z)
      BY FlattenFour
    <2> HIDE DEF F, G
    <2>2. FlattenSeq(F(a, b, c, d)) = G(a, b, c, d)
      BY <2>1
    <2>3. QED
      BY <2>2 DEF F, G
  <1>7. QED
    BY <1>5, <1>6

-----------------------------------------------------------------------------
(* The revisions.                                                          *)

\* What a revision adds to the schema, and what its downgrade names.
New(k) == UNION {ObjectsOf(t) : t \in TablesOf(k)}
Bare(t) == {x \in ObjectsOf(t) : x.kind # "forced"}
Named(k) == UNION {Bare(t) : t \in TablesOf(k)}
Made(k) == IF k = 3 THEN New(k) \cup Exts ELSE New(k)

\* A table, its types and indexes, before its protection.
Built(t) == Tp(t) \cup Tb(t) \cup Ix(t)

\* A table's objects, as they are before its protection and with it.
LEMMA BuiltIs ==
    ASSUME NEW t \in Names
    PROVE  /\ Built(t) \subseteq ObjectsOf(t)
           /\ ObjectsOf(t) = Built(t) \cup (IF t = "tenants" THEN {} ELSE Pr(t))
           /\ Bare(t) = Built(t) \cup (IF t = "tenants" THEN {} ELSE Exposed(t))
           /\ \A x \in Built(t) : x.kind \in {"type", "table", "index"}
  <1>1. ObjectsOf(t) = Built(t) \cup (IF t = "tenants" THEN {} ELSE Pr(t))
    BY ObjectsOfIs DEF Built
  <1>2. \A x \in Built(t) : x.kind \in {"type", "table", "index"}
    BY TypeFields, TableFields, IndexFields DEF Built
  <1>3. {x \in Pr(t) : x.kind # "forced"} = Exposed(t)
    BY DEF Pr, Exposed, Obj
  <1>4. QED
    BY <1>1, <1>2, <1>3 DEF Bare

\* A table is created with its types and indexes.
LEMMA BuildIs ==
    ASSUME NEW t \in Names
    PROVE  Ups(CreateTable(t) \o CreateIndexes(t), Built(t))
  <1>1. (Tp(t) \cup Tb(t)) \cap Ix(t) = {}
    BY TypeFields, TableFields, IndexFields
  <1>2. AllBefore(Tp(t) \cup Tb(t), Ix(t))
    BY <1>1, IndexFields, NotUsed
  <1>3. QED
    BY <1>2, CreateTableIs, CreateIndexesIs, UpsCat DEF Built

\* Protection comes after any tables.
LEMMA BuiltBeforeProtection ==
    ASSUME NEW t \in Names, NEW u \in Names
    PROVE  AllBefore(Built(t), Pr(u)) /\ AllBefore(Built(t), Exposed(u))
  <1>1. \A y \in Pr(u) : y.kind \in {"enabled", "forced", "policy"}
    BY ProtectionFields
  <1>2. Built(t) \cap Pr(u) = {}
    BY <1>1, BuiltIs
  <1>3. AllBefore(Built(t), Pr(u))
    BY <1>1, <1>2, NotUsed
  <1>4. Exposed(u) \subseteq Pr(u)
    BY DEF Exposed, Pr
  <1>5. QED
    BY <1>3, <1>4, BeforeMono

\* The protection of one table does not need that of another.
LEMMA ProtectionBeforeProtection ==
    ASSUME NEW t \in Names, NEW u \in Names, t # u
    PROVE  AllBefore(Pr(t), Pr(u)) /\ AllBefore(Exposed(t), Exposed(u))
  <1>1. \A y \in Pr(u) : y.kind \in {"enabled", "forced", "policy"} /\ y.on = u
    BY ProtectionFields
  <1>2. \A y \in Pr(t) : y.on = t
    BY ProtectionFields
  <1>3. Pr(t) \cap Pr(u) = {}
    BY <1>1, <1>2
  <1>4. AllBefore(Pr(t), Pr(u))
    BY <1>1, <1>3, NotUsed
  <1>5. Exposed(u) \subseteq Pr(u) /\ Exposed(t) \subseteq Pr(t)
    BY DEF Exposed, Pr
  <1>6. QED
    BY <1>4, <1>5, BeforeMono

\* A table is built without one that it does not reference.
LEMMA BuiltBefore ==
    ASSUME NEW t \in Names, NEW u \in Names, t # u, u \notin RefsOf(t)
    PROVE  AllBefore(Built(t), Built(u))
  BY TableBefore, BuiltIs, BeforeMono

\* The tables' names, one by one.
LEMMA NamesAre ==
    /\ "tenants" \in Names /\ "audit_log" \in Names /\ "document_extractions" \in Names
    /\ "persons" \in Names /\ "person_identifiers" \in Names
    /\ "person_name_variants" \in Names /\ "match_decisions" \in Names
  BY DEF Names

\* The tables' foreign keys, one by one.
LEMMA RefsAre ==
    /\ RefsOf("tenants") = {} /\ RefsOf("audit_log") = {"tenants"}
    /\ RefsOf("document_extractions") = {"tenants"} /\ RefsOf("persons") = {"tenants"}
    /\ RefsOf("person_identifiers") = {"persons"}
    /\ RefsOf("person_name_variants") = {"persons"} /\ RefsOf("match_decisions") = {}
  BY DEF RefsOf

\* What each revision adds and drops, by its tables.
LEMMA NewIs ==
    /\ New(1) = ObjectsOf("tenants") \cup ObjectsOf("audit_log")
    /\ New(2) = ObjectsOf("document_extractions")
    /\ New(3) = ObjectsOf("persons") \cup ObjectsOf("person_identifiers")
                \cup ObjectsOf("person_name_variants") \cup ObjectsOf("match_decisions")
    /\ Named(1) = Bare("tenants") \cup Bare("audit_log")
    /\ Named(2) = Bare("document_extractions")
    /\ Named(3) = Bare("persons") \cup Bare("person_identifiers")
                  \cup Bare("person_name_variants") \cup Bare("match_decisions")
  BY DEF New, Named, TablesOf

\* The first upgrade makes what it should, in an order that works.
LEMMA Upgrade1Is == Ups(Upgrade1, New(1))
  <1> DEFINE t == "tenants"
             u == "audit_log"
  <1>1. Upgrade1 = ((CreateTable(t) \o CreateTable(u)) \o CreateIndexes(u)) \o Protect(u)
    BY DEF Upgrade1
  <1>2. Ix(t) = {}
    BY DEF Ix, IndexesOf, ToSet
  <1>3. t \in Names /\ u \in Names /\ t # u /\ u # "tenants" /\ u \notin RefsOf(t)
    BY NamesAre, RefsAre
  <1>4. New(1) = ((Built(t) \cup (Tp(u) \cup Tb(u))) \cup Ix(u)) \cup Pr(u)
    <2>1. ObjectsOf(t) = Built(t) /\ ObjectsOf(u) = Built(u) \cup Pr(u)
      BY <1>3, BuiltIs
    <2>2. QED
      BY <2>1, NewIs DEF Built
  <1>5. Built(t) = Tp(t) \cup Tb(t)
    BY <1>2 DEF Built
  <1> HIDE DEF t, u
  <1>6. AllBefore(Built(t), Tp(u) \cup Tb(u))
    <2>1. AllBefore(Built(t), Built(u))
      BY <1>3, BuiltBefore
    <2>2. Tp(u) \cup Tb(u) \subseteq Built(u)
      BY DEF Built
    <2>3. QED
      BY <2>1, <2>2, BeforeMono
  <1>7. Ups(CreateTable(t) \o CreateTable(u), Built(t) \cup (Tp(u) \cup Tb(u)))
    BY <1>3, <1>5, <1>6, CreateTableIs, UpsCat
  <1>8. AllBefore(Built(t) \cup (Tp(u) \cup Tb(u)), Ix(u))
    <2>1. \A y \in Ix(u) : y.kind = "index" /\ y.on = u
      BY IndexFields
    <2>2. \A y \in Tp(u) \cup Tb(u) : y.kind # "index"
      BY TypeFields, TableFields
    <2>3. \A y \in Built(t) : y.kind # "index"
      BY <1>5, TypeFields, TableFields
    <2>4. QED
      BY <2>1, <2>2, <2>3, NotUsed
  <1>9. Ups((CreateTable(t) \o CreateTable(u)) \o CreateIndexes(u),
            (Built(t) \cup (Tp(u) \cup Tb(u))) \cup Ix(u))
    BY <1>3, <1>7, <1>8, CreateIndexesIs, UpsCat
  <1>10. AllBefore((Built(t) \cup (Tp(u) \cup Tb(u))) \cup Ix(u), Pr(u))
    <2>1. (Built(t) \cup (Tp(u) \cup Tb(u))) \cup Ix(u) = Built(t) \cup Built(u)
      BY DEF Built
    <2>2. QED
      BY <1>3, <2>1, BuiltBeforeProtection, BeforeUnion
  <1>11. Ups(Upgrade1, ((Built(t) \cup (Tp(u) \cup Tb(u))) \cup Ix(u)) \cup Pr(u))
    BY <1>1, <1>3, <1>9, <1>10, ProtectIs, UpsCat
  <1>12. QED
    BY <1>4, <1>11

\* The second upgrade makes what it should, in an order that works.
LEMMA Upgrade2Is == Ups(Upgrade2, New(2))
  <1> DEFINE t == "document_extractions"
  <1>1. Upgrade2 = (CreateTable(t) \o CreateIndexes(t)) \o Protect(t)
    BY DEF Upgrade2
  <1>2. t \in Names /\ t # "tenants" /\ New(2) = Built(t) \cup Pr(t)
    BY NamesAre, NewIs, BuiltIs
  <1> HIDE DEF t
  <1>3. Ups(Upgrade2, Built(t) \cup Pr(t))
    BY <1>1, <1>2, BuildIs, BuiltBeforeProtection, ProtectIs, UpsCat
  <1>4. QED
    BY <1>2, <1>3

\* The third upgrade makes what it should, in an order that works.
LEMMA Upgrade3Is == Ups(Upgrade3, New(3) \cup Exts)
  <1> DEFINE p == "persons"
             i == "person_identifiers"
             v == "person_name_variants"
             m == "match_decisions"
             Build(t) == CreateTable(t) \o CreateIndexes(t)
             E == Each(LAMBDA e : Create(Alone("extension", e)), Extensions)
             B == ((Built(p) \cup Built(i)) \cup Built(v)) \cup Built(m)
             P == ((Pr(p) \cup Pr(i)) \cup Pr(v)) \cup Pr(m)
  <1>1. /\ p \in Names /\ i \in Names /\ v \in Names /\ m \in Names
        /\ p # i /\ p # v /\ p # m /\ i # v /\ i # m /\ v # m
        /\ p # "tenants" /\ i # "tenants" /\ v # "tenants" /\ m # "tenants"
    BY NamesAre
  <1>2. /\ i \notin RefsOf(p) /\ v \notin RefsOf(p) /\ m \notin RefsOf(p)
        /\ v \notin RefsOf(i) /\ m \notin RefsOf(i) /\ m \notin RefsOf(v)
    BY RefsAre
  <1>3. New(3) \cup Exts = (Exts \cup B) \cup P
    <2>1. /\ ObjectsOf(p) = Built(p) \cup Pr(p) /\ ObjectsOf(i) = Built(i) \cup Pr(i)
          /\ ObjectsOf(v) = Built(v) \cup Pr(v) /\ ObjectsOf(m) = Built(m) \cup Pr(m)
      BY <1>1, BuiltIs
    <2>2. QED
      BY <2>1, NewIs
  <1>4. Tables3 = <<p, i, v, m>>
    BY DEF Tables3
  <1>5. Upgrade3 = (E \o FlattenSeq([j \in DOMAIN Tables3 |-> Build(Tables3[j])]))
                   \o FlattenSeq([j \in DOMAIN Tables3 |-> Protect(Tables3[j])])
    BY DEF Upgrade3, Each
  <1>6. Ups(E, Exts)
    BY ExtensionsIs
  <1>7. \A t \in Names : Ups(Build(t), Built(t))
    BY BuildIs
  <1> HIDE DEF p, i, v, m, Build, E
  <1>8. Ups(FlattenSeq(<<Build(p), Build(i), Build(v), Build(m)>>), B)
    <2>1. /\ AllBefore(Built(p), Built(i)) /\ AllBefore(Built(p), Built(v))
          /\ AllBefore(Built(p), Built(m)) /\ AllBefore(Built(i), Built(v))
          /\ AllBefore(Built(i), Built(m)) /\ AllBefore(Built(v), Built(m))
      BY <1>1, <1>2, BuiltBefore
    <2>2. Ups(Build(p), Built(p)) /\ Ups(Build(i), Built(i)) /\ Ups(Build(v), Built(v))
          /\ Ups(Build(m), Built(m))
      BY <1>1, <1>7
    <2>3. QED
      BY <2>1, <2>2, UpsFour
  <1>9. Ups(FlattenSeq(<<Protect(p), Protect(i), Protect(v), Protect(m)>>), P)
    <2>1. /\ AllBefore(Pr(p), Pr(i)) /\ AllBefore(Pr(p), Pr(v))
          /\ AllBefore(Pr(p), Pr(m)) /\ AllBefore(Pr(i), Pr(v))
          /\ AllBefore(Pr(i), Pr(m)) /\ AllBefore(Pr(v), Pr(m))
      BY <1>1, ProtectionBeforeProtection
    <2>2. Ups(Protect(p), Pr(p)) /\ Ups(Protect(i), Pr(i)) /\ Ups(Protect(v), Pr(v))
          /\ Ups(Protect(m), Pr(m))
      BY <1>1, ProtectIs
    <2>3. QED
      BY <2>1, <2>2, UpsFour
  <1>10. [j \in DOMAIN Tables3 |-> Build(Tables3[j])] = <<Build(p), Build(i), Build(v), Build(m)>>
    BY <1>4
  <1>11. [j \in DOMAIN Tables3 |-> Protect(Tables3[j])]
           = <<Protect(p), Protect(i), Protect(v), Protect(m)>>
    BY <1>4
  <1>12. AllBefore(Exts, B)
    <2>1. ASSUME NEW t \in Names PROVE AllBefore(Exts, Built(t))
      BY ExtsApart, BuiltIs, UseNothing
    <2>2. QED
      BY <1>1, <2>1, BeforeUnion
  <1>13. AllBefore(Exts \cup B, P)
    <2>1. ASSUME NEW t \in Names, t # "tenants" PROVE AllBefore(Exts \cup B, Pr(t))
      <3>1. AllBefore(B, Pr(t))
        BY <1>1, BuiltBeforeProtection, BeforeUnion
      <3>2. Pr(t) \subseteq ObjectsOf(t)
        BY <2>1, BuiltIs
      <3>3. AllBefore(Exts, Pr(t))
        BY <3>2, ExtsApart, UseNothing
      <3>4. QED
        BY <3>1, <3>3, BeforeUnion
    <2> DEFINE Q == Exts \cup B
    <2> HIDE DEF Q, B
    <2>2. /\ AllBefore(Q, Pr(p)) /\ AllBefore(Q, Pr(i)) /\ AllBefore(Q, Pr(v))
          /\ AllBefore(Q, Pr(m))
      BY <1>1, <2>1 DEF Q
    <2>3. AllBefore(Q, P)
      BY <2>2, BeforeUnion
    <2>4. QED
      BY <2>3 DEF Q
  <1> DEFINE f == FlattenSeq([j \in DOMAIN Tables3 |-> Build(Tables3[j])])
             g == FlattenSeq([j \in DOMAIN Tables3 |-> Protect(Tables3[j])])
  <1>14. Ups(f, B) /\ Ups(g, P) /\ Upgrade3 = (E \o f) \o g
    BY <1>5, <1>8, <1>9, <1>10, <1>11
  <1> HIDE DEF f, g, B, P
  <1>15. Ups(E \o f, Exts \cup B)
    BY <1>6, <1>12, <1>14, UpsCat
  <1>16. Ups(Upgrade3, (Exts \cup B) \cup P)
    BY <1>13, <1>14, <1>15, UpsCat
  <1>17. QED
    BY <1>3, <1>16

\* A table is dropped after one that references it.
LEMMA DownTablesIs ==
    ASSUME NEW t \in Names, NEW u \in Names, t # u, u \notin RefsOf(t)
    PROVE  AllBefore(Ix(t) \cup Tb(t), Ix(u) \cup Tb(u))
  <1>1. Ix(t) \cup Tb(t) \subseteq Built(t) /\ Ix(u) \cup Tb(u) \subseteq Built(u)
    BY DEF Built
  <1>2. QED
    BY <1>1, BuiltBefore, BeforeMono

\* Enum types are dropped after everything else.
LEMMA TypesBefore ==
    ASSUME NEW A, NEW B, A \subseteq UNION {Tp(t) : t \in Names}, \A y \in B : y.kind # "type"
    PROVE  AllBefore(A, B)
  <1>1. \A x \in A : x.kind = "type"
    BY TypeFields
  <1>2. A \cap B = {}
    BY <1>1
  <1>3. QED
    BY <1>2, UseNothing

\* What is dropped before the enum types is not one of them.
LEMMA NotTypes ==
    ASSUME NEW t
    PROVE  /\ \A y \in Exposed(t) : y.kind # "type"
           /\ \A y \in Ix(t) \cup Tb(t) : y.kind # "type"
  <1>1. Exposed(t) \subseteq Pr(t)
    BY DEF Exposed, Pr
  <1>2. \A y \in Pr(t) : y.kind # "type"
    BY ProtectionFields
  <1>3. \A y \in Ix(t) \cup Tb(t) : y.kind # "type"
    BY IndexFields, TableFields
  <1>4. QED
    BY <1>1, <1>2, <1>3

\* A table is dropped after the protection of any.
LEMMA TablesBeforeExposed ==
    ASSUME NEW t \in Names, NEW u \in Names
    PROVE  AllBefore(Ix(t) \cup Tb(t), Exposed(u))
  <1>1. Ix(t) \cup Tb(t) \subseteq Built(t)
    BY DEF Built
  <1>2. QED
    BY <1>1, BuiltBeforeProtection, BeforeMono

\* The first downgrade drops what it should, in an order that works.
LEMMA Downgrade1Is == Downs(Downgrade1, Named(1))
  <1> DEFINE t == "tenants"
             u == "audit_log"
             D == Ix(u) \cup Tb(u)
             E == Ix(t) \cup Tb(t)
             l == <<"tenant_status">>
  <1>1. Downgrade1 = ((Expose(u) \o DropTable(u)) \o DropTable(t)) \o DropTypes(l)
    BY DEF Downgrade1
  <1>2. t \in Names /\ u \in Names /\ t # u /\ u # "tenants" /\ u \notin RefsOf(t)
    BY NamesAre, RefsAre
  <1>3. List(l) /\ Tp(t) = {Alone("type", n) : n \in ToSet(l)} /\ Tp(u) = {}
    BY TypesSets DEF Tp, List, Distinct, ToSet
  <1>4. Named(1) = ((Exposed(u) \cup D) \cup E) \cup Tp(t)
    <2>1. Bare(t) = Built(t) /\ Bare(u) = Built(u) \cup Exposed(u)
      BY <1>2, BuiltIs
    <2>2. QED
      BY <1>3, <2>1, NewIs DEF Built
  <1> HIDE DEF t, u, l
  <1>5. Downs(Expose(u), Exposed(u)) /\ Downs(DropTable(u), D) /\ Downs(DropTable(t), E)
    BY <1>2, ExposeIs, DropTableIs
  <1>6. Downs(DropTypes(l), Tp(t))
    BY <1>2, <1>3, DropTypesIs, ThingsOf
  <1>7. AllBefore(D, Exposed(u)) /\ AllBefore(E, Exposed(u)) /\ AllBefore(E, D)
    BY <1>2, TablesBeforeExposed, DownTablesIs
  <1>8. AllBefore(Tp(t), (Exposed(u) \cup D) \cup E)
    BY <1>2, NotTypes, TypesBefore
  <1> HIDE DEF D, E
  <1>9. Downs(Expose(u) \o DropTable(u), Exposed(u) \cup D)
    BY <1>5, <1>7, DownsCat
  <1>10. AllBefore(E, Exposed(u) \cup D)
    BY <1>7, BeforeUnion
  <1>11. Downs((Expose(u) \o DropTable(u)) \o DropTable(t), (Exposed(u) \cup D) \cup E)
    BY <1>5, <1>9, <1>10, DownsCat
  <1>12. QED
    BY <1>1, <1>4, <1>6, <1>8, <1>11, DownsCat

\* The second downgrade drops what it should, in an order that works.
LEMMA Downgrade2Is == Downs(Downgrade2, Named(2))
  <1> DEFINE t == "document_extractions"
             D == Ix(t) \cup Tb(t)
             l == <<"processing_path", "checksum_status", "document_type">>
  <1>1. Downgrade2 = (Expose(t) \o DropTable(t)) \o DropTypes(l)
    BY DEF Downgrade2
  <1>2. t \in Names /\ t # "tenants"
    BY NamesAre
  <1>3. List(l) /\ Tp(t) = {Alone("type", n) : n \in ToSet(l)}
    <2>1. List(l)
      BY DEF List, Distinct
    <2>2. ToSet(l) = ToSet(TypesOf(t))
      BY TypesSets DEF ToSet
    <2>3. QED
      BY <2>1, <2>2 DEF Tp
  <1>4. Named(2) = (Exposed(t) \cup D) \cup Tp(t)
    BY <1>2, NewIs, BuiltIs DEF Built
  <1> HIDE DEF t, l
  <1>5. Downs(Expose(t), Exposed(t)) /\ Downs(DropTable(t), D)
    BY <1>2, ExposeIs, DropTableIs
  <1>6. Downs(DropTypes(l), Tp(t))
    BY <1>2, <1>3, DropTypesIs, ThingsOf
  <1>7. AllBefore(D, Exposed(t))
    BY <1>2, TablesBeforeExposed
  <1>8. AllBefore(Tp(t), Exposed(t) \cup D)
    BY <1>2, NotTypes, TypesBefore
  <1> HIDE DEF D
  <1>9. Downs(Expose(t) \o DropTable(t), Exposed(t) \cup D)
    BY <1>5, <1>7, DownsCat
  <1>10. QED
    BY <1>1, <1>4, <1>6, <1>8, <1>9, DownsCat

\* The third downgrade drops what it should, in an order that works.
LEMMA Downgrade3Is == Downs(Downgrade3, Named(3))
  <1> DEFINE p == "persons"
             i == "person_identifiers"
             v == "person_name_variants"
             m == "match_decisions"
             D(t) == Ix(t) \cup Tb(t)
             X == ((Exposed(m) \cup Exposed(v)) \cup Exposed(i)) \cup Exposed(p)
             Y == ((D(m) \cup D(v)) \cup D(i)) \cup D(p)
             Z == ((Tp(m) \cup Tp(v)) \cup Tp(i)) \cup Tp(p)
             R == Reverse(Tables3)
             f == FlattenSeq([j \in DOMAIN R |-> Expose(R[j])])
             g == FlattenSeq([j \in DOMAIN R |-> DropTable(R[j])])
  <1>1. /\ p \in Names /\ i \in Names /\ v \in Names /\ m \in Names
        /\ p # i /\ p # v /\ p # m /\ i # v /\ i # m /\ v # m
        /\ p # "tenants" /\ i # "tenants" /\ v # "tenants" /\ m # "tenants"
    BY NamesAre
  <1>2. /\ i \notin RefsOf(p) /\ v \notin RefsOf(p) /\ m \notin RefsOf(p)
        /\ v \notin RefsOf(i) /\ m \notin RefsOf(i) /\ m \notin RefsOf(v)
    BY RefsAre
  <1>3. Named(3) = (X \cup Y) \cup Z
    <2>1. /\ Bare(p) = Built(p) \cup Exposed(p) /\ Bare(i) = Built(i) \cup Exposed(i)
          /\ Bare(v) = Built(v) \cup Exposed(v) /\ Bare(m) = Built(m) \cup Exposed(m)
      BY <1>1, BuiltIs
    <2>2. QED
      BY <2>1, NewIs DEF Built
  <1>4. R = <<m, v, i, p>>
    BY DEF Tables3, Reverse
  <1>5. Downgrade3 = (f \o g) \o DropTypes(Types3)
    BY DEF Downgrade3, Each
  <1>6. List(Types3) /\ Z = {Alone("type", n) : n \in ToSet(Types3)}
    <2>1. List(Types3)
      BY DEF Types3, List, Distinct
    <2>2. ToSet(Types3) = ((ToSet(TypesOf(m)) \cup ToSet(TypesOf(v))) \cup ToSet(TypesOf(i)))
                          \cup ToSet(TypesOf(p))
      BY TypesSets DEF Types3, ToSet
    <2>3. QED
      BY <2>2, <2>1 DEF Tp
  <1> HIDE DEF p, i, v, m, R
  <1>7. Downs(f, X)
    <2>1. f = FlattenSeq(<<Expose(m), Expose(v), Expose(i), Expose(p)>>)
      BY <1>4
    <2>2. /\ AllBefore(Exposed(v), Exposed(m)) /\ AllBefore(Exposed(i), Exposed(m))
          /\ AllBefore(Exposed(p), Exposed(m)) /\ AllBefore(Exposed(i), Exposed(v))
          /\ AllBefore(Exposed(p), Exposed(v)) /\ AllBefore(Exposed(p), Exposed(i))
      BY <1>1, ProtectionBeforeProtection
    <2>3. /\ Downs(Expose(m), Exposed(m)) /\ Downs(Expose(v), Exposed(v))
          /\ Downs(Expose(i), Exposed(i)) /\ Downs(Expose(p), Exposed(p))
      BY <1>1, ExposeIs
    <2> HIDE DEF f
    <2>4. QED
      BY <2>1, <2>2, <2>3, DownsFour
  <1>8. Downs(g, Y)
    <2>1. g = FlattenSeq(<<DropTable(m), DropTable(v), DropTable(i), DropTable(p)>>)
      BY <1>4
    <2>2. /\ AllBefore(D(v), D(m)) /\ AllBefore(D(i), D(m)) /\ AllBefore(D(p), D(m))
          /\ AllBefore(D(i), D(v)) /\ AllBefore(D(p), D(v)) /\ AllBefore(D(p), D(i))
      BY <1>1, <1>2, DownTablesIs
    <2>3. /\ Downs(DropTable(m), D(m)) /\ Downs(DropTable(v), D(v))
          /\ Downs(DropTable(i), D(i)) /\ Downs(DropTable(p), D(p))
      BY <1>1, DropTableIs
    <2> HIDE DEF f, g, D
    <2>4. QED
      BY <2>1, <2>2, <2>3, DownsFour
  <1>9. AllBefore(Y, X)
    <2>1. ASSUME NEW t \in Names PROVE AllBefore(D(t), X)
      BY <1>1, <2>1, TablesBeforeExposed, BeforeUnion
    <2> HIDE DEF D, X
    <2>2. QED
      BY <1>1, <2>1, BeforeUnion
  <1>10. Downs(DropTypes(Types3), Z)
    <2>1. Z \subseteq Things
      BY <1>1, ThingsOf
    <2>2. QED
      BY <1>6, <2>1, DropTypesIs
  <1>11. AllBefore(Z, X \cup Y)
    <2>1. Z \subseteq UNION {Tp(t) : t \in Names}
      BY <1>1
    <2>2. \A y \in X \cup Y : y.kind # "type"
      BY NotTypes
    <2>3. QED
      BY <2>1, <2>2, TypesBefore
  <1> HIDE DEF f, g, X, Y, Z
  <1>12. Downs(f \o g, X \cup Y)
    BY <1>7, <1>8, <1>9, DownsCat
  <1>13. QED
    BY <1>3, <1>5, <1>10, <1>11, <1>12, DownsCat

-----------------------------------------------------------------------------
(* The three revisions.                                                    *)

\* The statements of each revision, upwards and downwards.
UpBody == <<Upgrade1, Upgrade2, Upgrade3>>
DownBody == <<Downgrade1, Downgrade2, Downgrade3>>

\* The upgrade of a revision makes the revision's objects.
LEMMA UpBodyIs == ASSUME NEW k \in 1..3 PROVE Ups(UpBody[k], Made(k))
  <1>1. k = 1 \/ k = 2 \/ k = 3
    OBVIOUS
  <1>2. UpBody[1] = Upgrade1 /\ UpBody[2] = Upgrade2 /\ UpBody[3] = Upgrade3
    BY DEF UpBody
  <1>3. Made(1) = New(1) /\ Made(2) = New(2) /\ Made(3) = New(3) \cup Exts
    BY DEF Made
  <1>4. QED
    BY <1>1, <1>2, <1>3, Upgrade1Is, Upgrade2Is, Upgrade3Is

\* The downgrade of a revision names all it must, but for the forced protection.
LEMMA DownBodyIs == ASSUME NEW k \in 1..3 PROVE Downs(DownBody[k], Named(k))
  <1>1. k = 1 \/ k = 2 \/ k = 3
    OBVIOUS
  <1>2. DownBody[1] = Downgrade1 /\ DownBody[2] = Downgrade2 /\ DownBody[3] = Downgrade3
    BY DEF DownBody
  <1>3. QED
    BY <1>1, <1>2, Downgrade1Is, Downgrade2Is, Downgrade3Is

\* Each table is of one revision.
LEMMA TablesOfNames ==
    /\ \A k \in 1..3 : TablesOf(k) \subseteq Names
    /\ \A j, k \in 1..3 : j # k => TablesOf(j) \cap TablesOf(k) = {}
    /\ Names = UNION {TablesOf(k) : k \in 1..3}
  <1>1. \A k \in 1..3 : k = 1 \/ k = 2 \/ k = 3
    OBVIOUS
  <1>2. /\ TablesOf(1) = {"tenants", "audit_log"} /\ TablesOf(2) = {"document_extractions"}
        /\ TablesOf(3) = {"persons", "person_identifiers", "person_name_variants",
                          "match_decisions"}
    BY DEF TablesOf
  <1>3. 1 \in 1..3 /\ 2 \in 1..3 /\ 3 \in 1..3
    OBVIOUS
  <1>4. Names \subseteq UNION {TablesOf(k) : k \in 1..3}
    BY <1>2, <1>3 DEF Names
  <1>5. \A k \in 1..3 : TablesOf(k) \subseteq Names
    BY <1>1, <1>2 DEF Names
  <1>6. \A j, k \in 1..3 : j # k => TablesOf(j) \cap TablesOf(k) = {}
    BY <1>1, <1>2
  <1>7. QED
    BY <1>4, <1>5, <1>6

\* Everything is of one revision.
LEMMA NewApart ==
    /\ \A j, k \in 1..3 : j # k => New(j) \cap New(k) = {} /\ Made(j) \cap Made(k) = {}
    /\ \A k \in 1..3 : New(k) \cap Exts = {} /\ New(k) \subseteq Made(k)
    /\ Things = (UNION {New(k) : k \in 1..3}) \cup Exts
    /\ Things = UNION {Made(k) : k \in 1..3}
  <1>1. \A k \in 1..3 : \A x \in New(k) : \E t \in TablesOf(k) : x \in ObjectsOf(t)
    BY DEF New
  <1>2. ASSUME NEW j \in 1..3, NEW k \in 1..3, j # k PROVE New(j) \cap New(k) = {}
    BY <1>1, <1>2, TablesOfNames, OneOwner
  <1>3. \A k \in 1..3 : New(k) \cap Exts = {}
    BY <1>1, ExtsApart
  <1>4. \A j, k \in 1..3 : j # k => Made(j) \cap Made(k) = {}
    BY <1>2, <1>3 DEF Made
  <1>5. \A k \in 1..3 : New(k) \subseteq Made(k) /\ Made(k) \subseteq New(k) \cup Exts
    BY DEF Made
  <1>6. Things = (UNION {New(k) : k \in 1..3}) \cup Exts
    <2>1. UNION {ObjectsOf(t) : t \in Names} = UNION {New(k) : k \in 1..3}
      BY TablesOfNames DEF New
    <2>2. QED
      BY <2>1 DEF Things
  <1>7. Exts \subseteq UNION {Made(k) : k \in 1..3}
    <2>1. 3 \in 1..3 /\ Exts \subseteq Made(3)
      BY DEF Made
    <2>2. QED
      BY <2>1
  <1>8. QED
    BY <1>2, <1>3, <1>4, <1>5, <1>6, <1>7

\* A revision builds on those before it.
LEMMA MadeUses ==
    ASSUME NEW k \in 1..3, NEW x \in Made(k)
    PROVE  Uses(x) \subseteq UNION {Made(j) : j \in 1..k} /\ x \notin Uses(x)
  <1>1. CASE x \in Exts
    BY <1>1, ExtsUseNothing
  <1>2. CASE x \in New(k)
    <2>1. PICK t \in TablesOf(k) : x \in ObjectsOf(t)
      BY <1>2 DEF New
    <2>2. t \in Names
      BY TablesOfNames
    <2>3. /\ Uses(x) \subseteq ObjectsOf(t) \cup (UNION {Tb(r) : r \in RefsOf(t)}) \cup Exts
          /\ x \notin Uses(x)
      BY <2>1, <2>2, ObjectsUse
    <2>4. k \in 1..k /\ ObjectsOf(t) \subseteq Made(k)
      BY <2>1 DEF Made, New
    <2>5. ASSUME NEW r \in RefsOf(t) PROVE \E j \in 1..k : Tb(r) \subseteq Made(j)
      <3>1. \E j \in 1..k : r \in TablesOf(j)
        BY <2>1, RefsAre DEF TablesOf
      <3>2. PICK j \in 1..k : r \in TablesOf(j)
        BY <3>1
      <3>3. r \in Names /\ ObjectsOf(r) \subseteq New(j)
        BY <3>2, TablesOfNames DEF New
      <3>4. Tb(r) \subseteq ObjectsOf(r)
        BY ObjectsOfIs
      <3>5. QED
        BY <3>3, <3>4 DEF Made
    <2>6. Uses(x) \cap Exts \subseteq UNION {Made(j) : j \in 1..k}
      <3>1. CASE k = 3
        BY <2>4, <3>1 DEF Made
      <3>2. CASE k # 3
        <4>1. ToSet(IndexesOf(t)) \cap GinIndexes = {}
          <5>1. t \in {"tenants", "audit_log", "document_extractions"}
            BY <2>1, <3>2 DEF TablesOf
          <5>2. QED
            BY <5>1 DEF IndexesOf, GinIndexes, ToSet
        <4>2. x \in Ix(t) => x.name \notin GinIndexes
          BY <4>1 DEF Ix, Obj
        <4>3. Uses(x) \cap Exts = {}
          <5>1. Tb(t) \cap Exts = {} /\ Tp(t) \cap Exts = {}
                /\ \A r \in RefsOf(t) : Tb(r) \cap Exts = {}
            BY TableFields, TypeFields, ExtFields
          <5>2. CASE x \in Tp(t)
            BY <2>2, <5>2, TypesUseNothing
          <5>3. CASE x \in Tb(t)
            BY <2>2, <5>1, <5>3, TableUses DEF Tb
          <5>4. CASE x \in Ix(t)
            BY <2>2, <4>2, <5>1, <5>4, IndexUses
          <5>5. CASE x \in Pr(t)
            BY <2>2, <5>1, <5>5, ProtectionUses
          <5>6. QED
            BY <2>1, <5>2, <5>3, <5>4, <5>5, ObjectsKinds
        <4>4. QED
          BY <4>3
      <3>3. QED
        BY <3>1, <3>2
    <2>7. QED
      BY <2>3, <2>4, <2>5, <2>6
  <1>3. QED
    BY <1>1, <1>2 DEF Made

\* What the statements that are left remove: dropping a table ends its forced
\* protection.
Left(W) == W \cup {f \in Things : f.kind = "forced" /\ Alone("table", f.on) \in W}

\* Forced protection is of a table of tenants' data.
LEMMA ForcedIs ==
    ASSUME NEW f \in Things, f.kind = "forced"
    PROVE  /\ f.on \in Names /\ f.on # "tenants" /\ f \in ObjectsOf(f.on)
           /\ Alone("table", f.on) \in ObjectsOf(f.on)
  <1>1. f \notin Exts
    BY ExtFields
  <1>2. PICK t \in Names : f \in ObjectsOf(t)
    BY <1>1 DEF Things
  <1>3. f \in Pr(t)
    BY <1>2, ObjectsKinds
  <1>4. f.on = t
    BY <1>3, ProtectionFields
  <1>5. t # "tenants"
    <2>1. f \notin Built(t)
      BY BuiltIs
    <2>2. QED
      BY <1>2, <2>1, BuiltIs
  <1>6. Alone("table", t) \in ObjectsOf(t)
    BY ObjectsOfIs DEF Tb
  <1>7. QED
    BY <1>2, <1>4, <1>5, <1>6

\* A downgrade removes all that its upgrade added to the schema.
LEMMA LeftNamed == ASSUME NEW k \in 1..3 PROVE Left(Named(k)) = New(k)
  <1>1. \A x \in Named(k) : x \in New(k) /\ x.kind # "forced"
    BY DEF Named, New, Bare
  <1>2. ASSUME NEW x \in New(k), x.kind # "forced" PROVE x \in Named(k)
    BY <1>2 DEF Named, New, Bare
  <1>3. ASSUME NEW f \in Things, f.kind = "forced", Alone("table", f.on) \in Named(k)
        PROVE  f \in New(k)
    <2>1. /\ f.on \in Names /\ f \in ObjectsOf(f.on) /\ Alone("table", f.on) \in ObjectsOf(f.on)
      BY <1>3, ForcedIs
    <2>2. PICK u \in TablesOf(k) : Alone("table", f.on) \in ObjectsOf(u)
      BY <1>1, <1>3 DEF New
    <2>3. u = f.on
      BY <2>1, <2>2, OneOwner, TablesOfNames
    <2>4. QED
      BY <2>1, <2>2, <2>3 DEF New
  <1>4. ASSUME NEW f \in New(k), f.kind = "forced"
        PROVE  f \in Things /\ Alone("table", f.on) \in Named(k)
    <2>1. f \in Things
      BY NewApart
    <2>2. /\ f.on \in Names /\ f \in ObjectsOf(f.on) /\ Alone("table", f.on) \in ObjectsOf(f.on)
      BY <1>4, <2>1, ForcedIs
    <2>3. PICK u \in TablesOf(k) : f \in ObjectsOf(u)
      BY DEF New
    <2>4. u = f.on
      BY <2>2, <2>3, OneOwner, TablesOfNames
    <2>5. Alone("table", f.on).kind = "table"
      BY DEF Alone, Obj
    <2>6. QED
      BY <1>2, <2>1, <2>2, <2>4, <2>5 DEF New
  <1>5. QED
    BY <1>1, <1>2, <1>3, <1>4 DEF Left

-----------------------------------------------------------------------------
(* Scripts.                                                                *)

\* The statements of the scripts.
Versions == [do : {"version"}, from : 0..3, to : 0..3]
Statements == Creates \cup Drops \cup Versions

\* Nothing before a list, or after it.
LEMMA CatEmpty == ASSUME NEW S, NEW a \in Seq(S) PROVE << >> \o a = a /\ a \o << >> = a
  OBVIOUS

\* The first statement of two lists is that of the first.
LEMMA CatHead ==
    ASSUME NEW S, NEW a \in Seq(S), NEW b \in Seq(S), a # << >>
    PROVE  /\ a \o b # << >> /\ Head(a \o b) = Head(a) /\ Tail(a \o b) = Tail(a) \o b
           /\ Head(a) \in S /\ Tail(a) \in Seq(S)
  OBVIOUS

\* The statements after those of the current revision.
After(c, t) == IF c = t THEN << >>
               ELSE IF c < t THEN <<Version(c, c + 1)>> \o Script(c + 1, t)
               ELSE <<Version(c, c - 1)>> \o Script(c - 1, t)

\* A stretch of a sequence.
LEMMA SubFields ==
    ASSUME NEW S, NEW s \in Seq(S), NEW m \in 1..Len(s), NEW n \in m..Len(s)
    PROVE  /\ SubSeq(s, m, n) \in Seq(S) /\ Len(SubSeq(s, m, n)) = n - m + 1
           /\ \A i \in 1..n - m + 1 : SubSeq(s, m, n)[i] = s[i + m - 1]
  OBVIOUS

\* The stretches of a sequence of three.
LEMMA Sub3 ==
    ASSUME NEW x, NEW y, NEW z
    PROVE  /\ SubSeq(<<x, y, z>>, 1, 1) = <<x>> /\ SubSeq(<<x, y, z>>, 2, 2) = <<y>>
           /\ SubSeq(<<x, y, z>>, 3, 3) = <<z>>
           /\ SubSeq(<<x, y, z>>, 1, 2) = <<x, y>> /\ SubSeq(<<x, y, z>>, 2, 3) = <<y, z>>
           /\ SubSeq(<<x, y, z>>, 1, 3) = <<x, y, z>>
           /\ \A i \in 0..3 : SubSeq(<<x, y, z>>, i + 1, i) = << >>
  <1> DEFINE s == <<x, y, z>>
             S == {x, y, z}
  <1>1. s \in Seq(S) /\ Len(s) = 3 /\ s[1] = x /\ s[2] = y /\ s[3] = z
    OBVIOUS
  <1> HIDE DEF s, S
  <1>2. ASSUME NEW i \in 1..3 PROVE SubSeq(s, i, i) = <<s[i]>>
    <2> DEFINE q == SubSeq(s, i, i)
    <2>1. q \in Seq(S) /\ Len(q) = 1 /\ q[1] = s[i]
      <3>1. i \in 1..Len(s) /\ i \in i..Len(s) /\ i - i + 1 = 1 /\ 1 + i - 1 = i
        BY <1>1
      <3>2. /\ q \in Seq(S) /\ Len(q) = i - i + 1
            /\ \A j \in 1..i - i + 1 : q[j] = s[j + i - 1]
        BY <1>1, <3>1, SubFields
      <3> HIDE DEF q
      <3>3. 1 \in 1..i - i + 1
        BY <3>1
      <3>4. q[1] = s[1 + i - 1]
        BY <3>2, <3>3
      <3>5. QED
        BY <3>1, <3>2, <3>4
    <2> HIDE DEF q
    <2>2. q = <<q[1]>>
      BY <2>1
    <2>3. QED
      BY <2>1, <2>2 DEF q
  <1>3. ASSUME NEW i \in 1..2 PROVE SubSeq(s, i, i + 1) = <<s[i], s[i + 1]>>
    <2> DEFINE q == SubSeq(s, i, i + 1)
    <2>1. q \in Seq(S) /\ Len(q) = 2 /\ q[1] = s[i] /\ q[2] = s[i + 1]
      BY <1>1, SubFields
    <2> HIDE DEF q
    <2>2. q = <<q[1], q[2]>>
      BY <2>1
    <2>3. QED
      BY <2>1, <2>2 DEF q
  <1>4. SubSeq(s, 1, 3) = <<s[1], s[2], s[3]>>
    <2> DEFINE q == SubSeq(s, 1, 3)
    <2>1. q \in Seq(S) /\ Len(q) = 3 /\ q[1] = s[1] /\ q[2] = s[2] /\ q[3] = s[3]
      <3>1. 1 \in 1..Len(s) /\ 3 \in 1..Len(s)
        BY <1>1
      <3>2. /\ q \in Seq(S) /\ Len(q) = 3 - 1 + 1
            /\ \A j \in 1..3 - 1 + 1 : q[j] = s[j + 1 - 1]
        BY <1>1, <3>1, SubFields
      <3> HIDE DEF q
      <3>3. QED
        BY <3>2
    <2> HIDE DEF q
    <2>2. q = <<q[1], q[2], q[3]>>
      BY <2>1
    <2>3. QED
      BY <2>1, <2>2 DEF q
  <1>5. \A i \in 0..3 : SubSeq(s, i + 1, i) = << >>
    BY <1>1
  <1>6. SubSeq(s, 1, 1) = <<x>> /\ SubSeq(s, 2, 2) = <<y>> /\ SubSeq(s, 3, 3) = <<z>>
    BY <1>1, <1>2
  <1>7. SubSeq(s, 1, 2) = <<x, y>> /\ SubSeq(s, 2, 3) = <<y, z>>
    <2>1. 1 + 1 = 2 /\ 2 + 1 = 3
      OBVIOUS
    <2>2. QED
      BY <1>1, <1>3, <2>1
  <1>8. SubSeq(s, 1, 3) = <<x, y, z>>
    BY <1>1, <1>4
  <1>9. QED
    BY <1>5, <1>6, <1>7, <1>8 DEF s

\* Three revisions, as their statements from one to another.
Three(x, y, z) == <<x, y, z>>

\* The lists from one of three revisions to another, upwards and downwards.
UpOf(s, x, y, z) ==
    /\ FlattenSeq(SubSeq(s, 1, 1)) = x /\ FlattenSeq(SubSeq(s, 2, 2)) = y
    /\ FlattenSeq(SubSeq(s, 3, 3)) = z
    /\ FlattenSeq(SubSeq(s, 1, 2)) = x \o y /\ FlattenSeq(SubSeq(s, 2, 3)) = y \o z
    /\ FlattenSeq(SubSeq(s, 1, 3)) = (x \o y) \o z
    /\ \A i \in 0..3 : FlattenSeq(SubSeq(s, i + 1, i)) = << >>

DownOf(s, x, y, z) ==
    /\ FlattenSeq(Reverse(SubSeq(s, 1, 1))) = x /\ FlattenSeq(Reverse(SubSeq(s, 2, 2))) = y
    /\ FlattenSeq(Reverse(SubSeq(s, 3, 3))) = z
    /\ FlattenSeq(Reverse(SubSeq(s, 1, 2))) = y \o x
    /\ FlattenSeq(Reverse(SubSeq(s, 2, 3))) = z \o y
    /\ FlattenSeq(Reverse(SubSeq(s, 1, 3))) = (z \o y) \o x

\* Three revisions upwards, from one to another.
LEMMA FlattenThreeUp ==
    ASSUME NEW x, NEW y, NEW z PROVE UpOf(Three(x, y, z), x, y, z)
  <1> DEFINE s == Three(x, y, z)
  <1>1. FlattenSeq(<<x>>) = x /\ FlattenSeq(<<y>>) = y /\ FlattenSeq(<<z>>) = z
    BY FlattenOne
  <1>2. FlattenSeq(<<x, y>>) = x \o y
    BY FlattenTwo
  <1>3. FlattenSeq(<<y, z>>) = y \o z
    BY FlattenTwo
  <1>4. FlattenSeq(<<x, y, z>>) = (x \o y) \o z
    <2> DEFINE G(a, b, c) == (a \o b) \o c
    <2>1. \A a, b, c : FlattenSeq(Three(a, b, c)) = G(a, b, c)
      BY FlattenThree DEF Three
    <2> HIDE DEF G
    <2>2. FlattenSeq(Three(x, y, z)) = G(x, y, z)
      BY <2>1
    <2>3. QED
      BY <2>2 DEF G, Three
  <1>5. /\ SubSeq(s, 1, 1) = <<x>> /\ SubSeq(s, 2, 2) = <<y>> /\ SubSeq(s, 3, 3) = <<z>>
        /\ SubSeq(s, 1, 2) = <<x, y>> /\ SubSeq(s, 2, 3) = <<y, z>>
        /\ SubSeq(s, 1, 3) = <<x, y, z>>
        /\ \A i \in 0..3 : SubSeq(s, i + 1, i) = << >>
    BY Sub3 DEF Three
  <1> HIDE DEF s
  <1>6. \A i \in 0..3 : FlattenSeq(SubSeq(s, i + 1, i)) = << >>
    BY <1>5, FlattenEmpty
  <1>7. /\ FlattenSeq(SubSeq(s, 1, 1)) = x /\ FlattenSeq(SubSeq(s, 2, 2)) = y
        /\ FlattenSeq(SubSeq(s, 3, 3)) = z
    BY <1>1, <1>5
  <1>8. FlattenSeq(SubSeq(s, 1, 2)) = x \o y /\ FlattenSeq(SubSeq(s, 2, 3)) = y \o z
    BY <1>2, <1>3, <1>5
  <1>9. FlattenSeq(SubSeq(s, 1, 3)) = (x \o y) \o z
    BY <1>4, <1>5
  <1>10. QED
    BY <1>6, <1>7, <1>8, <1>9 DEF s, UpOf

\* Three revisions downwards, from one to another.
LEMMA FlattenThreeDown ==
    ASSUME NEW x, NEW y, NEW z PROVE DownOf(Three(x, y, z), x, y, z)
  <1> DEFINE s == Three(x, y, z)
  <1>1. FlattenSeq(<<x>>) = x /\ FlattenSeq(<<y>>) = y /\ FlattenSeq(<<z>>) = z
    BY FlattenOne
  <1>2. FlattenSeq(<<y, x>>) = y \o x
    BY FlattenTwo
  <1>3. FlattenSeq(<<z, y>>) = z \o y
    BY FlattenTwo
  <1>4. FlattenSeq(<<z, y, x>>) = (z \o y) \o x
    <2> DEFINE G(a, b, c) == (a \o b) \o c
    <2>1. \A a, b, c : FlattenSeq(Three(a, b, c)) = G(a, b, c)
      BY FlattenThree DEF Three
    <2> HIDE DEF G
    <2>2. FlattenSeq(Three(z, y, x)) = G(z, y, x)
      BY <2>1
    <2>3. QED
      BY <2>2 DEF G, Three
  <1>5. /\ SubSeq(s, 1, 1) = <<x>> /\ SubSeq(s, 2, 2) = <<y>> /\ SubSeq(s, 3, 3) = <<z>>
        /\ SubSeq(s, 1, 2) = <<x, y>> /\ SubSeq(s, 2, 3) = <<y, z>>
        /\ SubSeq(s, 1, 3) = <<x, y, z>>
    BY Sub3 DEF Three
  <1> HIDE DEF s
  <1>6. Reverse(<<x>>) = <<x>> /\ Reverse(<<y>>) = <<y>> /\ Reverse(<<z>>) = <<z>>
    BY DEF Reverse
  <1>7. Reverse(<<x, y>>) = <<y, x>> /\ Reverse(<<y, z>>) = <<z, y>>
    BY DEF Reverse
  <1>8. Reverse(<<x, y, z>>) = <<z, y, x>>
    BY DEF Reverse
  <1>9. /\ FlattenSeq(Reverse(SubSeq(s, 1, 1))) = x /\ FlattenSeq(Reverse(SubSeq(s, 2, 2))) = y
        /\ FlattenSeq(Reverse(SubSeq(s, 3, 3))) = z
    BY <1>1, <1>5, <1>6
  <1>10. /\ FlattenSeq(Reverse(SubSeq(s, 1, 2))) = y \o x
         /\ FlattenSeq(Reverse(SubSeq(s, 2, 3))) = z \o y
    BY <1>2, <1>3, <1>5, <1>7
  <1>11. FlattenSeq(Reverse(SubSeq(s, 1, 3))) = (z \o y) \o x
    BY <1>4, <1>5, <1>8
  <1>12. QED
    BY <1>9, <1>10, <1>11 DEF s, DownOf

\* Each revision with its version.
Up1 == Upgrade1 \o <<Version(0, 1)>>
Up2 == Upgrade2 \o <<Version(1, 2)>>
Up3 == Upgrade3 \o <<Version(2, 3)>>
Down1 == Downgrade1 \o <<Version(1, 0)>>
Down2 == Downgrade2 \o <<Version(2, 1)>>
Down3 == Downgrade3 \o <<Version(3, 2)>>

\* The statements from any revision to any other.
LEMMA ScriptsAre ==
    /\ \A c \in 0..3 : Script(c, c) = << >>
    /\ Script(0, 1) = Up1 /\ Script(1, 2) = Up2 /\ Script(2, 3) = Up3
    /\ Script(0, 2) = Up1 \o Up2 /\ Script(1, 3) = Up2 \o Up3
    /\ Script(0, 3) = (Up1 \o Up2) \o Up3
    /\ Script(1, 0) = Down1 /\ Script(2, 1) = Down2 /\ Script(3, 2) = Down3
    /\ Script(2, 0) = Down2 \o Down1 /\ Script(3, 1) = Down3 \o Down2
    /\ Script(3, 0) = (Down3 \o Down2) \o Down1
  <1>1. Up = Three(Up1, Up2, Up3)
    BY DEF Up, Up1, Up2, Up3, Three
  <1>2. Down = Three(Down1, Down2, Down3)
    BY DEF Down, Down1, Down2, Down3, Three
  <1>3. /\ \A c \in 0..3 : Script(c, c) = FlattenSeq(SubSeq(Up, c + 1, c))
        /\ Script(0, 1) = FlattenSeq(SubSeq(Up, 1, 1))
        /\ Script(1, 2) = FlattenSeq(SubSeq(Up, 2, 2))
        /\ Script(2, 3) = FlattenSeq(SubSeq(Up, 3, 3))
        /\ Script(0, 2) = FlattenSeq(SubSeq(Up, 1, 2))
        /\ Script(1, 3) = FlattenSeq(SubSeq(Up, 2, 3))
        /\ Script(0, 3) = FlattenSeq(SubSeq(Up, 1, 3))
    BY DEF Script
  <1>4. /\ Script(1, 0) = FlattenSeq(Reverse(SubSeq(Down, 1, 1)))
        /\ Script(2, 1) = FlattenSeq(Reverse(SubSeq(Down, 2, 2)))
        /\ Script(3, 2) = FlattenSeq(Reverse(SubSeq(Down, 3, 3)))
        /\ Script(2, 0) = FlattenSeq(Reverse(SubSeq(Down, 1, 2)))
        /\ Script(3, 1) = FlattenSeq(Reverse(SubSeq(Down, 2, 3)))
        /\ Script(3, 0) = FlattenSeq(Reverse(SubSeq(Down, 1, 3)))
    BY DEF Script
  <1>5. /\ FlattenSeq(SubSeq(Up, 1, 1)) = Up1 /\ FlattenSeq(SubSeq(Up, 2, 2)) = Up2
        /\ FlattenSeq(SubSeq(Up, 3, 3)) = Up3
        /\ FlattenSeq(SubSeq(Up, 1, 2)) = Up1 \o Up2
        /\ FlattenSeq(SubSeq(Up, 2, 3)) = Up2 \o Up3
        /\ FlattenSeq(SubSeq(Up, 1, 3)) = (Up1 \o Up2) \o Up3
        /\ \A i \in 0..3 : FlattenSeq(SubSeq(Up, i + 1, i)) = << >>
    <2>1. UpOf(Up, Up1, Up2, Up3)
      BY <1>1, FlattenThreeUp
    <2>2. QED
      BY <2>1 DEF UpOf
  <1>6. /\ FlattenSeq(Reverse(SubSeq(Down, 1, 1))) = Down1
        /\ FlattenSeq(Reverse(SubSeq(Down, 2, 2))) = Down2
        /\ FlattenSeq(Reverse(SubSeq(Down, 3, 3))) = Down3
        /\ FlattenSeq(Reverse(SubSeq(Down, 1, 2))) = Down2 \o Down1
        /\ FlattenSeq(Reverse(SubSeq(Down, 2, 3))) = Down3 \o Down2
        /\ FlattenSeq(Reverse(SubSeq(Down, 1, 3))) = (Down3 \o Down2) \o Down1
    <2>1. DownOf(Down, Down1, Down2, Down3)
      BY <1>2, FlattenThreeDown
    <2>2. QED
      BY <2>1 DEF DownOf
  <1>7. QED
    BY <1>3, <1>4, <1>5, <1>6

\* The statement that sets the version.
LEMMA VersionIs ==
    ASSUME NEW a \in 0..3, NEW b \in 0..3
    PROVE  /\ Version(a, b) \in Statements /\ <<Version(a, b)>> \in Seq(Statements)
           /\ <<Version(a, b)>> # << >> /\ Head(<<Version(a, b)>>) = Version(a, b)
           /\ Tail(<<Version(a, b)>>) = << >>
  <1>1. Version(a, b) \in Statements
    BY DEF Version, Versions, Statements
  <1>2. QED
    BY <1>1

\* The revisions are sequences of statements.
LEMMA BodiesAreSeqs ==
    ASSUME NEW k \in 1..3
    PROVE  UpBody[k] \in Seq(Statements) /\ DownBody[k] \in Seq(Statements)
  <1>1. UpBody[k] \in Seq(Creates) /\ DownBody[k] \in Seq(Drops)
    BY UpBodyIs, DownBodyIs DEF Ups, Downs
  <1>2. Creates \subseteq Statements /\ Drops \subseteq Statements
    BY DEF Statements
  <1>3. QED
    BY <1>1, <1>2

\* A body, its version and the rest.
LEMMA BodyCat ==
    ASSUME NEW S, NEW b \in Seq(S), NEW v \in Seq(S), NEW u, u = b \o v, NEW r \in Seq(S)
    PROVE  u \in Seq(S) /\ u \o r = b \o (v \o r) /\ u \o << >> = u
  <1>1. u \in Seq(S)
    OBVIOUS
  <1>2. (b \o v) \o r = b \o (v \o r)
    OBVIOUS
  <1>3. u \o << >> = u
    BY <1>1
  <1>4. QED
    BY <1>1, <1>2, <1>3

\* A revision with its version, and what follows.
LEMMA StepsAre ==
    /\ Up1 \in Seq(Statements) /\ Up2 \in Seq(Statements) /\ Up3 \in Seq(Statements)
    /\ Down1 \in Seq(Statements) /\ Down2 \in Seq(Statements) /\ Down3 \in Seq(Statements)
    /\ \A r \in Seq(Statements) :
         /\ Up1 \o r = UpBody[1] \o (<<Version(0, 1)>> \o r) /\ Up1 \o << >> = Up1
         /\ Up2 \o r = UpBody[2] \o (<<Version(1, 2)>> \o r) /\ Up2 \o << >> = Up2
         /\ Up3 \o r = UpBody[3] \o (<<Version(2, 3)>> \o r) /\ Up3 \o << >> = Up3
         /\ Down1 \o r = DownBody[1] \o (<<Version(1, 0)>> \o r) /\ Down1 \o << >> = Down1
         /\ Down2 \o r = DownBody[2] \o (<<Version(2, 1)>> \o r) /\ Down2 \o << >> = Down2
         /\ Down3 \o r = DownBody[3] \o (<<Version(3, 2)>> \o r) /\ Down3 \o << >> = Down3
  <1> DEFINE StepIs(u, b, v) == /\ u \in Seq(Statements)
                                /\ \A r \in Seq(Statements) : /\ u \o r = b \o (v \o r)
                                                              /\ u \o << >> = u
  <1>1. ASSUME NEW b \in Seq(Statements), NEW v \in Seq(Statements) PROVE StepIs(b \o v, b, v)
    BY BodyCat
  <1>2. /\ UpBody[1] = Upgrade1 /\ UpBody[2] = Upgrade2 /\ UpBody[3] = Upgrade3
        /\ DownBody[1] = Downgrade1 /\ DownBody[2] = Downgrade2 /\ DownBody[3] = Downgrade3
    BY DEF UpBody, DownBody
  <1>3. \A k \in {1, 2, 3} : UpBody[k] \in Seq(Statements) /\ DownBody[k] \in Seq(Statements)
    BY BodiesAreSeqs
  <1>4. \A a, b \in {0, 1, 2, 3} : <<Version(a, b)>> \in Seq(Statements)
    BY VersionIs
  <1> HIDE DEF StepIs
  <1>5. /\ StepIs(Up1, UpBody[1], <<Version(0, 1)>>) /\ StepIs(Up2, UpBody[2], <<Version(1, 2)>>)
        /\ StepIs(Up3, UpBody[3], <<Version(2, 3)>>)
    BY <1>1, <1>2, <1>3, <1>4 DEF Up1, Up2, Up3
  <1>6. /\ StepIs(Down1, DownBody[1], <<Version(1, 0)>>)
        /\ StepIs(Down2, DownBody[2], <<Version(2, 1)>>)
        /\ StepIs(Down3, DownBody[3], <<Version(3, 2)>>)
    BY <1>1, <1>2, <1>3, <1>4 DEF Down1, Down2, Down3
  <1>7. QED
    BY <1>5, <1>6 DEF StepIs

\* An upgrade is one revision, its version and the rest of the upgrade.
LEMMA ScriptUpIs ==
    ASSUME NEW c \in 0..3, NEW t \in 0..3, c < t
    PROVE  /\ Script(c, t) \in Seq(Statements)
           /\ Script(c, t) = UpBody[c + 1] \o (<<Version(c, c + 1)>> \o Script(c + 1, t))
  <1> DEFINE P(i, j) == /\ Script(i, j) \in Seq(Statements)
                        /\ Script(i, j) = UpBody[i + 1] \o (<<Version(i, i + 1)>> \o Script(i + 1, j))
  <1>1. << >> \in Seq(Statements) /\ \A i \in 0..3 : Script(i, i) = << >>
    BY ScriptsAre
  <1>2. (Up1 \o Up2) \o Up3 = Up1 \o (Up2 \o Up3) /\ Up1 \o Up2 \in Seq(Statements)
        /\ Up2 \o Up3 \in Seq(Statements) /\ Up1 \o (Up2 \o Up3) \in Seq(Statements)
    <2> DEFINE x == Up1
               y == Up2
               z == Up3
    <2>1. x \in Seq(Statements) /\ y \in Seq(Statements) /\ z \in Seq(Statements)
      BY StepsAre
    <2> HIDE DEF x, y, z
    <2>2. /\ (x \o y) \o z = x \o (y \o z) /\ x \o y \in Seq(Statements)
          /\ y \o z \in Seq(Statements) /\ x \o (y \o z) \in Seq(Statements)
      BY <2>1
    <2>3. QED
      BY <2>2 DEF x, y, z
  <1>3. P(0, 1)
    <2>1. Script(0, 1) = Up1 \o << >> /\ Script(1, 1) = << >>
      BY <1>1, <1>2, ScriptsAre, StepsAre
    <2>2. << >> \in Seq(Statements) /\ Up1 \o << >> \in Seq(Statements)
      BY <1>1, <1>2, StepsAre
    <2>3. Up1 \o << >> = UpBody[1] \o (<<Version(0, 1)>> \o << >>)
      BY <2>2, StepsAre
    <2>4. 0 + 1 = 1
      OBVIOUS
    <2>5. QED
      BY <2>1, <2>2, <2>3, <2>4
  <1>4. P(0, 2)
    <2>1. Script(0, 2) = Up1 \o Up2 /\ Script(1, 2) = Up2
      BY <1>1, <1>2, ScriptsAre, StepsAre
    <2>2. Up2 \in Seq(Statements) /\ Up1 \o Up2 \in Seq(Statements)
      BY <1>1, <1>2, StepsAre
    <2>3. Up1 \o Up2 = UpBody[1] \o (<<Version(0, 1)>> \o Up2)
      BY <2>2, StepsAre
    <2>4. 0 + 1 = 1
      OBVIOUS
    <2>5. QED
      BY <2>1, <2>2, <2>3, <2>4
  <1>5. P(0, 3)
    <2>1. Script(0, 3) = Up1 \o (Up2 \o Up3) /\ Script(1, 3) = (Up2 \o Up3)
      BY <1>1, <1>2, ScriptsAre, StepsAre
    <2>2. (Up2 \o Up3) \in Seq(Statements) /\ Up1 \o (Up2 \o Up3) \in Seq(Statements)
      BY <1>1, <1>2, StepsAre
    <2>3. Up1 \o (Up2 \o Up3) = UpBody[1] \o (<<Version(0, 1)>> \o (Up2 \o Up3))
      BY <2>2, StepsAre
    <2>4. 0 + 1 = 1
      OBVIOUS
    <2>5. QED
      BY <2>1, <2>2, <2>3, <2>4
  <1>6. P(1, 2)
    <2>1. Script(1, 2) = Up2 \o << >> /\ Script(2, 2) = << >>
      BY <1>1, <1>2, ScriptsAre, StepsAre
    <2>2. << >> \in Seq(Statements) /\ Up2 \o << >> \in Seq(Statements)
      BY <1>1, <1>2, StepsAre
    <2>3. Up2 \o << >> = UpBody[2] \o (<<Version(1, 2)>> \o << >>)
      BY <2>2, StepsAre
    <2>4. 1 + 1 = 2
      OBVIOUS
    <2>5. QED
      BY <2>1, <2>2, <2>3, <2>4
  <1>7. P(1, 3)
    <2>1. Script(1, 3) = Up2 \o Up3 /\ Script(2, 3) = Up3
      BY <1>1, <1>2, ScriptsAre, StepsAre
    <2>2. Up3 \in Seq(Statements) /\ Up2 \o Up3 \in Seq(Statements)
      BY <1>1, <1>2, StepsAre
    <2>3. Up2 \o Up3 = UpBody[2] \o (<<Version(1, 2)>> \o Up3)
      BY <2>2, StepsAre
    <2>4. 1 + 1 = 2
      OBVIOUS
    <2>5. QED
      BY <2>1, <2>2, <2>3, <2>4
  <1>8. P(2, 3)
    <2>1. Script(2, 3) = Up3 \o << >> /\ Script(3, 3) = << >>
      BY <1>1, <1>2, ScriptsAre, StepsAre
    <2>2. << >> \in Seq(Statements) /\ Up3 \o << >> \in Seq(Statements)
      BY <1>1, <1>2, StepsAre
    <2>3. Up3 \o << >> = UpBody[3] \o (<<Version(2, 3)>> \o << >>)
      BY <2>2, StepsAre
    <2>4. 2 + 1 = 3
      OBVIOUS
    <2>5. QED
      BY <2>1, <2>2, <2>3, <2>4
  <1> HIDE DEF P
  <1>9. \/ (c = 0 /\ t = 1)
        \/ (c = 0 /\ t = 2)
        \/ (c = 0 /\ t = 3)
        \/ (c = 1 /\ t = 2)
        \/ (c = 1 /\ t = 3)
        \/ (c = 2 /\ t = 3)
    OBVIOUS
  <1>10. P(c, t)
    BY <1>3, <1>4, <1>5, <1>6, <1>7, <1>8, <1>9
  <1>11. QED
    BY <1>10 DEF P

\* A downgrade is one revision, its version and the rest of the downgrade.
LEMMA ScriptDownIs ==
    ASSUME NEW c \in 0..3, NEW t \in 0..3, c > t
    PROVE  /\ Script(c, t) \in Seq(Statements)
           /\ Script(c, t) = DownBody[c] \o (<<Version(c, c - 1)>> \o Script(c - 1, t))
  <1> DEFINE P(i, j) == /\ Script(i, j) \in Seq(Statements)
                        /\ Script(i, j) = DownBody[i] \o (<<Version(i, i - 1)>> \o Script(i - 1, j))
  <1>1. << >> \in Seq(Statements) /\ \A i \in 0..3 : Script(i, i) = << >>
    BY ScriptsAre
  <1>2. (Down3 \o Down2) \o Down1 = Down3 \o (Down2 \o Down1) /\ Down3 \o Down2 \in Seq(Statements)
        /\ Down2 \o Down1 \in Seq(Statements) /\ Down3 \o (Down2 \o Down1) \in Seq(Statements)
    <2> DEFINE x == Down3
               y == Down2
               z == Down1
    <2>1. x \in Seq(Statements) /\ y \in Seq(Statements) /\ z \in Seq(Statements)
      BY StepsAre
    <2> HIDE DEF x, y, z
    <2>2. /\ (x \o y) \o z = x \o (y \o z) /\ x \o y \in Seq(Statements)
          /\ y \o z \in Seq(Statements) /\ x \o (y \o z) \in Seq(Statements)
      BY <2>1
    <2>3. QED
      BY <2>2 DEF x, y, z
  <1>3. P(1, 0)
    <2>1. Script(1, 0) = Down1 \o << >> /\ Script(0, 0) = << >>
      BY <1>1, <1>2, ScriptsAre, StepsAre
    <2>2. << >> \in Seq(Statements) /\ Down1 \o << >> \in Seq(Statements)
      BY <1>1, <1>2, StepsAre
    <2>3. Down1 \o << >> = DownBody[1] \o (<<Version(1, 0)>> \o << >>)
      BY <2>2, StepsAre
    <2>4. 1 - 1 = 0
      OBVIOUS
    <2>5. QED
      BY <2>1, <2>2, <2>3, <2>4
  <1>4. P(2, 0)
    <2>1. Script(2, 0) = Down2 \o Down1 /\ Script(1, 0) = Down1
      BY <1>1, <1>2, ScriptsAre, StepsAre
    <2>2. Down1 \in Seq(Statements) /\ Down2 \o Down1 \in Seq(Statements)
      BY <1>1, <1>2, StepsAre
    <2>3. Down2 \o Down1 = DownBody[2] \o (<<Version(2, 1)>> \o Down1)
      BY <2>2, StepsAre
    <2>4. 2 - 1 = 1
      OBVIOUS
    <2>5. QED
      BY <2>1, <2>2, <2>3, <2>4
  <1>5. P(3, 0)
    <2>1. Script(3, 0) = Down3 \o (Down2 \o Down1) /\ Script(2, 0) = (Down2 \o Down1)
      BY <1>1, <1>2, ScriptsAre, StepsAre
    <2>2. (Down2 \o Down1) \in Seq(Statements) /\ Down3 \o (Down2 \o Down1) \in Seq(Statements)
      BY <1>1, <1>2, StepsAre
    <2>3. Down3 \o (Down2 \o Down1) = DownBody[3] \o (<<Version(3, 2)>> \o (Down2 \o Down1))
      BY <2>2, StepsAre
    <2>4. 3 - 1 = 2
      OBVIOUS
    <2>5. QED
      BY <2>1, <2>2, <2>3, <2>4
  <1>6. P(2, 1)
    <2>1. Script(2, 1) = Down2 \o << >> /\ Script(1, 1) = << >>
      BY <1>1, <1>2, ScriptsAre, StepsAre
    <2>2. << >> \in Seq(Statements) /\ Down2 \o << >> \in Seq(Statements)
      BY <1>1, <1>2, StepsAre
    <2>3. Down2 \o << >> = DownBody[2] \o (<<Version(2, 1)>> \o << >>)
      BY <2>2, StepsAre
    <2>4. 2 - 1 = 1
      OBVIOUS
    <2>5. QED
      BY <2>1, <2>2, <2>3, <2>4
  <1>7. P(3, 1)
    <2>1. Script(3, 1) = Down3 \o Down2 /\ Script(2, 1) = Down2
      BY <1>1, <1>2, ScriptsAre, StepsAre
    <2>2. Down2 \in Seq(Statements) /\ Down3 \o Down2 \in Seq(Statements)
      BY <1>1, <1>2, StepsAre
    <2>3. Down3 \o Down2 = DownBody[3] \o (<<Version(3, 2)>> \o Down2)
      BY <2>2, StepsAre
    <2>4. 3 - 1 = 2
      OBVIOUS
    <2>5. QED
      BY <2>1, <2>2, <2>3, <2>4
  <1>8. P(3, 2)
    <2>1. Script(3, 2) = Down3 \o << >> /\ Script(2, 2) = << >>
      BY <1>1, <1>2, ScriptsAre, StepsAre
    <2>2. << >> \in Seq(Statements) /\ Down3 \o << >> \in Seq(Statements)
      BY <1>1, <1>2, StepsAre
    <2>3. Down3 \o << >> = DownBody[3] \o (<<Version(3, 2)>> \o << >>)
      BY <2>2, StepsAre
    <2>4. 3 - 1 = 2
      OBVIOUS
    <2>5. QED
      BY <2>1, <2>2, <2>3, <2>4
  <1> HIDE DEF P
  <1>9. \/ (c = 1 /\ t = 0)
        \/ (c = 2 /\ t = 0)
        \/ (c = 3 /\ t = 0)
        \/ (c = 2 /\ t = 1)
        \/ (c = 3 /\ t = 1)
        \/ (c = 3 /\ t = 2)
    OBVIOUS
  <1>10. P(c, t)
    BY <1>3, <1>4, <1>5, <1>6, <1>7, <1>8, <1>9
  <1>11. QED
    BY <1>10 DEF P

-----------------------------------------------------------------------------
(* What is left of a revision.                                             *)

\* No statements create nothing.
LEMMA UpsEmpty == ASSUME NEW W, Ups(<< >>, W) PROVE W = {}
  BY DEF Ups, Whats

\* No statements remove nothing.
LEMMA DownsEmpty == ASSUME NEW W, Downs(<< >>, W) PROVE W = {}
  BY DEF Downs, Whats

\* The first statement and the others.
LEMMA TailFields ==
    ASSUME NEW S, NEW r \in Seq(S), r # << >>
    PROVE  /\ Head(r) \in S /\ Head(r) = r[1] /\ Tail(r) \in Seq(S)
           /\ Len(r) \in Nat \ {0} /\ DOMAIN r = 1..Len(r) /\ DOMAIN Tail(r) = 1..Len(r) - 1
           /\ \A i \in 1..Len(r) - 1 : Tail(r)[i] = r[i + 1]
  OBVIOUS

\* The first creation: what it needs is none of what the others make.
LEMMA UpsTail ==
    ASSUME NEW r, NEW W, Ups(r, W), r # << >>
    PROVE  /\ Head(r) \in Creates /\ Head(r).what \in W
           /\ Ups(Tail(r), W \ {Head(r).what})
           /\ \A x \in W \ {Head(r).what} : Before(Head(r).what, x)
  <1> DEFINE n == Len(r)
             q == Tail(r)
             o == Head(r).what
  <1>1. /\ Head(r) \in Creates /\ o = r[1].what /\ q \in Seq(Creates)
        /\ n \in Nat \ {0} /\ DOMAIN r = 1..n /\ DOMAIN q = 1..n - 1
        /\ \A i \in 1..n - 1 : q[i] = r[i + 1]
    BY TailFields DEF Ups
  <1>2. /\ \A i, j \in 1..n : i < j => Before(r[i].what, r[j].what)
        /\ W = {r[i].what : i \in 1..n}
    BY <1>1 DEF Ups, Upward, Whats
  <1> HIDE DEF n, q, o
  <1>3. \A i \in 1..n - 1 : i + 1 \in 1..n /\ 1 < i + 1
    BY <1>1
  <1>4. 1 \in 1..n /\ \A i \in 1..n : i = 1 \/ (i - 1 \in 1..n - 1 /\ (i - 1) + 1 = i)
    BY <1>1
  <1>5. \A i \in 1..n - 1 : Before(o, q[i].what)
    BY <1>1, <1>2, <1>3, <1>4
  <1>6. Upward(q)
    <2>1. ASSUME NEW i \in 1..n - 1, NEW j \in 1..n - 1, i < j
          PROVE  Before(q[i].what, q[j].what)
      <3>1. i + 1 < j + 1
        BY <1>1, <2>1
      <3>2. QED
        BY <1>1, <1>2, <1>3, <3>1
    <2>2. QED
      BY <1>1, <2>1 DEF Upward
  <1>7. Whats(q) = {q[i].what : i \in 1..n - 1}
    BY <1>1 DEF Whats
  <1>8. ASSUME NEW x \in W, x # o PROVE \E i \in 1..n - 1 : x = q[i].what
    <2>1. PICK i \in 1..n : x = r[i].what
      BY <1>2
    <2>2. i - 1 \in 1..n - 1 /\ (i - 1) + 1 = i
      BY <1>1, <1>4, <1>8, <2>1
    <2>3. QED
      BY <1>1, <2>1, <2>2
  <1>9. ASSUME NEW i \in 1..n - 1 PROVE q[i].what \in W \ {o}
    BY <1>1, <1>2, <1>3, <1>5 DEF Before
  <1>10. Whats(q) = W \ {o}
    BY <1>7, <1>8, <1>9
  <1>11. \A x \in W \ {o} : Before(o, x)
    BY <1>5, <1>8
  <1>12. o \in W
    BY <1>1, <1>2, <1>4
  <1>13. QED
    BY <1>1, <1>6, <1>10, <1>11, <1>12 DEF Ups, q, o

\* The first removal: nothing that the others remove needs its object.
LEMMA DownsTail ==
    ASSUME NEW r, NEW W, Downs(r, W), r # << >>
    PROVE  /\ Head(r) \in Drops /\ Head(r).what \in W
           /\ Downs(Tail(r), W \ {Head(r).what})
           /\ \A x \in W \ {Head(r).what} : Before(x, Head(r).what)
  <1> DEFINE n == Len(r)
             q == Tail(r)
             o == Head(r).what
  <1>1. /\ Head(r) \in Drops /\ o = r[1].what /\ q \in Seq(Drops)
        /\ n \in Nat \ {0} /\ DOMAIN r = 1..n /\ DOMAIN q = 1..n - 1
        /\ \A i \in 1..n - 1 : q[i] = r[i + 1]
    BY TailFields DEF Downs
  <1>2. /\ \A i, j \in 1..n : i < j => Before(r[j].what, r[i].what)
        /\ W = {r[i].what : i \in 1..n}
    BY <1>1 DEF Downs, Downward, Whats
  <1> HIDE DEF n, q, o
  <1>3. \A i \in 1..n - 1 : i + 1 \in 1..n /\ 1 < i + 1
    BY <1>1
  <1>4. 1 \in 1..n /\ \A i \in 1..n : i = 1 \/ (i - 1 \in 1..n - 1 /\ (i - 1) + 1 = i)
    BY <1>1
  <1>5. \A i \in 1..n - 1 : Before(q[i].what, o)
    BY <1>1, <1>2, <1>3, <1>4
  <1>6. Downward(q)
    <2>1. ASSUME NEW i \in 1..n - 1, NEW j \in 1..n - 1, i < j
          PROVE  Before(q[j].what, q[i].what)
      <3>1. i + 1 < j + 1
        BY <1>1, <2>1
      <3>2. QED
        BY <1>1, <1>2, <1>3, <3>1
    <2>2. QED
      BY <1>1, <2>1 DEF Downward
  <1>7. Whats(q) = {q[i].what : i \in 1..n - 1}
    BY <1>1 DEF Whats
  <1>8. ASSUME NEW x \in W, x # o PROVE \E i \in 1..n - 1 : x = q[i].what
    <2>1. PICK i \in 1..n : x = r[i].what
      BY <1>2
    <2>2. i - 1 \in 1..n - 1 /\ (i - 1) + 1 = i
      BY <1>1, <1>4, <1>8, <2>1
    <2>3. QED
      BY <1>1, <2>1, <2>2
  <1>9. ASSUME NEW i \in 1..n - 1 PROVE q[i].what \in W \ {o}
    BY <1>1, <1>2, <1>3, <1>5 DEF Before
  <1>10. Whats(q) = W \ {o}
    BY <1>7, <1>8, <1>9
  <1>11. \A x \in W \ {o} : Before(x, o)
    BY <1>5, <1>8
  <1>12. o \in W
    BY <1>1, <1>2, <1>4
  <1>13. QED
    BY <1>1, <1>6, <1>10, <1>11, <1>12 DEF Downs, q, o

-----------------------------------------------------------------------------
(* What a run has done, and what it has left.                              *)

\* What the revisions after b up to c make, and what they add to the schema.
Between(b, c) == UNION {Made(k) : k \in b + 1..c}
NewIn(b, c) == UNION {New(k) : k \in b + 1..c}
ObjectsAt(v) == NewIn(0, v)

\* A run that began at b, is in the upgrade of c and is asked for t, with rest
\* left of it, has made T, and sees it.
UpPlan(b, c, t, rest, T, V) ==
    /\ b <= c /\ c < t
    /\ \E W : /\ Ups(rest, W) /\ W \subseteq Made(c + 1)
              /\ T = Between(b, c) \cup (Made(c + 1) \ W) /\ T \subseteq V

\* The same of the downgrade of c: it has removed T, and sees none of it.
DownPlan(b, c, t, rest, T, V) ==
    /\ b >= c /\ c > t
    /\ \E W : /\ Downs(rest, W) /\ W \subseteq Named(c)
              /\ T = NewIn(c, b) \cup (New(c) \ Left(W)) /\ T \cap V = {}

\* It has come to what it was asked for.
StayPlan(b, c, t, rest, T, V) ==
    /\ c = t /\ rest = << >>
    /\ \/ b <= c /\ T = Between(b, c) /\ T \subseteq V
       \/ b >= c /\ T = NewIn(c, b) /\ T \cap V = {}

\* A run's script s is the rest of its revision and the revisions after it.
PlanOf(b, c, s, T, V) ==
    \E t \in 0..3 : \E rest :
        /\ s = rest \o After(c, t)
        /\ \/ UpPlan(b, c, t, rest, T, V)
           \/ DownPlan(b, c, t, rest, T, V)
           \/ StayPlan(b, c, t, rest, T, V)

\* Between a revision and itself, or one below, there is nothing.
LEMMA LevelsEmpty ==
    ASSUME NEW b \in 0..3, NEW c \in 0..3, c <= b
    PROVE  Between(b, c) = {} /\ NewIn(b, c) = {}
  <1>1. b + 1..c = {}
    OBVIOUS
  <1>2. QED
    BY <1>1 DEF Between, NewIn

\* One revision more, at either end.
LEMMA LevelsStep ==
    ASSUME NEW b \in 0..3, NEW c \in 0..3, b <= c
    PROVE  /\ c < 3 => Between(b, c + 1) = Between(b, c) \cup Made(c + 1)
           /\ b > 0 => NewIn(b - 1, c) = New(b) \cup NewIn(b, c)
  <1>1. b + 1..c + 1 = (b + 1..c) \cup {c + 1}
    OBVIOUS
  <1>2. (b - 1) + 1..c = {b} \cup (b + 1..c)
    OBVIOUS
  <1>3. Between(b, c + 1) = Between(b, c) \cup Made(c + 1)
    BY <1>1 DEF Between
  <1>4. NewIn(b - 1, c) = New(b) \cup NewIn(b, c)
    BY <1>2 DEF NewIn
  <1>5. QED
    BY <1>3, <1>4

\* Revisions that do not overlap make different objects.
LEMMA LevelsApart ==
    ASSUME NEW a \in 0..3, NEW b \in 0..3, NEW c \in 0..3, NEW d \in 0..3, b <= c
    PROVE  /\ Between(a, b) \cap Between(c, d) = {}
           /\ NewIn(a, b) \cap NewIn(c, d) = {} /\ NewIn(a, b) \cap Exts = {}
  <1>1. ASSUME NEW j \in a + 1..b, NEW k \in c + 1..d
        PROVE  Made(j) \cap Made(k) = {} /\ New(j) \cap New(k) = {} /\ New(j) \cap Exts = {}
    <2>1. j \in 1..3 /\ k \in 1..3 /\ j # k
      OBVIOUS
    <2>2. QED
      BY <2>1, NewApart
  <1>2. Between(a, b) \cap Between(c, d) = {}
    BY <1>1 DEF Between
  <1>3. NewIn(a, b) \cap NewIn(c, d) = {}
    BY <1>1 DEF NewIn
  <1>4. NewIn(a, b) \cap Exts = {}
    <2>1. \A j \in a + 1..b : j \in 1..3
      OBVIOUS
    <2>2. QED
      BY <2>1, NewApart DEF NewIn
  <1>5. QED
    BY <1>2, <1>3, <1>4

\* Revisions in a row, and all of them.
LEMMA LevelsJoin ==
    ASSUME NEW a \in 0..3, NEW b \in 0..3, NEW c \in 0..3, a <= b, b <= c
    PROVE  /\ NewIn(a, c) = NewIn(a, b) \cup NewIn(b, c)
           /\ NewIn(a, b) = {x \in Between(a, b) : x \notin Exts}
           /\ Between(a, b) \subseteq Things /\ NewIn(a, b) \subseteq Things
  <1>1. a + 1..c = (a + 1..b) \cup (b + 1..c)
    OBVIOUS
  <1>2. NewIn(a, c) = NewIn(a, b) \cup NewIn(b, c)
    BY <1>1 DEF NewIn
  <1>3. \A k \in a + 1..b : k \in 1..3
    OBVIOUS
  <1>4. \A k \in 1..3 : New(k) = {x \in Made(k) : x \notin Exts}
    BY NewApart DEF Made
  <1>5. NewIn(a, b) = {x \in Between(a, b) : x \notin Exts}
    BY <1>3, <1>4 DEF NewIn, Between
  <1>6. \A k \in 1..3 : Made(k) \subseteq Things /\ New(k) \subseteq Things
    BY NewApart
  <1>7. Between(a, b) \subseteq Things /\ NewIn(a, b) \subseteq Things
    BY <1>3, <1>6 DEF Between, NewIn
  <1>8. QED
    BY <1>2, <1>5, <1>7

\* The objects that are extensions.
LEMMA ExtensionThings ==
    \A x \in Things : x.kind = "extension" <=> x \in Exts
  <1>1. ASSUME NEW t, NEW x \in ObjectsOf(t) PROVE x.kind # "extension"
    BY ObjectsKinds
  <1>2. QED
    BY <1>1, ExtFields DEF Things

\* The rest of the script is one of statements, empty only at the end.
LEMMA AfterIs ==
    ASSUME NEW c \in 0..3, NEW t \in 0..3
    PROVE  /\ After(c, t) \in Seq(Statements)
           /\ After(c, t) = << >> <=> c = t
  <1>1. CASE c = t
    BY <1>1 DEF After
  <1>2. CASE c < t
    <2>1. c + 1 \in 0..3
      BY <1>2
    <2>2. Script(c + 1, t) \in Seq(Statements)
      <3>1. CASE c + 1 = t
        <4>1. Script(t, t) = << >>
          BY ScriptsAre
        <4>2. << >> \in Seq(Statements)
          OBVIOUS
        <4>3. QED
          BY <3>1, <4>1, <4>2
      <3>2. CASE c + 1 < t
        BY <2>1, <3>2, ScriptUpIs
      <3>3. QED
        BY <1>2, <3>1, <3>2
    <2>3. <<Version(c, c + 1)>> \in Seq(Statements) /\ <<Version(c, c + 1)>> # << >>
      BY <2>1, VersionIs
    <2>4. After(c, t) = <<Version(c, c + 1)>> \o Script(c + 1, t) /\ c # t
      BY <1>2 DEF After
    <2>5. QED
      BY <2>2, <2>3, <2>4, WhatsCat, CatHead
  <1>3. CASE c > t
    <2>1. c - 1 \in 0..3
      BY <1>3
    <2>2. Script(c - 1, t) \in Seq(Statements)
      <3>1. CASE c - 1 = t
        <4>1. Script(t, t) = << >>
          BY ScriptsAre
        <4>2. << >> \in Seq(Statements)
          OBVIOUS
        <4>3. QED
          BY <3>1, <4>1, <4>2
      <3>2. CASE c - 1 > t
        BY <2>1, <3>2, ScriptDownIs
      <3>3. QED
        BY <1>3, <3>1, <3>2
    <2>3. <<Version(c, c - 1)>> \in Seq(Statements) /\ <<Version(c, c - 1)>> # << >>
      BY <2>1, VersionIs
    <2>4. After(c, t) = <<Version(c, c - 1)>> \o Script(c - 1, t) /\ c # t
      BY <1>3 DEF After
    <2>5. QED
      BY <2>2, <2>3, <2>4, WhatsCat, CatHead
  <1>4. QED
    BY <1>1, <1>2, <1>3

\* A script is a plan of which nothing is done.
LEMMA ScriptPlan ==
    ASSUME NEW c \in 0..3, NEW t \in 0..3, NEW V
    PROVE  PlanOf(c, c, Script(c, t), {}, V) /\ Script(c, t) \in Seq(Statements)
  <1>1. Between(c, c) = {} /\ NewIn(c, c) = {}
    BY LevelsEmpty
  <1>2. CASE c = t
    <2>1. Script(c, t) = << >> /\ << >> = << >> \o After(c, t) /\ << >> \in Seq(Statements)
      <3>1. Script(t, t) = << >>
        BY ScriptsAre
      <3>2. QED
        BY <1>2, <3>1 DEF After
    <2>2. StayPlan(c, c, t, << >>, {}, V)
      BY <1>1, <1>2 DEF StayPlan
    <2>3. QED
      BY <2>1, <2>2 DEF PlanOf
  <1>3. CASE c < t
    <2>1. Script(c, t) = UpBody[c + 1] \o After(c, t) /\ Script(c, t) \in Seq(Statements)
      <3>1. After(c, t) = <<Version(c, c + 1)>> \o Script(c + 1, t)
        BY <1>3 DEF After
      <3>2. QED
        BY <1>3, <3>1, ScriptUpIs
    <2>2. Ups(UpBody[c + 1], Made(c + 1))
      BY <1>3, UpBodyIs
    <2>3. UpPlan(c, c, t, UpBody[c + 1], {}, V)
      BY <1>1, <1>3, <2>2 DEF UpPlan
    <2>4. QED
      BY <2>1, <2>3 DEF PlanOf
  <1>4. CASE c > t
    <2>1. Script(c, t) = DownBody[c] \o After(c, t) /\ Script(c, t) \in Seq(Statements)
      <3>1. After(c, t) = <<Version(c, c - 1)>> \o Script(c - 1, t)
        BY <1>4 DEF After
      <3>2. QED
        BY <1>4, <3>1, ScriptDownIs
    <2>2. Downs(DownBody[c], Named(c)) /\ Left(Named(c)) = New(c)
      BY <1>4, DownBodyIs, LeftNamed
    <2>3. DownPlan(c, c, t, DownBody[c], {}, V)
      BY <1>1, <1>4, <2>2 DEF DownPlan
    <2>4. QED
      BY <2>1, <2>3 DEF PlanOf
  <1>5. QED
    BY <1>2, <1>3, <1>4

\* The four kinds of step a plan has next.
Creating(b, c, s, T, V) ==
    \E t \in 0..3 : \E rest, W :
        /\ b <= c /\ c < t /\ rest # << >>
        /\ Ups(rest, W) /\ W \subseteq Made(c + 1)
        /\ T = Between(b, c) \cup (Made(c + 1) \ W) /\ T \subseteq V
        /\ Head(s) = Head(rest) /\ Tail(s) = Tail(rest) \o After(c, t)

Dropping(b, c, s, T, V) ==
    \E t \in 0..3 : \E rest, W :
        /\ b >= c /\ c > t /\ rest # << >>
        /\ Downs(rest, W) /\ W \subseteq Named(c)
        /\ T = NewIn(c, b) \cup (New(c) \ Left(W)) /\ T \cap V = {}
        /\ Head(s) = Head(rest) /\ Tail(s) = Tail(rest) \o After(c, t)

SteppingUp(b, c, s, T, V) ==
    \E t \in 0..3 :
        /\ b <= c /\ c < t /\ T = Between(b, c + 1) /\ T \subseteq V
        /\ Head(s) = Version(c, c + 1) /\ Tail(s) = Script(c + 1, t)

SteppingDown(b, c, s, T, V) ==
    \E t \in 0..3 :
        /\ b >= c /\ c > t /\ T = NewIn(c - 1, b) /\ T \cap V = {}
        /\ Head(s) = Version(c, c - 1) /\ Tail(s) = Script(c - 1, t)

\* When no statement is left, nothing is left to remove.
LEMMA LeftNone == Left({}) = {}
  BY DEF Left

\* The next statement is of the revision that is under way.
LEMMA RestHead ==
    ASSUME NEW c \in 0..3, NEW t \in 0..3, NEW S, NEW rest \in Seq(S), S \subseteq Statements
    PROVE  /\ rest # << >> => /\ Head(rest \o After(c, t)) = Head(rest)
                              /\ Tail(rest \o After(c, t)) = Tail(rest) \o After(c, t)
           /\ rest = << >> => rest \o After(c, t) = After(c, t)
  <1>1. rest \in Seq(Statements) /\ After(c, t) \in Seq(Statements)
    <2>1. \A i \in 1..Len(rest) : rest[i] \in Statements
      OBVIOUS
    <2>2. rest \in Seq(Statements)
      BY <2>1
    <2>3. QED
      BY <2>2, AfterIs
  <1>2. rest # << >> => /\ Head(rest \o After(c, t)) = Head(rest)
                        /\ Tail(rest \o After(c, t)) = Tail(rest) \o After(c, t)
    BY <1>1, CatHead
  <1>3. << >> \o After(c, t) = After(c, t)
    BY <1>1, CatEmpty
  <1>4. QED
    BY <1>2, <1>3

\* After a revision comes its version, and then the next revision.
LEMMA AfterHead ==
    ASSUME NEW c \in 0..3, NEW t \in 0..3
    PROVE  /\ c < t => /\ Head(After(c, t)) = Version(c, c + 1)
                       /\ Tail(After(c, t)) = Script(c + 1, t)
           /\ c > t => /\ Head(After(c, t)) = Version(c, c - 1)
                       /\ Tail(After(c, t)) = Script(c - 1, t)
  <1>1. ASSUME NEW v \in Statements, NEW r \in Seq(Statements)
        PROVE  Head(<<v>> \o r) = v /\ Tail(<<v>> \o r) = r
    OBVIOUS
  <1>2. \A d \in 0..3 : Script(d, t) \in Seq(Statements)
    BY ScriptPlan
  <1>3. \A d \in 0..3 : Version(c, d) \in Statements
    BY VersionIs
  <1>4. ASSUME c < t PROVE /\ Head(After(c, t)) = Version(c, c + 1)
                           /\ Tail(After(c, t)) = Script(c + 1, t)
    <2>1. c + 1 \in 0..3
      BY <1>4
    <2>2. After(c, t) = <<Version(c, c + 1)>> \o Script(c + 1, t)
      BY <1>4 DEF After
    <2>3. Version(c, c + 1) \in Statements /\ Script(c + 1, t) \in Seq(Statements)
      BY <1>2, <1>3, <2>1
    <2>4. QED
      BY <1>1, <2>2, <2>3
  <1>5. ASSUME c > t PROVE /\ Head(After(c, t)) = Version(c, c - 1)
                           /\ Tail(After(c, t)) = Script(c - 1, t)
    <2>1. c - 1 \in 0..3
      BY <1>5
    <2>2. After(c, t) = <<Version(c, c - 1)>> \o Script(c - 1, t)
      BY <1>5 DEF After
    <2>3. Version(c, c - 1) \in Statements /\ Script(c - 1, t) \in Seq(Statements)
      BY <1>2, <1>3, <2>1
    <2>4. QED
      BY <1>1, <2>2, <2>3
  <1>6. QED
    BY <1>4, <1>5

\* A run that is not at its end has one of four steps next.
LEMMA PlanCases ==
    ASSUME NEW b \in 0..3, NEW c \in 0..3, NEW s, NEW T, NEW V, PlanOf(b, c, s, T, V), s # << >>
    PROVE  \/ Creating(b, c, s, T, V) \/ Dropping(b, c, s, T, V)
           \/ SteppingUp(b, c, s, T, V) \/ SteppingDown(b, c, s, T, V)
  <1> DEFINE P(t, rest) == /\ s = rest \o After(c, t)
                           /\ \/ UpPlan(b, c, t, rest, T, V) \/ DownPlan(b, c, t, rest, T, V)
                              \/ StayPlan(b, c, t, rest, T, V)
  <1>0. PICK t \in 0..3 : \E rest : P(t, rest)
    BY DEF PlanOf
  <1>1. PICK rest : P(t, rest)
    BY <1>0
  <1>2. CASE UpPlan(b, c, t, rest, T, V)
    <2>1. PICK W : /\ Ups(rest, W) /\ W \subseteq Made(c + 1)
                   /\ T = Between(b, c) \cup (Made(c + 1) \ W) /\ T \subseteq V
      BY <1>2 DEF UpPlan
    <2>2. b <= c /\ c < t /\ rest \in Seq(Creates) /\ Creates \subseteq Statements
      BY <1>2, <2>1 DEF UpPlan, Ups, Statements
    <2>3. CASE rest # << >>
      <3>1. Head(s) = Head(rest) /\ Tail(s) = Tail(rest) \o After(c, t)
        BY <1>1, <2>2, <2>3, RestHead
      <3>2. QED
        BY <2>1, <2>2, <2>3, <3>1 DEF Creating
    <2>4. CASE rest = << >>
      <3>1. s = After(c, t) /\ W = {}
        BY <1>1, <2>1, <2>2, <2>4, RestHead, UpsEmpty
      <3>2. T = Between(b, c + 1)
        BY <2>1, <2>2, <3>1, LevelsStep
      <3>3. Head(s) = Version(c, c + 1) /\ Tail(s) = Script(c + 1, t)
        BY <2>2, <3>1, AfterHead
      <3>4. QED
        BY <2>1, <2>2, <3>2, <3>3 DEF SteppingUp
    <2>5. QED
      BY <2>3, <2>4
  <1>3. CASE DownPlan(b, c, t, rest, T, V)
    <2>1. PICK W : /\ Downs(rest, W) /\ W \subseteq Named(c)
                   /\ T = NewIn(c, b) \cup (New(c) \ Left(W)) /\ T \cap V = {}
      BY <1>3 DEF DownPlan
    <2>2. b >= c /\ c > t /\ rest \in Seq(Drops) /\ Drops \subseteq Statements
      BY <1>3, <2>1 DEF DownPlan, Downs, Statements
    <2>3. CASE rest # << >>
      <3>1. Head(s) = Head(rest) /\ Tail(s) = Tail(rest) \o After(c, t)
        BY <1>1, <2>2, <2>3, RestHead
      <3>2. QED
        BY <2>1, <2>2, <2>3, <3>1 DEF Dropping
    <2>4. CASE rest = << >>
      <3>1. s = After(c, t) /\ W = {}
        BY <1>1, <2>1, <2>2, <2>4, RestHead, DownsEmpty
      <3>2. T = NewIn(c - 1, b)
        <4>1. c <= b /\ c > 0
          BY <2>2
        <4>2. QED
          BY <2>1, <3>1, <4>1, LevelsStep, LeftNone
      <3>3. Head(s) = Version(c, c - 1) /\ Tail(s) = Script(c - 1, t)
        BY <2>2, <3>1, AfterHead
      <3>4. QED
        BY <2>1, <2>2, <3>2, <3>3 DEF SteppingDown
    <2>5. QED
      BY <2>3, <2>4
  <1>4. CASE StayPlan(b, c, t, rest, T, V)
    <2>1. c = t /\ rest = << >> /\ After(c, t) = << >>
      BY <1>4 DEF StayPlan, After
    <2>2. s = << >>
      BY <1>1, <2>1
    <2>3. QED
      BY <2>2
  <1>5. QED
    BY <1>1, <1>2, <1>3, <1>4

\* What kind of statement each step is.
LEMMA StepDoes ==
    ASSUME NEW b \in 0..3, NEW c \in 0..3, NEW s, NEW T, NEW V
    PROVE  /\ Creating(b, c, s, T, V) => Head(s) \in Creates
           /\ Dropping(b, c, s, T, V) => Head(s) \in Drops
           /\ SteppingUp(b, c, s, T, V) => /\ Head(s) = Version(c, c + 1) /\ c < 3
           /\ SteppingDown(b, c, s, T, V) => /\ Head(s) = Version(c, c - 1) /\ c > 0
  <1>1. Creating(b, c, s, T, V) => Head(s) \in Creates
    BY UpsTail DEF Creating
  <1>2. Dropping(b, c, s, T, V) => Head(s) \in Drops
    BY DownsTail DEF Dropping
  <1>3. SteppingUp(b, c, s, T, V) => /\ Head(s) = Version(c, c + 1) /\ c < 3
    BY DEF SteppingUp
  <1>4. SteppingDown(b, c, s, T, V) => /\ Head(s) = Version(c, c - 1) /\ c > 0
    BY DEF SteppingDown
  <1>5. QED
    BY <1>1, <1>2, <1>3, <1>4

-----------------------------------------------------------------------------
(* What each step does to a plan.                                          *)

\* Whatever it sees of the others' work, a run that creates o is on plan.
Grows(b, c, s, T, o) == \A X : T \subseteq X => PlanOf(b, c, Tail(s), T \cup {o}, X \cup {o})

\* The objects Z are those of version v, and some extensions.
AtVersion(Z, v) == Z \subseteq Things /\ {x \in Z : x.kind # "extension"} = ObjectsAt(v)

\* A creation keeps the plan, what it makes was not there, and what it uses is.
LEMMA CreatingStep ==
    ASSUME NEW b \in 0..3, NEW c \in 0..3, NEW s, NEW T, NEW V, Creating(b, c, s, T, V),
           NEW o, o = Head(s).what
    PROVE  /\ o \in Things /\ T \subseteq V /\ T \subseteq Things
           /\ Grows(b, c, s, T, o)
           /\ o \notin ObjectsAt(b) \cup T
           /\ Uses(o) \subseteq ObjectsAt(b) \cup T
  <1>1. PICK t, rest, W :
          /\ t \in 0..3
          /\ b <= c /\ c < t /\ rest # << >>
          /\ Ups(rest, W) /\ W \subseteq Made(c + 1)
          /\ T = Between(b, c) \cup (Made(c + 1) \ W) /\ T \subseteq V
          /\ Head(s) = Head(rest) /\ Tail(s) = Tail(rest) \o After(c, t)
    BY DEF Creating
  <1>2. c + 1 \in 1..3 /\ c + 1 \in 0..3
    BY <1>1
  <1>3. /\ Head(rest) \in Creates /\ o \in W /\ Ups(Tail(rest), W \ {o})
        /\ \A x \in W \ {o} : Before(o, x)
    BY <1>1, UpsTail
  <1>4. Made(c + 1) \subseteq Things /\ Between(b, c) \subseteq Things
    BY <1>1, <1>2, NewApart, LevelsJoin
  <1>5. o \in Things /\ T \subseteq V /\ T \subseteq Things
    BY <1>1, <1>3, <1>4
  <1>6. ASSUME NEW X, T \subseteq X PROVE PlanOf(b, c, Tail(s), T \cup {o}, X \cup {o})
    <2>1. T \cup {o} = Between(b, c) \cup (Made(c + 1) \ (W \ {o}))
      BY <1>1, <1>3
    <2>2. W \ {o} \subseteq Made(c + 1) /\ T \cup {o} \subseteq X \cup {o}
      BY <1>1, <1>6
    <2>3. UpPlan(b, c, t, Tail(rest), T \cup {o}, X \cup {o})
      BY <1>1, <1>3, <2>1, <2>2 DEF UpPlan
    <2>4. QED
      BY <1>1, <2>3 DEF PlanOf
  <1>7. o \notin ObjectsAt(b) \cup T
    <2>1. Between(c, c + 1) = Made(c + 1)
      <3>1. Between(c, c) = {}
        BY LevelsEmpty
      <3>2. Between(c, c + 1) = Between(c, c) \cup Made(c + 1)
        BY <1>1, LevelsStep
      <3>3. QED
        BY <3>1, <3>2
    <2>2. Between(b, c) \cap Made(c + 1) = {} /\ Between(0, b) \cap Made(c + 1) = {}
      <3>1. Between(b, c) \cap Between(c, c + 1) = {}
        BY <1>2, LevelsApart
      <3>2. Between(0, b) \cap Between(c, c + 1) = {}
        BY <1>1, <1>2, LevelsApart
      <3>3. QED
        BY <2>1, <3>1, <3>2
    <2>3. ObjectsAt(b) \subseteq Between(0, b)
      BY LevelsJoin DEF ObjectsAt
    <2>4. QED
      BY <1>1, <1>3, <2>2, <2>3
  <1>8. ASSUME NEW y \in Uses(o) PROVE y \in ObjectsAt(b) \cup T
    <2>1. PICK j \in 1..c + 1 : y \in Made(j)
      BY <1>1, <1>2, <1>3, MadeUses
    <2>2. CASE j = c + 1
      <3>1. y # o
        BY <1>1, <1>2, <1>3, MadeUses
      <3>2. y \notin W
        BY <1>3, <3>1 DEF Before
      <3>3. QED
        BY <1>1, <2>1, <2>2, <3>2
    <2>3. CASE j # c + 1 /\ j > b
      <3>1. j \in b + 1..c
        BY <2>3
      <3>2. QED
        BY <1>1, <2>1, <3>1 DEF Between
    <2>4. CASE j <= b
      <3>1. j # 3 /\ j \in 0 + 1..b
        BY <1>1, <2>4
      <3>2. Made(j) = New(j)
        BY <3>1 DEF Made
      <3>3. QED
        BY <2>1, <3>1, <3>2 DEF ObjectsAt, NewIn
    <2>5. QED
      BY <2>2, <2>3, <2>4
  <1>9. QED
    BY <1>5, <1>6, <1>7, <1>8 DEF Grows

\* Setting the version upwards begins the next revision, or ends the plan.
LEMMA SteppingUpStep ==
    ASSUME NEW b \in 0..3, NEW c \in 0..3, NEW s, NEW T, NEW V, SteppingUp(b, c, s, T, V)
    PROVE  PlanOf(b, c + 1, Tail(s), T, V)
  <1>1. PICK t \in 0..3 :
          /\ b <= c /\ c < t /\ T = Between(b, c + 1) /\ T \subseteq V
          /\ Head(s) = Version(c, c + 1) /\ Tail(s) = Script(c + 1, t)
    BY DEF SteppingUp
  <1> DEFINE d == c + 1
  <1>2. d \in 0..3 /\ b <= d /\ d <= t
    BY <1>1
  <1>3. T = Between(b, d) /\ Tail(s) = Script(d, t)
    BY <1>1
  <1> HIDE DEF d
  <1>4. CASE d = t
    <2>1. Script(t, t) = << >> /\ After(t, t) = << >> /\ << >> = << >> \o << >>
      <3>1. Script(t, t) = << >>
        BY ScriptsAre
      <3>2. QED
        BY <3>1 DEF After
    <2>2. StayPlan(b, d, t, << >>, T, V)
      BY <1>1, <1>2, <1>3, <1>4 DEF StayPlan
    <2>3. Tail(s) = << >> \o After(d, t)
      BY <1>3, <1>4, <2>1
    <2>4. PlanOf(b, d, Tail(s), T, V)
      BY <2>2, <2>3 DEF PlanOf
    <2>5. QED
      BY <2>4 DEF d
  <1>5. CASE d < t
    <2>1. d + 1 \in 1..3
      BY <1>2, <1>5
    <2>2. Script(d, t) = UpBody[d + 1] \o After(d, t)
      <3>1. After(d, t) = <<Version(d, d + 1)>> \o Script(d + 1, t)
        BY <1>2, <1>5 DEF After
      <3>2. QED
        BY <1>2, <1>5, <3>1, ScriptUpIs
    <2>3. Ups(UpBody[d + 1], Made(d + 1))
      BY <2>1, UpBodyIs
    <2>4. UpPlan(b, d, t, UpBody[d + 1], T, V)
      BY <1>1, <1>2, <1>3, <1>5, <2>3 DEF UpPlan
    <2>5. PlanOf(b, d, Tail(s), T, V)
      BY <1>3, <2>2, <2>4 DEF PlanOf
    <2>6. QED
      BY <2>5 DEF d
  <1>6. QED
    BY <1>2, <1>4, <1>5

\* Setting the version downwards begins the next revision, or ends the plan.
LEMMA SteppingDownStep ==
    ASSUME NEW b \in 0..3, NEW c \in 0..3, NEW s, NEW T, NEW V, SteppingDown(b, c, s, T, V)
    PROVE  PlanOf(b, c - 1, Tail(s), T, V)
  <1>1. PICK t \in 0..3 :
          /\ b >= c /\ c > t /\ T = NewIn(c - 1, b) /\ T \cap V = {}
          /\ Head(s) = Version(c, c - 1) /\ Tail(s) = Script(c - 1, t)
    BY DEF SteppingDown
  <1> DEFINE d == c - 1
  <1>2. d \in 0..3 /\ b >= d /\ d >= t
    BY <1>1
  <1>3. T = NewIn(d, b) /\ Tail(s) = Script(d, t)
    BY <1>1
  <1> HIDE DEF d
  <1>4. CASE d = t
    <2>1. Script(t, t) = << >> /\ After(t, t) = << >> /\ << >> = << >> \o << >>
      <3>1. Script(t, t) = << >>
        BY ScriptsAre
      <3>2. QED
        BY <3>1 DEF After
    <2>2. StayPlan(b, d, t, << >>, T, V)
      BY <1>1, <1>2, <1>3, <1>4 DEF StayPlan
    <2>3. Tail(s) = << >> \o After(d, t)
      BY <1>3, <1>4, <2>1
    <2>4. PlanOf(b, d, Tail(s), T, V)
      BY <2>2, <2>3 DEF PlanOf
    <2>5. QED
      BY <2>4 DEF d
  <1>5. CASE d > t
    <2>1. d \in 1..3
      BY <1>2, <1>5
    <2>2. Script(d, t) = DownBody[d] \o After(d, t)
      <3>1. After(d, t) = <<Version(d, d - 1)>> \o Script(d - 1, t)
        BY <1>2, <1>5 DEF After
      <3>2. QED
        BY <1>2, <1>5, <3>1, ScriptDownIs
    <2>3. Downs(DownBody[d], Named(d)) /\ Left(Named(d)) = New(d)
      BY <2>1, DownBodyIs, LeftNamed
    <2>4. DownPlan(b, d, t, DownBody[d], T, V)
      BY <1>1, <1>2, <1>3, <1>5, <2>3 DEF DownPlan
    <2>5. PlanOf(b, d, Tail(s), T, V)
      BY <1>3, <2>2, <2>4 DEF PlanOf
    <2>6. QED
      BY <2>5 DEF d
  <1>6. QED
    BY <1>2, <1>4, <1>5

\* A table is known by its name.
LEMMA TableIs ==
    ASSUME NEW x \in Things, x.kind = "table"
    PROVE  x.name \in Names /\ x = Alone("table", x.name) /\ x.on = ""
  <1>1. x \notin Exts
    BY ExtFields
  <1>2. PICK t \in Names : x \in ObjectsOf(t)
    BY <1>1 DEF Things
  <1>3. x \in Tb(t)
    BY <1>2, ObjectsKinds
  <1>4. x.name = t /\ x.on = ""
    BY <1>3, TableFields
  <1>5. x = Alone("table", t)
    BY <1>3 DEF Tb
  <1>6. QED
    BY <1>2, <1>4, <1>5

\* An object on a table is one of the table's, and uses it.
LEMMA OnTable ==
    ASSUME NEW x \in Things, x.on # ""
    PROVE  x.on \in Names /\ x \in ObjectsOf(x.on) /\ Alone("table", x.on) \in Uses(x)
  <1>1. x \notin Exts
    BY ExtFields
  <1>2. PICK t \in Names : x \in ObjectsOf(t)
    BY <1>1 DEF Things
  <1>3. x \notin Tp(t) /\ x \notin Tb(t)
    BY TypeFields, TableFields
  <1>4. x.on = t
    BY <1>2, <1>3, ObjectsKinds, IndexFields, ProtectionFields
  <1>5. Alone("table", x.on) \in Uses(x)
    BY UsesMember
  <1>6. QED
    BY <1>2, <1>4, <1>5

\* The forced protection of the table o.
ForcedOn(o) == {f \in Things : f.kind = "forced" /\ Alone("table", f.on) = o}

\* A statement that is executed leaves the others, and takes its own object and
\* the forced protection of the table it drops.
LEMMA LeftStep ==
    ASSUME NEW W, \A x \in W : x.kind # "forced", NEW o \in W
    PROVE  /\ Left(W) = Left(W \ {o}) \cup {o} \cup ForcedOn(o)
           /\ Left(W \ {o}) \cap ({o} \cup ForcedOn(o)) = {}
           /\ o.kind # "table" => ForcedOn(o) = {}
  <1> DEFINE F == ForcedOn(o)
  <1>1. Left(W) = Left(W \ {o}) \cup {o} \cup F
    BY DEF Left, ForcedOn
  <1>2. o \notin Left(W \ {o})
    BY DEF Left
  <1>3. \A f \in F : f \notin Left(W \ {o})
    BY DEF Left, ForcedOn
  <1>4. ASSUME o.kind # "table" PROVE F = {}
    <2>1. \A u : Alone("table", u).kind = "table"
      BY DEF Alone, Obj
    <2>2. QED
      BY <1>4, <2>1 DEF ForcedOn
  <1>5. Left(W \ {o}) \cap ({o} \cup F) = {}
    BY <1>2, <1>3
  <1>6. QED
    BY <1>1, <1>4, <1>5

\* What is left of a downgrade is of its revision.
LEMMA LeftIn ==
    ASSUME NEW c \in 1..3, NEW W, W \subseteq Named(c)
    PROVE  /\ W \subseteq Left(W) /\ Left(W) \subseteq New(c) /\ W \subseteq New(c)
           /\ \A x \in W : x.kind # "forced"
           /\ \A x \in Left(W) : x \in W \/ (x \in Things /\ x.kind = "forced")
  <1>1. W \subseteq Left(W) /\ Left(W) \subseteq Left(Named(c))
    BY DEF Left
  <1>2. Left(W) \subseteq New(c)
    BY <1>1, LeftNamed
  <1>3. \A x \in W : x.kind # "forced"
    BY DEF Named, Bare
  <1>4. \A x \in Left(W) : x \in W \/ (x \in Things /\ x.kind = "forced")
    BY DEF Left
  <1>5. QED
    BY <1>1, <1>2, <1>3, <1>4

\* The objects of a revision are there from its version on.
LEMMA NewLevel ==
    ASSUME NEW c \in 1..3, NEW v \in 0..3
    PROVE  /\ c <= v => New(c) \subseteq ObjectsAt(v)
           /\ c > v => New(c) \cap ObjectsAt(v) = {}
           /\ New(c) \cap NewIn(c, v) = {} /\ New(c) \subseteq Things
  <1>1. c <= v => c \in 0 + 1..v
    OBVIOUS
  <1>2. c <= v => New(c) \subseteq ObjectsAt(v)
    BY <1>1 DEF ObjectsAt, NewIn
  <1>3. ASSUME c > v, NEW j \in 0 + 1..v PROVE New(c) \cap New(j) = {}
    <2>1. j \in 1..3 /\ j # c
      BY <1>3
    <2>2. QED
      BY <2>1, NewApart
  <1>4. c > v => New(c) \cap ObjectsAt(v) = {}
    BY <1>3 DEF ObjectsAt, NewIn
  <1>5. ASSUME NEW j \in c + 1..v PROVE New(c) \cap New(j) = {}
    <2>1. j \in 1..3 /\ j # c
      BY <1>5
    <2>2. QED
      BY <2>1, NewApart
  <1>6. New(c) \cap NewIn(c, v) = {}
    BY <1>5 DEF NewIn
  <1>7. QED
    BY <1>2, <1>4, <1>6, NewApart

\* A removal keeps the plan, with all that goes with a table.
LEMMA DroppingStep ==
    ASSUME NEW b \in 0..3, NEW c \in 0..3, NEW s, NEW T, NEW V, Dropping(b, c, s, T, V),
           NEW o, o = Head(s).what,
           NEW Z, NEW v \in 0..3, AtVersion(Z, v),
           Head(s).do = "drop" => o \in Z \ T,
           NEW A, A = {o} \cup (IF o.kind = "table" THEN {x \in Z \ T : x.on = o.name} ELSE {})
    PROVE  /\ A \subseteq Things
           /\ PlanOf(b, c, Tail(s), T \cup A, (Z \ T) \ A)
  <1>0. Z \subseteq Things /\ {x \in Z : x.kind # "extension"} = ObjectsAt(v)
    BY DEF AtVersion
  <1>1. PICK t, rest, W :
          /\ t \in 0..3
          /\ b >= c /\ c > t /\ rest # << >>
          /\ Downs(rest, W) /\ W \subseteq Named(c)
          /\ T = NewIn(c, b) \cup (New(c) \ Left(W)) /\ T \cap V = {}
          /\ Head(s) = Head(rest) /\ Tail(s) = Tail(rest) \o After(c, t)
    BY DEF Dropping
  <1>2. /\ Head(rest) \in Drops /\ o \in W /\ Downs(Tail(rest), W \ {o})
        /\ \A x \in W \ {o} : Before(x, o)
    BY <1>1, DownsTail
  <1>3. c \in 1..3
    BY <1>1
  <1>4. /\ W \subseteq Left(W) /\ Left(W) \subseteq New(c) /\ W \subseteq New(c)
        /\ \A x \in W : x.kind # "forced"
        /\ \A x \in Left(W) : x \in W \/ (x \in Things /\ x.kind = "forced")
    BY <1>1, <1>3, LeftIn
  <1>5. New(c) \cap NewIn(c, b) = {} /\ New(c) \subseteq Things /\ NewIn(c, b) \subseteq Things
    BY <1>1, <1>3, NewLevel, LevelsJoin
  <1> DEFINE F == ForcedOn(o)
  <1>6. /\ Left(W) = Left(W \ {o}) \cup {o} \cup F
        /\ Left(W \ {o}) \cap ({o} \cup F) = {}
        /\ o.kind # "table" => F = {}
    BY <1>2, <1>4, LeftStep
  <1>7. o \in Things /\ o \in New(c)
    BY <1>2, <1>4, <1>5
  <1>8. A = {o} \cup F
    <2>1. CASE o.kind # "table"
      BY <1>6, <2>1
    <2>2. CASE o.kind = "table"
      <3> DEFINE u == o.name
      <3>1. u \in Names /\ o = Alone("table", u) /\ o.on = ""
        BY <1>7, <2>2, TableIs
      <3> HIDE DEF u
      <3>2. Head(s).do = "drop"
        <4>1. o.kind = "table" => Head(rest).do # "dropIfExists"
          BY <1>1, <1>2 DEF Drops
        <4>2. QED
          BY <1>1, <1>2, <2>2, <4>1 DEF Drops
      <3>3. o \in ObjectsAt(v) /\ New(c) \subseteq Z
        <4>1. o \in ObjectsAt(v)
          BY <1>0, <2>2, <3>2
        <4>2. c <= v
          BY <1>3, <1>7, <4>1, NewLevel
        <4>3. QED
          BY <1>0, <1>3, <4>1, <4>2, NewLevel
      <3>4. ASSUME NEW f \in F PROVE f \in Z \ T /\ f.on = u
        <4>1. f \in Left(W) /\ f \in New(c)
          BY <1>4, <1>6
        <4>2. f \in Z \ T
          BY <1>1, <1>5, <3>3, <4>1
        <4>3. Alone("table", f.on) = Alone("table", u)
          BY <3>1 DEF ForcedOn
        <4>4. f.on = u
          BY <4>3 DEF Alone, Obj
        <4>5. QED
          BY <4>2, <4>4
      <3>5. ASSUME NEW x \in Z \ T, x.on = u PROVE x \in F
        <4>1. x.on # "" /\ x \in Things
          BY <1>0, <3>1, <3>5, NamesNotGin
        <4>2. x \in ObjectsOf(u) /\ o \in Uses(x)
          BY <3>1, <3>5, <4>1, OnTable
        <4>3. u \in TablesOf(c)
          <5>1. PICK w \in TablesOf(c) : o \in ObjectsOf(w)
            BY <1>7 DEF New
          <5>2. w \in Names
            BY <1>3, TablesOfNames
          <5>3. o \in ObjectsOf(u)
            BY <3>1, ObjectsOfIs DEF Tb
          <5>4. QED
            BY <3>1, <5>1, <5>2, <5>3, OneOwner
        <4>4. x \in New(c)
          BY <4>2, <4>3 DEF New
        <4>5. x \in Left(W)
          BY <1>1, <3>5, <4>4
        <4>6. x # o
          BY <3>1, <4>1
        <4>7. x \notin W
          BY <1>2, <4>2, <4>6 DEF Before
        <4>8. x.kind = "forced"
          BY <1>4, <4>5, <4>7
        <4>9. QED
          BY <3>1, <3>5, <4>1, <4>8 DEF ForcedOn
      <3>6. A = {o} \cup {x \in Z \ T : x.on = u}
        BY <2>2 DEF u
      <3> HIDE DEF F
      <3>7. F = {x \in Z \ T : x.on = u}
        BY <3>4, <3>5
      <3>8. QED
        BY <3>6, <3>7
    <2>3. QED
      BY <2>1, <2>2
  <1>9. A \subseteq Things
    BY <1>7, <1>8 DEF ForcedOn
  <1> HIDE DEF F
  <1>10. T \cup A = NewIn(c, b) \cup (New(c) \ Left(W \ {o}))
    BY <1>1, <1>4, <1>6, <1>8
  <1>11. W \ {o} \subseteq Named(c) /\ (T \cup A) \cap ((Z \ T) \ A) = {}
    BY <1>1
  <1>12. DownPlan(b, c, t, Tail(rest), T \cup A, (Z \ T) \ A)
    BY <1>1, <1>2, <1>10, <1>11 DEF DownPlan
  <1>13. PlanOf(b, c, Tail(s), T \cup A, (Z \ T) \ A)
    BY <1>1, <1>12 DEF PlanOf
  <1>14. QED
    BY <1>9, <1>13

\* An object that is there and that nothing depends on.
Free(o, X) == o \in X /\ Dependents(o, X) = {}

\* A run that began at the version of the schema never fails to drop.
LEMMA DroppingWorks ==
    ASSUME NEW b \in 0..3, NEW c \in 0..3, NEW s, NEW T, NEW V, Dropping(b, c, s, T, V),
           NEW o, o = Head(s).what,
           NEW Z, AtVersion(Z, b)
    PROVE  Free(o, Z \ T)
  <1>0. Z \subseteq Things /\ {x \in Z : x.kind # "extension"} = ObjectsAt(b)
    BY DEF AtVersion
  <1>1. PICK t, rest, W :
          /\ t \in 0..3
          /\ b >= c /\ c > t /\ rest # << >>
          /\ Downs(rest, W) /\ W \subseteq Named(c)
          /\ T = NewIn(c, b) \cup (New(c) \ Left(W)) /\ T \cap V = {}
          /\ Head(s) = Head(rest) /\ Tail(s) = Tail(rest) \o After(c, t)
    BY DEF Dropping
  <1>2. o \in W /\ \A x \in W \ {o} : Before(x, o)
    BY <1>1, DownsTail
  <1>3. c \in 1..3
    BY <1>1
  <1>4. /\ W \subseteq Left(W) /\ W \subseteq New(c)
        /\ \A x \in Left(W) : x \in W \/ (x \in Things /\ x.kind = "forced")
    BY <1>1, <1>3, LeftIn
  <1>5. New(c) \cap NewIn(c, b) = {} /\ New(c) \subseteq ObjectsAt(b)
    BY <1>1, <1>3, NewLevel
  <1>6. o \in Z \ T
    BY <1>0, <1>1, <1>2, <1>4, <1>5
  <1>7. ASSUME NEW x \in Z \ T, o \in Uses(x) PROVE o.kind = "table" /\ x.on = o.name
    <2>1. x \notin Exts /\ x \in Things
      BY <1>0, <1>7, ExtsUseNothing
    <2>2. PICK k \in 1..3 : x \in New(k)
      BY <2>1, NewApart
    <2>3. k <= b
      <3>1. x \in ObjectsAt(b)
        BY <1>0, <2>1, ExtensionThings
      <3>2. QED
        BY <2>2, <3>1, NewLevel
    <2>4. ~(k > c)
      <3>1. k > c => k \in c + 1..b
        BY <2>3
      <3>2. k > c => x \in NewIn(c, b)
        BY <2>2, <3>1 DEF NewIn
      <3>3. QED
        BY <1>1, <3>2
    <2>5. ~(k < c)
      <3>1. ASSUME k < c PROVE FALSE
        <4>1. PICK j \in 1..k : o \in Made(j)
          BY <1>7, <2>2, MadeUses, NewApart
        <4>2. j \in 1..3 /\ j # c
          BY <3>1
        <4>3. o \in Made(c)
          BY <1>2, <1>3, <1>4, NewApart
        <4>4. QED
          BY <1>3, <4>1, <4>2, <4>3, NewApart
      <3>2. QED
        BY <3>1
    <2>6. k = c
      BY <2>4, <2>5
    <2>7. x \in Left(W)
      BY <1>1, <2>2, <2>6
    <2>8. x # o
      BY <1>7, <2>2, MadeUses, NewApart
    <2>9. x \notin W
      BY <1>2, <1>7, <2>8 DEF Before
    <2>10. x.kind = "forced"
      BY <1>4, <2>7, <2>9
    <2>11. x.on \in Names /\ x \in ObjectsOf(x.on)
      BY <2>1, <2>10, ForcedIs
    <2>12. x \in Pr(x.on)
      BY <2>10, <2>11, ObjectsKinds
    <2>13. o \in Tb(x.on)
      BY <1>7, <2>11, <2>12, ProtectionUses
    <2>14. QED
      BY <2>13, TableFields
  <1>8. Dependents(o, Z \ T) = {}
    BY <1>7 DEF Dependents
  <1>9. QED
    BY <1>6, <1>8 DEF Free

\* At its end a run has made, or removed, all between two revisions.
LEMMA PlanEnds ==
    ASSUME NEW b \in 0..3, NEW c \in 0..3, NEW T, NEW V, PlanOf(b, c, << >>, T, V)
    PROVE  \/ b <= c /\ T = Between(b, c) /\ T \subseteq V
           \/ b >= c /\ T = NewIn(c, b) /\ T \cap V = {}
  <1>1. PICK t, rest :
          /\ t \in 0..3
          /\ << >> = rest \o After(c, t)
          /\ \/ UpPlan(b, c, t, rest, T, V) \/ DownPlan(b, c, t, rest, T, V)
             \/ StayPlan(b, c, t, rest, T, V)
    BY DEF PlanOf
  <1>2. ASSUME NEW r \in Seq(Statements), NEW a \in Seq(Statements), r \o a = << >>
        PROVE  a = << >>
    BY <1>2
  <1>3. ASSUME c # t, rest \in Seq(Statements) PROVE FALSE
    BY <1>1, <1>2, <1>3, AfterIs
  <1>4. CASE UpPlan(b, c, t, rest, T, V)
    <2>1. PICK W : Ups(rest, W)
      BY <1>4 DEF UpPlan
    <2>2. rest \in Seq(Creates) /\ Creates \subseteq Statements /\ c # t
      BY <1>4, <2>1 DEF Ups, Statements, UpPlan
    <2>3. \A i \in 1..Len(rest) : rest[i] \in Statements
      BY <2>2
    <2>4. rest \in Seq(Statements)
      BY <2>2, <2>3
    <2>5. QED
      BY <1>3, <2>2, <2>4
  <1>5. CASE DownPlan(b, c, t, rest, T, V)
    <2>1. PICK W : Downs(rest, W)
      BY <1>5 DEF DownPlan
    <2>2. rest \in Seq(Drops) /\ Drops \subseteq Statements /\ c # t
      BY <1>5, <2>1 DEF Downs, Statements, DownPlan
    <2>3. \A i \in 1..Len(rest) : rest[i] \in Statements
      BY <2>2
    <2>4. rest \in Seq(Statements)
      BY <2>2, <2>3
    <2>5. QED
      BY <1>3, <2>2, <2>4
  <1>6. CASE StayPlan(b, c, t, rest, T, V)
    BY <1>6 DEF StayPlan
  <1>7. QED
    BY <1>1, <1>4, <1>5, <1>6

-----------------------------------------------------------------------------
(* The inductive invariant.                                                *)

\* The version a run's work started from, by what is committed now: once it has
\* the version's row, no other run commits a version.
Base(m) == IF VersionRow \in touched[m] THEN version ELSE seen[m]
Done(m) == touched[m] \ {VersionRow}

\* The types of the variables, with the objects there are.
Types ==
    /\ version \in 0..3 /\ seen \in [Runs -> 0..3]
    /\ pc \in [Runs -> {"idle", "running", "succeeded", "failed"}]
    /\ killed \subseteq Killable /\ met \subseteq Runs
    /\ script \in [Runs -> Seq(Statements)]
    /\ view \in [Runs -> SUBSET Things]
    /\ touched \in [Runs -> SUBSET (Things \cup {VersionRow})]

\* The committed schema is that of the committed version; at most one run has
\* the version's row; a run that is not running holds nothing; a running run is
\* on its plan, and if it met no other it began at the committed version.
SchemaAtVersion == AtVersion(schema, version)
OneVersion == \A m, q \in Runs : VersionRow \in touched[m] /\ VersionRow \in touched[q] => m = q
AtRest == \A m \in Runs : pc[m] # "running" => view[m] = {} /\ touched[m] = {}
Plans == \A m \in Runs : pc[m] = "running" =>
    PlanOf(Base(m), seen[m], script[m], Done(m), view[m])
Unmet == \A m \in Runs : pc[m] = "running" /\ m \notin met => Running = {m} /\ Base(m) = version

IInv == Types /\ SchemaAtVersion /\ OneVersion /\ AtRest /\ Plans /\ Unmet /\ AloneSucceeds

\* The version's row is not an object of the schema.
LEMMA RowApart == VersionRow \notin Things /\ VersionRow.kind = "row"
  <1>1. VersionRow.kind = "row"
    BY DEF VersionRow, Alone, Obj
  <1>2. ASSUME NEW t, NEW x \in ObjectsOf(t) PROVE x.kind # "row"
    BY ObjectsKinds
  <1>3. \A x \in Things : x.kind # "row"
    BY <1>2, ExtFields DEF Things
  <1>4. QED
    BY <1>1, <1>3

\* The types of what a run has done.
LEMMA BaseIs ==
    ASSUME Types, NEW m \in Runs
    PROVE  Base(m) \in 0..3 /\ seen[m] \in 0..3 /\ Done(m) \subseteq Things
  BY DEF Types, Base, Done

\* What a run sees, going up and going down.
LEMMA SeenIs ==
    ASSUME Types, SchemaAtVersion, NEW m \in Runs
    PROVE  /\ Seen(m) \subseteq Things
           /\ Done(m) \subseteq view[m] => Seen(m) = schema \cup Done(m)
           /\ Done(m) \cap view[m] = {} => Seen(m) = schema \ Done(m)
  <1>1. VersionRow \notin schema /\ VersionRow \notin view[m]
    BY RowApart DEF Types, SchemaAtVersion, AtVersion
  <1>2. Seen(m) \subseteq Things
    BY DEF Types, Seen, SchemaAtVersion, AtVersion
  <1>3. Done(m) \subseteq view[m] => Seen(m) = schema \cup Done(m)
    BY <1>1 DEF Seen, Done
  <1>4. Done(m) \cap view[m] = {} => Seen(m) = schema \ Done(m)
    BY <1>1 DEF Seen, Done
  <1>5. QED
    BY <1>2, <1>3, <1>4

\* The statements of a run that is alone do not fail.
LEMMA AloneWorks ==
    ASSUME IInv, NEW m \in Runs, pc[m] = "running", m \notin met, script[m] # << >>
    PROVE  ~Fails(m, Head(script[m])) /\ Holders(m, Head(script[m])) = {}
  <1> DEFINE s == script[m]
             b == Base(m)
             c == seen[m]
             T == Done(m)
             V == view[m]
  <1>1. b \in 0..3 /\ c \in 0..3 /\ T \subseteq Things
    BY BaseIs DEF IInv
  <1>2. PlanOf(b, c, s, T, V) /\ Running = {m} /\ b = version
    BY DEF IInv, Plans, Unmet
  <1>3. /\ AtVersion(schema, b)
        /\ {x \in schema : x.kind # "extension"} = ObjectsAt(b)
    BY <1>2 DEF IInv, SchemaAtVersion, AtVersion
  <1>4. /\ T \subseteq V => Seen(m) = schema \cup T
        /\ T \cap V = {} => Seen(m) = schema \ T
    BY SeenIs DEF IInv
  <1>5. Holders(m, Head(s)) = {}
    BY <1>2 DEF Holders
  <1>6. VersionRow \in touched[m] \/ version = c
    BY <1>2 DEF Base
  <1> HIDE DEF b, c, T, V, s
  <1>7. \/ Creating(b, c, s, T, V) \/ Dropping(b, c, s, T, V)
        \/ SteppingUp(b, c, s, T, V) \/ SteppingDown(b, c, s, T, V)
    BY <1>1, <1>2, PlanCases DEF s
  <1>8. CASE Creating(b, c, s, T, V)
    <2> DEFINE o == Head(s).what
    <2>1. Head(s).do = "create" /\ o = Head(s).what
      BY <1>1, <1>8, StepDoes DEF Creates
    <2> HIDE DEF o
    <2>2. T \subseteq V /\ o \notin ObjectsAt(b) \cup T /\ Uses(o) \subseteq ObjectsAt(b) \cup T
      BY <1>1, <1>8, <2>1, CreatingStep
    <2>3. Seen(m) = schema \cup T
      BY <1>4, <2>2
    <2>4. o \in Seen(m) => o.kind = "extension"
      BY <1>3, <2>2, <2>3
    <2>5. Uses(o) \subseteq Seen(m)
      BY <1>3, <2>2, <2>3
    <2>6. QED
      BY <1>5, <2>1, <2>4, <2>5 DEF Fails, s
  <1>9. CASE Dropping(b, c, s, T, V)
    <2> DEFINE o == Head(s).what
    <2>1. (Head(s).do = "drop" \/ Head(s).do = "dropIfExists") /\ o = Head(s).what
      BY <1>1, <1>9, StepDoes DEF Drops
    <2> HIDE DEF o
    <2>2. Free(o, schema \ T)
      BY <1>1, <1>3, <1>9, <2>1, DroppingWorks
    <2>3. Seen(m) = schema \ T
      BY <1>4, <1>9 DEF Dropping
    <2>4. QED
      BY <1>5, <2>1, <2>2, <2>3 DEF Fails, Free, s
  <1>10. CASE SteppingUp(b, c, s, T, V) \/ SteppingDown(b, c, s, T, V)
    <2>1. PICK d : Head(s) = Version(c, d)
      BY <1>1, <1>10, StepDoes
    <2>2. Head(s).do = "version" /\ Head(s).from = c
      BY <2>1 DEF Version
    <2>3. QED
      BY <1>5, <1>6, <2>2 DEF Fails, s
  <1>11. QED
    BY <1>7, <1>8, <1>9, <1>10

-----------------------------------------------------------------------------
(* Every step keeps the invariant.                                         *)

\* The invariant holds of the empty database.
LEMMA InitIInv == Init => IInv
  <1> SUFFICES ASSUME Init PROVE IInv
    OBVIOUS
  <1>1. Types
    <2>1. << >> \in Seq(Statements)
      OBVIOUS
    <2>2. QED
      BY <2>1 DEF Init, Types
  <1>2. SchemaAtVersion
    <2>1. ObjectsAt(0) = {}
      BY LevelsEmpty DEF ObjectsAt
    <2>2. QED
      BY <2>1 DEF Init, SchemaAtVersion, AtVersion
  <1>3. OneVersion /\ AtRest /\ Plans /\ Unmet /\ AloneSucceeds
    BY DEF Init, OneVersion, AtRest, Plans, Unmet, AloneSucceeds
  <1>4. QED
    BY <1>1, <1>2, <1>3 DEF IInv

\* A run that was running without having met another is the only one.
LEMMA OthersMet ==
    ASSUME IInv, NEW m \in Runs, pc[m] = "running", NEW q \in Runs, q # m, pc[q] = "running"
    PROVE  q \in met
  BY DEF IInv, Unmet, Running

\* Beginning a run keeps the invariant.
LEMMA BeginKeeps ==
    ASSUME IInv, NEW m \in Runs, NEW t \in Targets, Begin(m, t)
    PROVE  IInv'
  <1>1. version \in 0..3 /\ t \in 0..3
    BY RunAssumption DEF IInv, Types
  <1>2. /\ pc[m] = "idle" /\ pc' = [pc EXCEPT ![m] = "running"]
        /\ script' = [script EXCEPT ![m] = Script(version, t)]
        /\ view' = [view EXCEPT ![m] = schema]
        /\ seen' = [seen EXCEPT ![m] = version]
        /\ met' = IF Running = {} THEN met ELSE met \cup Running \cup {m}
        /\ UNCHANGED <<schema, version, touched, killed>>
    BY DEF Begin
  <1>3. PlanOf(version, version, Script(version, t), {}, schema)
        /\ Script(version, t) \in Seq(Statements)
    BY <1>1, ScriptPlan
  <1>4. Types'
    BY <1>1, <1>2, <1>3 DEF IInv, Types, Running, SchemaAtVersion, AtVersion
  <1>5. touched[m] = {}
    BY <1>2 DEF IInv, AtRest
  <1>6. /\ pc'[m] = "running" /\ script'[m] = Script(version, t) /\ view'[m] = schema
        /\ seen'[m] = version
        /\ \A q \in Runs : q # m => /\ pc'[q] = pc[q] /\ script'[q] = script[q]
                                    /\ view'[q] = view[q] /\ seen'[q] = seen[q]
    BY <1>2 DEF IInv, Types
  <1>7. Base(m)' = version /\ Done(m)' = {} /\ \A q \in Runs : q # m => Base(q)' = Base(q)
    BY <1>2, <1>5, <1>6 DEF Base, Done
  <1>8. SchemaAtVersion' /\ OneVersion' /\ AtRest'
    BY <1>2, <1>6 DEF IInv, SchemaAtVersion, OneVersion, AtRest
  <1>9. Plans'
    <2>1. PlanOf(Base(m)', seen'[m], script'[m], Done(m)', view'[m])
      BY <1>3, <1>6, <1>7
    <2>2. ASSUME NEW q \in Runs, q # m, pc'[q] = "running"
          PROVE  PlanOf(Base(q)', seen'[q], script'[q], Done(q)', view'[q])
      <3>1. PlanOf(Base(q), seen[q], script[q], Done(q), view[q])
        BY <1>6, <2>2 DEF IInv, Plans
      <3>2. Done(q)' = Done(q)
        BY <1>2 DEF Done
      <3>3. QED
        BY <1>6, <1>7, <2>2, <3>1, <3>2
    <2>3. QED
      BY <2>1, <2>2 DEF Plans
  <1>10. Unmet'
    <2>1. CASE Running = {}
      <3>1. Running' = {m}
        BY <1>6, <2>1 DEF Running
      <3>2. QED
        BY <1>2, <1>7, <3>1 DEF Unmet, Running
    <2>2. CASE Running # {}
      <3>1. \A q \in Runs : pc'[q] = "running" => q \in met'
        BY <1>2, <1>6, <2>2 DEF Running
      <3>2. QED
        BY <3>1 DEF Unmet
    <2>3. QED
      BY <2>1, <2>2
  <1>11. AloneSucceeds'
    BY <1>2, <1>6 DEF IInv, AloneSucceeds
  <1>12. QED
    BY <1>4, <1>8, <1>9, <1>10, <1>11 DEF IInv

\* A run that ends leaves nothing behind.
LEMMA AbortKeeps ==
    ASSUME IInv, NEW m \in Runs, pc[m] = "running", Abort(m),
           killed' \subseteq Killable, killed \subseteq killed', m \in killed' \cup met
    PROVE  IInv'
  <1>1. /\ pc' = [pc EXCEPT ![m] = "failed"] /\ script' = [script EXCEPT ![m] = << >>]
        /\ view' = [view EXCEPT ![m] = {}] /\ touched' = [touched EXCEPT ![m] = {}]
        /\ UNCHANGED <<schema, version, seen, met>>
    BY DEF Abort
  <1>2. Types'
    <2>1. << >> \in Seq(Statements)
      OBVIOUS
    <2>2. QED
      BY <1>1, <2>1 DEF IInv, Types
  <1>3. /\ pc'[m] = "failed" /\ view'[m] = {} /\ touched'[m] = {}
        /\ \A q \in Runs : q # m => /\ pc'[q] = pc[q] /\ script'[q] = script[q]
                                    /\ view'[q] = view[q] /\ touched'[q] = touched[q]
    BY <1>1 DEF IInv, Types
  <1>4. SchemaAtVersion' /\ OneVersion' /\ AtRest'
    BY <1>1, <1>3 DEF IInv, SchemaAtVersion, OneVersion, AtRest
  <1>5. \A q \in Runs : q # m => Base(q)' = Base(q) /\ Done(q)' = Done(q)
    BY <1>1, <1>3 DEF Base, Done
  <1>6. Plans'
    <2>1. ASSUME NEW q \in Runs, pc'[q] = "running"
          PROVE  PlanOf(Base(q)', seen'[q], script'[q], Done(q)', view'[q])
      <3>1. q # m /\ pc[q] = "running"
        BY <1>3, <2>1
      <3>2. PlanOf(Base(q), seen[q], script[q], Done(q), view[q])
        BY <3>1 DEF IInv, Plans
      <3>3. QED
        BY <1>1, <1>3, <1>5, <3>1, <3>2
    <2>2. QED
      BY <2>1 DEF Plans
  <1>7. Unmet'
    <2>1. \A q \in Runs : pc'[q] = "running" => q \in met
      BY <1>3, OthersMet
    <2>2. QED
      BY <1>1, <2>1 DEF Unmet
  <1>8. AloneSucceeds'
    BY <1>1, <1>3 DEF IInv, AloneSucceeds
  <1>9. QED
    BY <1>2, <1>4, <1>6, <1>7, <1>8 DEF IInv

\* A run that fails had met another.
LEMMA FailKeeps ==
    ASSUME IInv, NEW m \in Runs, Fail(m)
    PROVE  IInv'
  <1>1. pc[m] = "running" /\ script[m] # << >> /\ Abort(m) /\ killed' = killed
    BY DEF Fail
  <1>2. \/ Holders(m, Head(script[m])) # {}
        \/ Fails(m, Head(script[m]))
    BY DEF Fail
  <1>3. m \in met
    BY <1>1, <1>2, AloneWorks
  <1>4. killed \subseteq Killable
    BY DEF IInv, Types
  <1>5. QED
    BY <1>1, <1>3, <1>4, AbortKeeps

\* Killing a run keeps the invariant.
LEMMA KillKeeps ==
    ASSUME IInv, NEW m \in Runs, Kill(m)
    PROVE  IInv'
  <1>1. pc[m] = "running" /\ m \in Killable /\ Abort(m) /\ killed' = killed \cup {m}
    BY DEF Kill
  <1>2. killed' \subseteq Killable /\ killed \subseteq killed' /\ m \in killed' \cup met
    BY <1>1 DEF IInv, Types
  <1>3. QED
    BY <1>1, <1>2, AbortKeeps

\* A step that only moves one run along its plan.
LEMMA AlongPlan ==
    ASSUME IInv, NEW m \in Runs, pc[m] = "running",
           UNCHANGED <<schema, version, pc, killed, met>>, Types', OneVersion',
           \A q \in Runs : q # m => /\ script'[q] = script[q] /\ view'[q] = view[q]
                                    /\ touched'[q] = touched[q] /\ seen'[q] = seen[q],
           Base(m)' = Base(m),
           PlanOf(Base(m), seen'[m], script'[m], Done(m)', view'[m])
    PROVE  IInv'
  <1>1. SchemaAtVersion' /\ AtRest' /\ AloneSucceeds'
    BY DEF IInv, SchemaAtVersion, AtRest, AloneSucceeds
  <1>2. \A q \in Runs : q # m => Base(q)' = Base(q) /\ Done(q)' = Done(q)
    BY DEF Base, Done
  <1>3. Plans'
    <2>1. ASSUME NEW q \in Runs, q # m, pc[q] = "running"
          PROVE  PlanOf(Base(q)', seen'[q], script'[q], Done(q)', view'[q])
      <3>1. PlanOf(Base(q), seen[q], script[q], Done(q), view[q])
        BY <2>1 DEF IInv, Plans
      <3>2. QED
        BY <1>2, <2>1, <3>1
    <2>2. PlanOf(Base(m)', seen'[m], script'[m], Done(m)', view'[m])
      OBVIOUS
    <2>3. QED
      BY <2>1, <2>2 DEF Plans
  <1>4. Unmet'
    <2>1. Running' = Running
      BY DEF Running
    <2>2. \A q \in Runs : Base(q)' = Base(q)
      BY <1>2
    <2>3. QED
      BY <2>1, <2>2 DEF IInv, Unmet
  <1>5. QED
    BY <1>1, <1>3, <1>4 DEF IInv

\* Every statement keeps the invariant.
LEMMA ExecuteKeeps ==
    ASSUME IInv, NEW m \in Runs, Execute(m)
    PROVE  IInv'
  <1> DEFINE s == script[m]
             b == Base(m)
             c == seen[m]
             T == Done(m)
             V == view[m]
             o == Head(script[m]).what
             h == Head(script[m])
  <1>1. /\ pc[m] = "running" /\ s # << >> /\ Holders(m, h) = {} /\ ~Fails(m, h)
        /\ script' = [script EXCEPT ![m] = Tail(@)]
        /\ UNCHANGED <<schema, version, pc, killed, met>>
    BY DEF Execute
  <1>2. b \in 0..3 /\ c \in 0..3 /\ T \subseteq Things /\ version \in 0..3
    BY BaseIs DEF IInv, Types
  <1>3. PlanOf(b, c, s, T, V) /\ AtVersion(schema, version)
    BY <1>1 DEF IInv, Plans, SchemaAtVersion
  <1>4. /\ Seen(m) \subseteq Things
        /\ T \subseteq V => Seen(m) = schema \cup T
        /\ T \cap V = {} => Seen(m) = schema \ T
    BY SeenIs DEF IInv
  <1>5. /\ script'[m] = Tail(s) /\ script' \in [Runs -> Seq(Statements)]
        /\ \A q \in Runs : q # m => script'[q] = script[q]
    <2>1. s \in Seq(Statements)
      BY DEF IInv, Types
    <2>2. Tail(s) \in Seq(Statements)
      BY <1>1, <2>1, TailFields
    <2>3. QED
      BY <1>1, <2>2 DEF IInv, Types
  <1>6. \/ Creating(b, c, s, T, V) \/ Dropping(b, c, s, T, V)
        \/ SteppingUp(b, c, s, T, V) \/ SteppingDown(b, c, s, T, V)
    <2> HIDE DEF b, c, s, T, V
    <2>1. QED
      BY <1>1, <1>2, <1>3, PlanCases
  <1>7. ASSUME h.do # "version", NEW A, A = Affected(m, h), A \subseteq Things,
               NEW X, view'[m] = X, X \subseteq Things,
               X = IF h.do = "create" THEN Seen(m) \cup {o} ELSE Seen(m) \ A,
               PlanOf(b, c, Tail(s), T \cup A, X)
        PROVE  IInv'
    <2>1. /\ touched' = [touched EXCEPT ![m] = @ \cup A] /\ seen' = seen
          /\ view' = [view EXCEPT ![m] = X]
      BY <1>7 DEF Execute
    <2>2. /\ touched'[m] = touched[m] \cup A
          /\ \A q \in Runs : q # m => touched'[q] = touched[q] /\ view'[q] = view[q]
      BY <2>1 DEF IInv, Types
    <2>3. VersionRow \notin A
      BY <1>7, RowApart
    <2>4. Types'
      BY <1>1, <1>5, <1>7, <2>1 DEF IInv, Types
    <2>5. Base(m)' = Base(m) /\ Done(m)' = T \cup A
      BY <1>1, <2>1, <2>2, <2>3 DEF Base, Done
    <2>6. OneVersion'
      BY <2>2, <2>3 DEF IInv, OneVersion
    <2>7. PlanOf(Base(m), seen'[m], script'[m], Done(m)', view'[m])
      BY <1>5, <1>7, <2>1, <2>5
    <2>8. QED
      BY <1>1, <1>5, <2>1, <2>2, <2>4, <2>5, <2>6, <2>7, AlongPlan
  <1>8. ASSUME h.do # "version"
        PROVE  view'[m] = IF h.do = "create" THEN Seen(m) \cup {o} ELSE Seen(m) \ Affected(m, h)
    BY <1>8 DEF Execute, IInv, Types
  <1>9. CASE Creating(b, c, s, T, V)
    <2>1. h \in Creates
      <3> HIDE DEF b, c, s, T, V
      <3>1. Head(s) \in Creates
        BY <1>2, <1>9, StepDoes
      <3>2. QED
        BY <3>1 DEF s
    <2>2. h.do = "create"
      BY <2>1 DEF Creates
    <2>3. o \in Things /\ T \subseteq V /\ Grows(b, c, s, T, o)
      <3> DEFINE x == o
      <3>1. x = Head(s).what
        OBVIOUS
      <3> HIDE DEF b, c, s, T, V, x
      <3>2. x \in Things /\ T \subseteq V /\ Grows(b, c, s, T, x)
        BY <1>2, <1>9, <3>1, CreatingStep
      <3>3. QED
        BY <3>2 DEF x
    <2>4. T \subseteq Seen(m)
      BY <1>4, <2>3
    <2>5. PlanOf(b, c, Tail(s), T \cup {o}, Seen(m) \cup {o})
      BY <2>3, <2>4 DEF Grows
    <2>6. Affected(m, h) = {o}
      BY <2>2 DEF Affected
    <2>7. view'[m] = Seen(m) \cup {o}
      BY <1>8, <2>2
    <2>8. QED
      BY <1>4, <1>7, <2>2, <2>3, <2>5, <2>6, <2>7
  <1>10. CASE Dropping(b, c, s, T, V)
    <2>1. h \in Drops
      <3> HIDE DEF b, c, s, T, V
      <3>1. Head(s) \in Drops
        BY <1>2, <1>10, StepDoes
      <3>2. QED
        BY <3>1 DEF s
    <2>2. h.do = "drop" \/ h.do = "dropIfExists"
      BY <2>1 DEF Drops
    <2>3. T \cap V = {} /\ Seen(m) = schema \ T
      BY <1>4, <1>10 DEF Dropping
    <2> DEFINE A == {o} \cup (IF o.kind = "table" THEN {x \in schema \ T : x.on = o.name} ELSE {})
               X == (schema \ T) \ A
    <2>4. Affected(m, h) = A
      BY <2>2, <2>3 DEF Affected
    <2>5. h.do = "drop" => o \in schema \ T
      BY <1>1, <2>3 DEF Fails
    <2>6. A \subseteq Things /\ PlanOf(b, c, Tail(s), T \cup A, X)
      <3> DEFINE x == o
                 Y == A
                 Z == schema
      <3>1. x = Head(s).what /\ (Head(s).do = "drop" => x \in Z \ T)
        BY <2>5
      <3>2. Y = {x} \cup (IF x.kind = "table" THEN {y \in Z \ T : y.on = x.name} ELSE {})
        OBVIOUS
      <3>3. AtVersion(Z, version)
        BY <1>3
      <3> HIDE DEF b, c, s, T, V, x, Y, Z
      <3>4. Y \subseteq Things /\ PlanOf(b, c, Tail(s), T \cup Y, (Z \ T) \ Y)
        BY <1>2, <1>10, <3>1, <3>2, <3>3, DroppingStep
      <3>5. QED
        BY <3>4 DEF x, Y, Z
    <2>7. X \subseteq Things
      BY <1>3 DEF AtVersion
    <2>8. view'[m] = X
      BY <1>8, <2>2, <2>3, <2>4
    <2>9. X = IF h.do = "create" THEN Seen(m) \cup {o} ELSE Seen(m) \ A
      BY <2>2, <2>3
    <2> HIDE DEF A, X
    <2>10. QED
      BY <1>7, <2>2, <2>4, <2>6, <2>7, <2>8, <2>9
  <1>11. CASE SteppingUp(b, c, s, T, V) \/ SteppingDown(b, c, s, T, V)
    <2>1. PICK d \in 0..3 : h = Version(c, d) /\ PlanOf(b, d, Tail(s), T, V)
      <3> HIDE DEF b, c, s, T, V
      <3>1. CASE SteppingUp(b, c, s, T, V)
        <4>1. Head(s) = Version(c, c + 1) /\ c < 3
          BY <1>2, <3>1, StepDoes
        <4>2. PlanOf(b, c + 1, Tail(s), T, V)
          BY <1>2, <3>1, SteppingUpStep
        <4>3. c + 1 \in 0..3
          BY <1>2, <4>1
        <4>4. QED
          BY <4>1, <4>2, <4>3 DEF s
      <3>2. CASE SteppingDown(b, c, s, T, V)
        <4>1. Head(s) = Version(c, c - 1) /\ c > 0
          BY <1>2, <3>2, StepDoes
        <4>2. PlanOf(b, c - 1, Tail(s), T, V)
          BY <1>2, <3>2, SteppingDownStep
        <4>3. c - 1 \in 0..3
          BY <1>2, <4>1
        <4>4. QED
          BY <4>1, <4>2, <4>3 DEF s
      <3>3. QED
        BY <1>11, <3>1, <3>2
    <2>2. h.do = "version" /\ h.from = c /\ h.to = d
      BY <2>1 DEF Version
    <2>3. /\ seen' = [seen EXCEPT ![m] = d]
          /\ touched' = [touched EXCEPT ![m] = @ \cup {VersionRow}]
          /\ view' = view
      BY <2>2 DEF Execute
    <2>4. /\ touched'[m] = touched[m] \cup {VersionRow} /\ seen'[m] = d
          /\ \A q \in Runs : q # m => touched'[q] = touched[q] /\ seen'[q] = seen[q]
      BY <2>3 DEF IInv, Types
    <2>5. Types'
      BY <1>1, <1>5, <2>1, <2>3 DEF IInv, Types
    <2>6. VersionRow \in touched[m] \/ version = c
      BY <1>1, <2>2 DEF Fails
    <2>7. b = version
      BY <2>6 DEF Base
    <2>8. Base(m)' = b /\ Done(m)' = T
      BY <1>1, <2>4, <2>7 DEF Base, Done
    <2>9. \A q \in Runs : q # m => VersionRow \notin touched[q]
      <3>1. Footprint(h) = {VersionRow}
        BY <2>2 DEF Footprint
      <3>2. \A q \in Running : q # m => VersionRow \notin touched[q]
        BY <1>1, <3>1 DEF Holders
      <3>3. QED
        BY <3>2 DEF IInv, AtRest, Running
    <2>10. OneVersion'
      BY <2>4, <2>9 DEF OneVersion
    <2>11. PlanOf(Base(m), seen'[m], script'[m], Done(m)', view'[m])
      BY <1>5, <2>1, <2>3, <2>4, <2>8
    <2>12. QED
      BY <1>1, <1>5, <2>3, <2>4, <2>5, <2>8, <2>10, <2>11, AlongPlan
  <1>12. QED
    BY <1>6, <1>9, <1>10, <1>11

\* What a run that has come to its end leaves is the schema of its version.
LEMMA EndsAtVersion ==
    ASSUME NEW b \in 0..3, NEW c \in 0..3, NEW T, NEW V, PlanOf(b, c, << >>, T, V),
           NEW Z, AtVersion(Z, b), T \subseteq Things
    PROVE  /\ T \subseteq V => AtVersion(Z \cup T, c)
           /\ T \cap V = {} => AtVersion(Z \ T, c)
           /\ T \subseteq V \/ T \cap V = {}
  <1>1. Z \subseteq Things /\ {x \in Z : x.kind # "extension"} = NewIn(0, b)
    BY DEF AtVersion, ObjectsAt
  <1>2. \A x \in Things : x.kind = "extension" <=> x \in Exts
    BY ExtensionThings
  <1>3. CASE b <= c /\ T = Between(b, c) /\ T \subseteq V
    <2>1. /\ NewIn(0, c) = NewIn(0, b) \cup NewIn(b, c)
          /\ NewIn(b, c) = {x \in T : x \notin Exts}
      BY <1>3, LevelsJoin
    <2>2. {x \in Z \cup T : x.kind # "extension"} = NewIn(0, c)
      BY <1>1, <1>2, <2>1
    <2>3. AtVersion(Z \cup T, c)
      BY <1>1, <2>2 DEF AtVersion, ObjectsAt
    <2>4. T \cap V = {} => T = {}
      BY <1>3
    <2>5. T = {} => Z \ T = Z \cup T
      OBVIOUS
    <2>6. QED
      BY <1>3, <2>3, <2>4, <2>5
  <1>4. CASE b >= c /\ T = NewIn(c, b) /\ T \cap V = {}
    <2>1. c <= b
      BY <1>4
    <2>2. /\ NewIn(0, b) = NewIn(0, c) \cup NewIn(c, b) /\ NewIn(0, c) \subseteq Things
          /\ NewIn(0, c) \cap NewIn(c, b) = {} /\ NewIn(c, b) \cap Exts = {}
          /\ NewIn(0, c) \cap Exts = {}
      BY <2>1, LevelsJoin, LevelsApart
    <2>3. {x \in Z \ T : x.kind # "extension"} = NewIn(0, c)
      BY <1>1, <1>2, <1>4, <2>2
    <2>4. AtVersion(Z \ T, c)
      BY <1>1, <2>3 DEF AtVersion, ObjectsAt
    <2>5. T \subseteq V => T = {}
      BY <1>4
    <2>6. T = {} => Z \ T = Z \cup T
      OBVIOUS
    <2>7. QED
      BY <1>4, <2>4, <2>5, <2>6
  <1>5. QED
    BY <1>3, <1>4, PlanEnds

\* Committing keeps the invariant: the schema becomes that of the new version.
LEMMA CommitKeeps ==
    ASSUME IInv, NEW m \in Runs, Commit(m)
    PROVE  IInv'
  <1> DEFINE b == Base(m)
             c == seen[m]
             T == Done(m)
             V == view[m]
  <1>1. /\ pc[m] = "running" /\ script[m] = << >> /\ pc' = [pc EXCEPT ![m] = "succeeded"]
        /\ schema' = Seen(m)
        /\ version' = IF VersionRow \in touched[m] THEN c ELSE version
        /\ view' = [view EXCEPT ![m] = {}] /\ touched' = [touched EXCEPT ![m] = {}]
        /\ UNCHANGED <<script, seen, killed, met>>
    BY DEF Commit
  <1>2. b \in 0..3 /\ c \in 0..3 /\ T \subseteq Things /\ version \in 0..3
    BY BaseIs DEF IInv, Types
  <1>3. PlanOf(b, c, << >>, T, V) /\ AtVersion(schema, version)
    BY <1>1 DEF IInv, Plans, SchemaAtVersion
  <1>4. /\ T \subseteq V => Seen(m) = schema \cup T
        /\ T \cap V = {} => Seen(m) = schema \ T
    BY SeenIs DEF IInv
  <1>5. AtVersion(schema', version')
    <2>1. CASE VersionRow \in touched[m]
      <3>1. b = version /\ version' = c
        BY <1>1, <2>1 DEF Base
      <3> HIDE DEF b, c, T, V
      <3>2. /\ T \subseteq V => AtVersion(schema \cup T, c)
            /\ T \cap V = {} => AtVersion(schema \ T, c)
            /\ T \subseteq V \/ T \cap V = {}
        BY <1>2, <1>3, <3>1, EndsAtVersion
      <3>3. QED
        BY <1>1, <1>4, <3>1, <3>2
    <2>2. CASE VersionRow \notin touched[m]
      <3>1. b = c /\ version' = version
        BY <1>1, <2>2 DEF Base
      <3>2. T = {}
        <4> HIDE DEF b, c, T, V
        <4>1. Between(b, c) = {} /\ NewIn(c, b) = {}
          BY <1>2, <3>1, LevelsEmpty
        <4>2. QED
          BY <1>2, <1>3, <4>1, PlanEnds
      <3>3. schema' = schema
        BY <1>1, <1>4, <3>2
      <3>4. QED
        BY <1>3, <3>1, <3>3
    <2>3. QED
      BY <2>1, <2>2
  <1>6. /\ pc'[m] = "succeeded" /\ view'[m] = {} /\ touched'[m] = {}
        /\ \A q \in Runs : q # m => /\ pc'[q] = pc[q] /\ view'[q] = view[q]
                                    /\ touched'[q] = touched[q]
    BY <1>1 DEF IInv, Types
  <1>7. Types'
    BY <1>1, <1>2 DEF IInv, Types
  <1>8. SchemaAtVersion' /\ OneVersion' /\ AtRest' /\ AloneSucceeds'
    BY <1>1, <1>5, <1>6 DEF IInv, SchemaAtVersion, OneVersion, AtRest, AloneSucceeds
  <1>9. \A q \in Runs : q # m => Base(q)' = Base(q) /\ Done(q)' = Done(q)
    <2>1. ASSUME NEW q \in Runs, q # m, VersionRow \in touched[q] PROVE version' = version
      BY <1>1, <2>1 DEF IInv, OneVersion
    <2>2. QED
      BY <1>1, <1>6, <2>1 DEF Base, Done
  <1>10. Plans'
    <2>1. ASSUME NEW q \in Runs, pc'[q] = "running"
          PROVE  PlanOf(Base(q)', seen'[q], script'[q], Done(q)', view'[q])
      <3>1. q # m /\ pc[q] = "running"
        BY <1>6, <2>1
      <3>2. PlanOf(Base(q), seen[q], script[q], Done(q), view[q])
        BY <3>1 DEF IInv, Plans
      <3>3. QED
        BY <1>1, <1>6, <1>9, <3>1, <3>2
    <2>2. QED
      BY <2>1 DEF Plans
  <1>11. Unmet'
    <2>1. \A q \in Runs : pc'[q] = "running" => q \in met
      BY <1>1, <1>6, OthersMet
    <2>2. QED
      BY <1>1, <2>1 DEF Unmet
  <1>12. QED
    BY <1>7, <1>8, <1>10, <1>11 DEF IInv

\* Every step keeps the invariant.
LEMMA NextIInv == IInv /\ [Next]_vars => IInv'
  <1> SUFFICES ASSUME IInv, [Next]_vars PROVE IInv'
    OBVIOUS
  <1>1. ASSUME NEW m \in Runs, NEW t \in Targets, Begin(m, t) PROVE IInv'
    BY <1>1, BeginKeeps
  <1>2. ASSUME NEW m \in Runs, Execute(m) PROVE IInv'
    BY <1>2, ExecuteKeeps
  <1>3. ASSUME NEW m \in Runs, Fail(m) PROVE IInv'
    BY <1>3, FailKeeps
  <1>4. ASSUME NEW m \in Runs, Kill(m) PROVE IInv'
    BY <1>4, KillKeeps
  <1>5. ASSUME NEW m \in Runs, Commit(m) PROVE IInv'
    BY <1>5, CommitKeeps
  <1>6. CASE UNCHANGED vars
    <2>1. /\ schema' = schema /\ version' = version /\ pc' = pc /\ script' = script
          /\ view' = view /\ touched' = touched /\ seen' = seen /\ killed' = killed
          /\ met' = met
      BY <1>6 DEF vars
    <2>2. \A m \in Runs : Base(m)' = Base(m) /\ Done(m)' = Done(m)
      BY <2>1 DEF Base, Done
    <2>3. Types' /\ SchemaAtVersion' /\ OneVersion' /\ AtRest' /\ AloneSucceeds'
      BY <2>1 DEF IInv, Types, SchemaAtVersion, OneVersion, AtRest, AloneSucceeds
    <2>4. Plans'
      BY <2>1, <2>2 DEF IInv, Plans
    <2>5. Unmet'
      <3>1. Running' = Running
        BY <2>1 DEF Running
      <3>2. QED
        BY <2>1, <2>2, <3>1 DEF IInv, Unmet
    <2>6. QED
      BY <2>3, <2>4, <2>5 DEF IInv
  <1>7. QED
    BY <1>1, <1>2, <1>3, <1>4, <1>5, <1>6 DEF Next, Terminating

\* Whatever runs of alembic meet, fail, are killed or commit, in any number and
\* asked for any revisions: the schema is that of its version, and every run is
\* on its plan.
THEOREM MigrationsInvariant == Spec => []IInv
  BY InitIInv, NextIInv, PTL DEF Spec

\* The elements of two sequences.
LEMMA ToSetCat ==
    ASSUME NEW S, NEW a \in Seq(S), NEW b \in Seq(S)
    PROVE  a \o b \in Seq(S) /\ ToSet(a \o b) = ToSet(a) \cup ToSet(b)
  <1> DEFINE m == Len(a)
             n == Len(b)
             r == a \o b
  <1>1. /\ m \in Nat /\ n \in Nat /\ r \in Seq(S)
        /\ DOMAIN a = 1..m /\ DOMAIN b = 1..n /\ DOMAIN r = 1..m + n
        /\ \A i \in 1..m : r[i] = a[i]
        /\ \A i \in m + 1..m + n : r[i] = b[i - m]
    OBVIOUS
  <1> HIDE DEF m, n, r
  <1>2. \A i \in 1..m : i \in 1..m + n
    BY <1>1
  <1>3. \A i \in 1..n : m + i \in m + 1..m + n /\ m + i \in 1..m + n /\ (m + i) - m = i
    BY <1>1
  <1>4. \A i \in 1..m + n : i \in 1..m \/ (i \in m + 1..m + n /\ i - m \in 1..n)
    BY <1>1
  <1>5. ToSet(r) = {r[i] : i \in 1..m + n} /\ ToSet(a) = {a[i] : i \in 1..m}
        /\ ToSet(b) = {b[i] : i \in 1..n}
    BY <1>1 DEF ToSet
  <1>6. ToSet(r) \subseteq ToSet(a) \cup ToSet(b)
    BY <1>1, <1>4, <1>5
  <1>7. ToSet(a) \subseteq ToSet(r)
    BY <1>1, <1>2, <1>5
  <1>8. ToSet(b) \subseteq ToSet(r)
    <2>1. \A i \in 1..n : b[i] = r[m + i]
      BY <1>1, <1>3
    <2>2. QED
      BY <1>3, <1>5, <2>1
  <1>9. QED
    BY <1>1, <1>6, <1>7, <1>8 DEF r

\* The objects of a version, by the lists of tables of its revisions.
LEMMA ObjectsAtVersion ==
    ASSUME NEW v \in 0..3
    PROVE  ObjectsAt(v) = UNION {ObjectsOf(t) : t \in ToSet(FlattenSeq(SubSeq(AllTables, 1, v)))}
  <1> DEFINE x == <<"tenants", "audit_log">>
             y == <<"document_extractions">>
             z == Tables3
             O(tables) == UNION {ObjectsOf(t) : t \in tables}
             X == TablesOf(1)
             Y == TablesOf(2)
             Z == TablesOf(3)
             P(n) == ObjectsAt(n) = O(ToSet(FlattenSeq(SubSeq(AllTables, 1, n))))
  <1>1. x \in Seq(Names) /\ y \in Seq(Names) /\ z \in Seq(Names)
    BY NamesAre DEF Tables3
  <1>2. ToSet(x) = X /\ ToSet(y) = Y /\ ToSet(z) = Z
    BY DEF ToSet, TablesOf, Tables3
  <1>3. AllTables = Three(x, y, z)
    BY DEF AllTables, Three
  <1> HIDE DEF x, y, z
  <1>4. UpOf(AllTables, x, y, z)
    BY <1>3, FlattenThreeUp
  <1>5. New(1) = O(X) /\ New(2) = O(Y) /\ New(3) = O(Z)
    BY DEF New
  <1> HIDE DEF X, Y, Z
  <1>6. x \o y \in Seq(Names) /\ ToSet(x \o y) = X \cup Y
    BY <1>1, <1>2, ToSetCat
  <1>7. ToSet((x \o y) \o z) = (X \cup Y) \cup Z
    <2> DEFINE a == x \o y
    <2>1. a \in Seq(Names) /\ ToSet(a) = X \cup Y
      BY <1>6
    <2> HIDE DEF a
    <2>2. ToSet(a \o z) = ToSet(a) \cup ToSet(z)
      BY <1>1, <2>1, ToSetCat
    <2>3. QED
      BY <1>2, <2>1, <2>2 DEF a
  <1>8. O(X \cup Y) = O(X) \cup O(Y) /\ O((X \cup Y) \cup Z) = (O(X) \cup O(Y)) \cup O(Z)
    OBVIOUS
  <1>9. O({}) = {}
    OBVIOUS
  <1> HIDE DEF O
  <1>10. /\ ObjectsAt(0) = {} /\ ObjectsAt(1) = New(1) /\ ObjectsAt(2) = New(1) \cup New(2)
         /\ ObjectsAt(3) = (New(1) \cup New(2)) \cup New(3)
    <2>1. /\ 0 + 1..0 = {} /\ 0 + 1..1 = {1} /\ 0 + 1..2 = {1, 2} /\ 0 + 1..3 = {1, 2, 3}
      OBVIOUS
    <2>2. QED
      BY <2>1 DEF ObjectsAt, NewIn
  <1>11. P(0)
    <2>1. FlattenSeq(SubSeq(AllTables, 1, 0)) = << >>
      <3>1. \A i \in 0..3 : FlattenSeq(SubSeq(AllTables, i + 1, i)) = << >>
        BY <1>4 DEF UpOf
      <3>2. 0 \in 0..3 /\ 0 + 1 = 1
        OBVIOUS
      <3>3. QED
        BY <3>1, <3>2
    <2>2. ToSet(<< >>) = {}
      BY DEF ToSet
    <2>3. QED
      BY <1>9, <1>10, <2>1, <2>2
  <1>12. P(1)
    <2>1. FlattenSeq(SubSeq(AllTables, 1, 1)) = x
      BY <1>4 DEF UpOf
    <2>2. QED
      BY <1>2, <1>5, <1>10, <2>1
  <1>13. P(2)
    <2>1. FlattenSeq(SubSeq(AllTables, 1, 2)) = x \o y
      BY <1>4 DEF UpOf
    <2>2. QED
      BY <1>5, <1>6, <1>8, <1>10, <2>1
  <1>14. P(3)
    <2>1. FlattenSeq(SubSeq(AllTables, 1, 3)) = (x \o y) \o z
      BY <1>4 DEF UpOf
    <2>2. QED
      BY <1>5, <1>7, <1>8, <1>10, <2>1
  <1> HIDE DEF P
  <1>15. v = 0 \/ v = 1 \/ v = 2 \/ v = 3
    OBVIOUS
  <1>16. P(v)
    BY <1>11, <1>12, <1>13, <1>14, <1>15
  <1>17. QED
    BY <1>16 DEF P, O

\* Types, the invariant's first part: objects of known kinds, and a run that is
\* not running holds nothing.
THEOREM TypeCorrect == Spec => []TypeOK
  <1>1. IInv => TypeOK
    <2> SUFFICES ASSUME IInv PROVE TypeOK
      OBVIOUS
    <2>1. \A x \in Things : x.kind \in {"table", "type", "index", "enabled", "forced", "policy",
                                       "extension"}
      <3>1. ASSUME NEW t, NEW x \in ObjectsOf(t)
            PROVE  x.kind \in {"table", "type", "index", "enabled", "forced", "policy"}
        BY ObjectsKinds
      <3>2. QED
        BY <3>1, ExtFields DEF Things
    <2>2. ASSUME NEW o \in schema \cup UNION {view[m] \cup touched[m] : m \in Runs}
          PROVE  o \in Things \/ o = VersionRow
      BY DEF IInv, Types, SchemaAtVersion, AtVersion
    <2>3. \A o \in schema \cup UNION {view[m] \cup touched[m] : m \in Runs} :
            o.kind \in {"table", "type", "index", "enabled", "forced", "policy", "extension", "row"}
      BY <2>1, <2>2, RowApart
    <2>4. \A m \in Runs : pc[m] # "running" => view[m] \cup touched[m] = {}
      BY DEF IInv, AtRest
    <2>5. QED
      BY <2>3, <2>4 DEF IInv, Types, TypeOK
  <1>2. QED
    BY <1>1, MigrationsInvariant, PTL

\* The schema is the one its version stands for, for any number of containers
\* that run "alembic upgrade" and operators that run "alembic downgrade" at once.
THEOREM SchemaIsItsVersion == Spec => []SchemaMatchesVersion
  <1>1. IInv => SchemaMatchesVersion
    BY ObjectsAtVersion DEF IInv, Types, SchemaAtVersion, AtVersion, SchemaMatchesVersion
  <1>2. QED
    BY <1>1, MigrationsInvariant, PTL

\* No committed table of tenants' data is without its policy, enabled and forced.
THEOREM CommittedTablesAreProtected == Spec => []TenantDataProtected
  <1>1. IInv => TenantDataProtected
    <2> SUFFICES ASSUME IInv, NEW o \in schema, o.kind = "table", o.name # "tenants"
                 PROVE  {Obj(k, o.name, o.name) : k \in {"enabled", "forced", "policy"}} \subseteq schema
      BY DEF TenantDataProtected
    <2>1. /\ {x \in schema : x.kind # "extension"} = ObjectsAt(version) /\ version \in 0..3
          /\ schema \subseteq Things
      BY DEF IInv, Types, SchemaAtVersion, AtVersion
    <2>2. o \in ObjectsAt(version)
      BY <2>1
    <2>3. PICK k \in 0 + 1..version : o \in New(k)
      BY <2>2 DEF ObjectsAt, NewIn
    <2>4. k \in 1..3 /\ k <= version
      BY <2>1, <2>3
    <2>5. PICK t \in TablesOf(k) : o \in ObjectsOf(t)
      BY <2>3 DEF New
    <2>6. t \in Names
      BY <2>4, <2>5, TablesOfNames
    <2>7. o.name = t
      <3>1. o \in Tb(t)
        BY <2>5, ObjectsKinds
      <3>2. QED
        BY <3>1, TableFields
    <2>8. Pr(t) \subseteq ObjectsOf(t)
      BY <2>6, <2>7, BuiltIs
    <2>9. ObjectsOf(t) \subseteq New(k)
      BY <2>5 DEF New
    <2>10. New(k) \subseteq ObjectsAt(version)
      BY <2>1, <2>4, NewLevel
    <2>11. Pr(t) \subseteq schema
      BY <2>1, <2>8, <2>9, <2>10
    <2>12. QED
      BY <2>7, <2>11 DEF Pr
  <1>2. QED
    BY <1>1, MigrationsInvariant, PTL

\* A run fails only if it was killed or met another: the order of the
\* statements works from every revision to every other.
THEOREM ARunAloneSucceeds == Spec => []AloneSucceeds
  <1>1. IInv => AloneSucceeds
    BY DEF IInv
  <1>2. QED
    BY <1>1, MigrationsInvariant, PTL

=============================================================================
