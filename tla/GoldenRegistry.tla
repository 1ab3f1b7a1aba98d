--------------------------- MODULE GoldenRegistry ---------------------------
(***************************************************************************)
(* What the service promises about Golden Records, as if every request     *)
(* acted at once and alone: persons only accumulate, no two of them carry  *)
(* the same active identifier in one tenant, and a client is only ever     *)
(* told of a person that exists, in its own tenant, that its own request   *)
(* created or that carries an identifier its request named.  It promises   *)
(* one answer, and never takes one back.                                   *)
(*                                                                         *)
(* A person is named by the request that created it.  An identifier is     *)
(* <<tenant, type, value>>.                                                *)
(***************************************************************************)

CONSTANTS
    Requests,
    Tenants,
    Keys(_),       \* the identifiers that exist in a tenant
    NoValue

VARIABLES
    tenant,        \* the tenant of each request
    keys,          \* the identifiers each request carries
    persons,       \* the Golden Records there are
    told           \* the person each client has been told of

vars == <<tenant, keys, persons, told>>

TypeOK ==
    /\ tenant \in [Requests -> Tenants]
    /\ \A r \in Requests : keys[r] \subseteq Keys(tenant[r])
    /\ persons \subseteq Requests
    /\ told \in [Requests -> Requests \cup {NoValue}]

Init ==
    /\ TypeOK
    /\ persons = {}
    /\ told = [r \in Requests |-> NoValue]

\* A person is created; none that exists shares an identifier with it.
Register(r) ==
    /\ r \notin persons
    /\ \A p \in persons : keys[p] \cap keys[r] = {}
    /\ persons' = persons \cup {r}
    /\ UNCHANGED <<tenant, keys, told>>

\* The client of r is told of p.
Tell(r, p) ==
    /\ told[r] = NoValue
    /\ p \in persons
    /\ tenant[p] = tenant[r]
    /\ p = r \/ keys[p] \cap keys[r] # {}
    /\ told' = [told EXCEPT ![r] = p]
    /\ UNCHANGED <<tenant, keys, persons>>

Next == \E r \in Requests : Register(r) \/ \E p \in Requests : Tell(r, p)

Spec == Init /\ [][Next]_vars
=============================================================================
