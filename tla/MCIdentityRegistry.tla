------------------------- MODULE MCIdentityRegistry -------------------------
(***************************************************************************)
(* Small instances of IdentityRegistry.  The inputs are the ones that can  *)
(* meet: one passport in two tenants, resolved and created, with matching  *)
(* and with contradicting demographics, and creations that share an        *)
(* Emirates ID but not the passport.                                       *)
(***************************************************************************)
EXTENDS IdentityRegistry, TLC

CONSTANTS r1, r2, r3, t1, t2, p1, e1, n1, n2, d1

Doc(k, t, n, new) ==
    [kind |-> k, tenant |-> t, passport |-> p1, emirates |-> NoValue,
     nationality |-> n, birthDate |-> d1, createIfMissing |-> new]

Body(t, p, e) ==
    [kind |-> "create", tenant |-> t, passport |-> p, emirates |-> e,
     nationality |-> n1, birthDate |-> d1, createIfMissing |-> TRUE]

MCInputs == {Doc("resolve", t1, n1, TRUE), Doc("resolve", t1, NoValue, TRUE),
             Doc("resolve", t2, n1, TRUE), Doc("resolve", t1, n1, FALSE),
             [Doc("resolve", t1, n1, TRUE) EXCEPT !.passport = NoValue],
             Body(t1, p1, e1), Body(t1, NoValue, e1), Body(t2, p1, NoValue)}

\* With the answer sent before the commit, and fairness.
MCLateInputs == {Doc("resolve", t1, n2, TRUE), Doc("extract", t1, n1, TRUE),
                 Body(t1, p1, e1)}

\* One resolution and one creation of the same passport.
MCPair == {Doc("resolve", t1, n1, TRUE), Body(t1, p1, NoValue)}

RequestSymmetry == Permutations(Requests)
=============================================================================
