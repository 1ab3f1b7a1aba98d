---------------------------- MODULE MCRateLimit ----------------------------
(***************************************************************************)
(* Small instances of RateLimit: two tenants, two paths that share a       *)
(* class, one that only begins like a limited one, and limits for which    *)
(* Retry-After is, and is not, rounded.                                    *)
(***************************************************************************)
EXTENDS RateLimit, TLC

CONSTANTS t1, t2

MCPaths == { <<"v1", "documents", "extract">>, <<"v1", "identity", "resolve">>,
             <<"v1", "documents">> }

TenantSymmetry == Permutations(Tenants)
=============================================================================
