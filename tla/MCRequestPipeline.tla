------------------------- MODULE MCRequestPipeline -------------------------
(***************************************************************************)
(* A small instance of RequestPipeline: the routes with and without what   *)
(* their layers ask for, for two tenants that share one connection.        *)
(***************************************************************************)
EXTENDS RequestPipeline

CONSTANTS r1, r2, r3, c1, t1, t2

Call(route, t) == [route |-> route, bearer |-> TRUE, tenant |-> t, id |-> FALSE, key |-> FALSE]

MCInputs ==
    { [Call("write", t1) EXCEPT !.key = TRUE], Call("write", t2), Call("get", t2),
      [Call("search", t2) EXCEPT !.key = TRUE, !.id = TRUE],
      [Call("unknown", t1) EXCEPT !.key = TRUE],
      [Call("write", t1) EXCEPT !.bearer = FALSE], Call("get", Malformed),
      [Call("ready", NoValue) EXCEPT !.bearer = FALSE],
      [Call("open", NoValue) EXCEPT !.bearer = FALSE],
      [Call("preflight", NoValue) EXCEPT !.bearer = FALSE] }
=============================================================================
