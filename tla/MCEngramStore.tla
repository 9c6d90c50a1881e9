--------------------------- MODULE MCEngramStore ---------------------------
(***************************************************************************)
(* TLC instance of EngramStore: the spec of a session, and every kind of   *)
(* daemon but the one that adds rows and lists the newest first.           *)
(***************************************************************************)
EXTENDS EngramStore

CONSTANT Sessions
MCKeys == {[session |-> s, document |-> "spec"] : s \in Sessions}
MCDaemons == [appends : BOOLEAN, newestFirst : BOOLEAN] \ {[appends |-> TRUE, newestFirst |-> TRUE]}
=============================================================================
