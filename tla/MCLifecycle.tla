----------------------------- MODULE MCLifecycle -----------------------------
(***************************************************************************)
(* Lifecycle for TLC.  The close_session calls are interchangeable.        *)
(***************************************************************************)
EXTENDS Lifecycle, TLC

ClosersAlike == Permutations(Closers)
=============================================================================
