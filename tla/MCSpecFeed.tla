----------------------------- MODULE MCSpecFeed -----------------------------
(***************************************************************************)
(* TLC instance of SpecFeed: calls of spectty_spec with every kind of spec, *)
(* one of them as a notification, and a message of each kind that has no   *)
(* effect.                                                                 *)
(***************************************************************************)
EXTENDS SpecFeed

SpecCall(spec) == [json |-> TRUE, id |-> TRUE, method |-> "tools/call",
                   tool |-> "spectty_spec", session |-> TRUE, spec |-> spec]
MCMessages ==
  LET call == SpecCall("junk") IN
  {SpecCall(s) : s \in Contracts \cup {"partial", "junk"}}
    \cup {[SpecCall(s) EXCEPT !.id = FALSE] : s \in Contracts}
    \cup {[call EXCEPT !.json = FALSE], [call EXCEPT !.session = FALSE],
          [call EXCEPT !.method = "other"], [call EXCEPT !.method = "initialize", !.tool = "none"],
          [call EXCEPT !.tool = "none"], [call EXCEPT !.tool = "other"],
          [call EXCEPT !.tool = "spectty_status"]}
=============================================================================
