----------------------------- MODULE MCVibeLens -----------------------------
(***************************************************************************)
(* TLC instance of VibeLens: a diff that fits in a pipe, with what the      *)
(* reading of git's headers gets wrong (a path in quotation marks, one that *)
(* holds " b/", an added line that looks like a +++ header), and one that   *)
(* does not fit, in which a symlink becomes a file (its path comes twice)   *)
(* and another file is renamed.                                            *)
(***************************************************************************)
EXTENDS VibeLens

MCParts == {"a", "b", "c"}
path(p) == [parts |-> p, quoted |-> FALSE]
line(l) == [look |-> l, path |-> NoPath]
MCDiffs ==
  {[big |-> FALSE, files |->
      <<[old |-> path(<<"a">>), new |-> path(<<"a">>), plus |-> TRUE,
         lines |-> <<line("add"), [look |-> "new", path |-> path(<<"c">>)]>>],
        [old |-> path(<<"a", "b">>), new |-> path(<<"a", "b">>), plus |-> TRUE, lines |-> <<line("del")>>],
        [old |-> path(<<"a", "b">>), new |-> [parts |-> <<"b", "c">>, quoted |-> TRUE], plus |-> TRUE,
         lines |-> <<line("add"), line("context")>>],
        [old |-> [parts |-> <<"c">>, quoted |-> TRUE], new |-> [parts |-> <<"c">>, quoted |-> TRUE],
         plus |-> TRUE, lines |-> <<line("del")>>]>>],
   [big |-> TRUE, files |->
      <<[old |-> path(<<"b">>), new |-> path(<<"b">>), plus |-> FALSE, lines |-> <<line("del")>>],
        [old |-> path(<<"b">>), new |-> path(<<"b">>), plus |-> TRUE, lines |-> <<line("add")>>],
        [old |-> path(<<"c">>), new |-> path(<<"a">>), plus |-> TRUE, lines |-> <<line("add"), line("del")>>]>>]}
=============================================================================
