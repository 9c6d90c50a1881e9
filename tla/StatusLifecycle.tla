-------------------------- MODULE StatusLifecycle --------------------------
(***************************************************************************)
(* What the supervision of a session promises its observers: the status    *)
(* they are shown starts at Starting, moves along the arrows of the status *)
(* machine only, never leaves a terminal status, and ends when the session *)
(* is closed.                                                              *)
(***************************************************************************)
VARIABLE shown

Arrows == {<<"Starting", "Idle">>, <<"Starting", "Running">>,
           <<"Idle", "Running">>, <<"Idle", "Completed">>,
           <<"Running", "AwaitingInput">>, <<"Running", "Idle">>, <<"Running", "Completed">>,
           <<"AwaitingInput", "Running">>, <<"AwaitingInput", "Idle">>,
           <<"Starting", "Error">>, <<"Idle", "Error">>, <<"Running", "Error">>,
           <<"AwaitingInput", "Error">>}

Init == shown = "Starting"

Move == <<shown, shown'>> \in Arrows

Close == shown # "Absent" /\ shown' = "Absent"

Next == Move \/ Close

Spec == Init /\ [][Next]_shown
=============================================================================
