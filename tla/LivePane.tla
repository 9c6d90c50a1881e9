------------------------------ MODULE LivePane ------------------------------
(***************************************************************************)
(* A pane of the UI that shows one value of the backend's: it fetches the  *)
(* value once when it is mounted and adopts what later events carry.  Its  *)
(* listener is registered asynchronously; the fetch is answered on its own *)
(* channel, so a reply and an event may be handled in either order.        *)
(*                                                                         *)
(* SpecPane and VibeLensPanel are two such panes.  A value is a record     *)
(* with a content, and a version that orders the values for the properties *)
(* only; what the modules that extend this one leave alone is theirs.      *)
(***************************************************************************)
EXTENDS Naturals, Sequences

VARIABLES
  pane,     \* its state: mounted?, the value shown and where it came from,
            \* the fetch under way, and whether the listener is registered
  events    \* events emitted to the listener and not handled yet

paneVars == <<pane, events>>

Nothing == [content |-> "none", version |-> 0]
Unmounted == [on |-> FALSE, shows |-> Nothing, from |-> "none",
              fetch |-> "none", reply |-> Nothing, listens |-> FALSE]

PaneTypeOK(values) ==
  /\ pane \in [on : BOOLEAN, shows : values \cup {Nothing}, from : {"none", "fetch", "event", "refresh"},
               fetch : {"none", "asked", "replied", "refreshed", "failed"},
               reply : values \cup {Nothing}, listens : BOOLEAN]
  /\ events \in Seq(values)
  /\ (pane.from = "none") = (pane.shows = Nothing)
  /\ events # <<>> => pane.listens

PaneInit == pane = Unmounted /\ events = <<>>

\* The effect runs: the fetch is asked and the registration begun.
Mount ==
  /\ ~pane.on
  /\ pane' = [Unmounted EXCEPT !.on = TRUE, !.fetch = "asked"]
  /\ UNCHANGED events

\* The cleanup sets `cancelled` and removes the listener, now or as soon as it
\* is registered: neither a late reply nor a late event sets state.
Unmount ==
  /\ pane.on
  /\ pane' = Unmounted
  /\ events' = <<>>

\* listen() resolves.
Register ==
  /\ pane.on /\ ~pane.listens
  /\ pane' = [pane EXCEPT !.listens = TRUE]
  /\ UNCHANGED events

\* The command reads the backend's value: Nothing is null.
FetchRead(value) ==
  /\ pane.fetch = "asked"
  /\ pane' = [pane EXCEPT !.fetch = "replied", !.reply = value]
  /\ UNCHANGED events

\* The command fails: the promise is rejected and nobody handles that.
FetchFails ==
  /\ pane.fetch = "asked"
  /\ pane' = [pane EXCEPT !.fetch = "failed"]
  /\ UNCHANGED events

\* Mutant: the reply is adopted whatever is shown already.
FetchReply_overwrites ==
  /\ pane.fetch = "replied"
  /\ pane' = [pane EXCEPT !.fetch = "none",
                          !.shows = IF pane.reply = Nothing THEN @ ELSE pane.reply,
                          !.from = IF pane.reply = Nothing THEN @ ELSE "fetch"]
  /\ UNCHANGED events

\* setState((prev) => prev ?? stored)
FetchReply ==
  /\ pane.fetch = "replied"
  /\ pane' = IF pane.reply = Nothing \/ pane.shows # Nothing
             THEN [pane EXCEPT !.fetch = "none"]
             ELSE [pane EXCEPT !.fetch = "none", !.shows = pane.reply, !.from = "fetch"]
  /\ UNCHANGED events

\* The backend emits: an event goes to the listeners there are.
Announce(value) ==
  /\ events' = IF pane.listens THEN Append(events, value) ELSE events
  /\ UNCHANGED pane

\* The listener sets what the event carries.
HandleEvent ==
  /\ events # <<>>
  /\ pane' = [pane EXCEPT !.shows = Head(events), !.from = "event"]
  /\ events' = Tail(events)
=============================================================================
