---------------------------- MODULE AtomicConfig ----------------------------
(***************************************************************************)
(* What a provisioner promises of a Claude config file: whoever reads it   *)
(* finds a whole document, and Spectty's calls change nothing in it but    *)
(* their own entry (json_namespace.rs, file_io.rs).                        *)
(***************************************************************************)
EXTENDS Naturals

VARIABLE doc  \* the document a reader finds

Absent == [state |-> "absent", foreign |-> 0, entry |-> FALSE]
Whole(f, e) == [state |-> "whole", foreign |-> f, entry |-> e]

Init == doc \in {Absent, Whole(1, FALSE)}

\* An inject adds the entry, to an empty object where there is no file.
Inject == doc' = Whole(doc.foreign, TRUE)

\* A retract takes the entry out of a file that is there.
Retract == doc.state = "whole" /\ doc' = Whole(doc.foreign, FALSE)

\* The user, or Claude, changes the rest of the file.
Edit == doc' = Whole(doc.foreign + 1, doc.entry)

Next == Inject \/ Retract \/ Edit

Spec == Init /\ [][Next]_doc
=============================================================================
