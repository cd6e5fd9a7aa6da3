----------------------------- MODULE MCProgress -----------------------------
(* Constant values for model checking progress reports. *)
EXTENDS Progress

\* Without a body to send, and with one.
Uploads == {0, 2}
NoUpload == {0}
Known == {TRUE}
Either == BOOLEAN
Unknown == {FALSE}
=============================================================================
