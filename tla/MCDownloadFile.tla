--------------------------- MODULE MCDownloadFile ---------------------------
(* Constant values for model checking the .part file. *)
EXTENDS Download

\* The lengths of successive versions of the resource.
Growing == <<2, 3>>
Emptied == <<2, 0>>
Single == <<3>>
=============================================================================
