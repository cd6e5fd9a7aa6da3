------------------------------ MODULE MCHandles ------------------------------
(* Constant values for model checking who owns callbacks. *)
EXTENDS RequestHandles, TLC

\* All clients are created by one plugin.
OneOwner == [c \in Clients |-> "p"]

Interchangeable == Permutations(Forwards)
=============================================================================
