------------------------------ MODULE SavedFile ------------------------------
(***************************************************************************)
(* What RESTRequest.SetOutputFile promises, with no .part file, attempt or *)
(* process: a request that ends well replaces the file at the output path, *)
(* in one step, by a whole version of the resource, and by one that was    *)
(* current while the request ran; nothing else touches the file.           *)
(***************************************************************************)
EXTENDS Integers

CONSTANTS Requests, MaxVersion, Body(_), Nothing

VARIABLES
  current,  \* the version of the resource the server has
  saved,    \* what is found at the output path
  since,    \* the version that was current when a request was sent, 0 before
  ended     \* how a request ended: "no", "well" or "badly"

savedVars == <<current, saved, since, ended>>

SavedInit ==
  /\ current = 1
  /\ saved = Nothing
  /\ since = [r \in Requests |-> 0]
  /\ ended = [r \in Requests |-> "no"]

Renew ==
  /\ current < MaxVersion
  /\ current' = current + 1
  /\ UNCHANGED <<saved, since, ended>>

\* A request that cannot begin ends at once.
Request(r) ==
  /\ since[r] = 0
  /\ since' = [since EXCEPT ![r] = current]
  /\ \E end \in {"no", "badly"} : ended' = [ended EXCEPT ![r] = end]
  /\ UNCHANGED <<current, saved>>

Save(r) ==
  /\ since[r] # 0 /\ ended[r] = "no"
  /\ \E v \in since[r]..current : saved' = Body(v)
  /\ ended' = [ended EXCEPT ![r] = "well"]
  /\ UNCHANGED <<current, since>>

\* Several requests fail at once when the server process is killed.
Fail(R) ==
  /\ \A r \in R : since[r] # 0 /\ ended[r] = "no"
  /\ ended' = [r \in Requests |-> IF r \in R THEN "badly" ELSE ended[r]]
  /\ UNCHANGED <<current, saved, since>>

SavedNext ==
  \/ Renew
  \/ \E r \in Requests : Request(r) \/ Save(r)
  \/ \E R \in SUBSET Requests : Fail(R)

SavedSpec == SavedInit /\ [][SavedNext]_savedVars
=============================================================================
