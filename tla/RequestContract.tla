--------------------------- MODULE RequestContract ---------------------------
(***************************************************************************)
(* What the extension promises a plugin about the requests it sends, seen  *)
(* from the main thread only (src/pawn/scripting/include/rest.inc): the    *)
(* callbacks of a request run one at a time and only while it is live, its *)
(* completed callback is the last and runs at most once, and a request     *)
(* that was dropped stays silent.  There is no thread, queue or retry here.*)
(***************************************************************************)
EXTENDS Naturals

CONSTANT NumRequests  \* a natural number

Requests == 1..NumRequests

VARIABLES
  phase,    \* where each request is in its life
  calling   \* the request whose callback is running, 0 if none

contractVars == <<phase, calling>>

Phase ==
  {"unsent", "live", "completed", \* the completed callback has been called
   "dropped",                     \* client deleted, plugin or extension unloaded
   "lost"}                        \* over, but there was no callback left to call

ContractTypeOK ==
  /\ phase \in [Requests -> Phase]
  /\ calling \in Requests \cup {0}

ContractInit ==
  /\ phase = [r \in Requests |-> "unsent"]
  /\ calling = 0

Send(r) ==
  /\ phase[r] = "unsent"
  /\ phase' = [phase EXCEPT ![r] = "live"]
  /\ UNCHANGED calling

\* A headers, data or progress callback starts.
CallIntermediate(r) ==
  /\ calling = 0 /\ phase[r] = "live"
  /\ calling' = r
  /\ UNCHANGED phase

CallCompleted(r) ==
  /\ calling = 0 /\ phase[r] = "live"
  /\ phase' = [phase EXCEPT ![r] = "completed"]
  /\ calling' = r

CallNobody(r) ==
  /\ calling = 0 /\ phase[r] = "live"
  /\ phase' = [phase EXCEPT ![r] = "lost"]
  /\ UNCHANGED calling

Return ==
  /\ calling # 0
  /\ calling' = 0
  /\ UNCHANGED phase

\* Requests may be dropped from inside one of their own callbacks.
Drop(R) ==
  /\ \A r \in R : phase[r] = "live"
  /\ phase' = [r \in Requests |-> IF r \in R THEN "dropped" ELSE phase[r]]
  /\ UNCHANGED calling

ContractNext ==
  \/ Return
  \/ \E R \in SUBSET Requests : Drop(R)
  \/ \E r \in Requests :
       Send(r) \/ CallIntermediate(r) \/ CallCompleted(r) \/ CallNobody(r)

ContractSpec == ContractInit /\ [][ContractNext]_contractVars
============================================================================
