--------------------------- MODULE RequestHandles ---------------------------
(***************************************************************************)
(* Who owns a callback.  OnHeaders, OnData and OnProgress create forwards   *)
(* and keep them in the RequestObject; Send moves them to the JobRecord;    *)
(* HandleEvent copies the record before it calls the last callback.  Each   *)
(* place that holds a pointer to a forward is an index of held, and the     *)
(* natives, the handle and plugin listeners and the callbacks are the       *)
(* actions (src/natives.cpp, src/extension.cpp), all on the main thread.    *)
(*                                                                         *)
(* SourceMod is external: any plugin may read a handle, only its owner may  *)
(* free it, an object is destroyed with its last handle (CloneHandle makes  *)
(* more), and a forward loses the functions of a plugin that is unloaded.   *)
(***************************************************************************)
EXTENDS Integers, FiniteSets

CONSTANTS
  Plugins,     \* the plugins
  Clients,     \* RESTClient handles
  ClientOwner, \* the plugin each was created by
  Objects,     \* RequestObjects that exist at the same time (bound)
  Forwards,    \* forwards that exist at the same time (bound)
  MaxJobs      \* requests that are sent (bound)

Jobs == 1..MaxJobs

ASSUME RequestHandlesAssumption ==
  /\ ClientOwner \in [Clients -> Plugins]
  /\ MaxJobs \in Nat
  /\ {"none", "gone"} \cap Plugins = {}
  /\ "nowhere" \notin Forwards

VARIABLES
  held,      \* the forward each place points to, or "nowhere"
  function,  \* each forward's plugin, "gone" if it was unloaded, "none" if not created
  handles,   \* the plugins with a handle of each RequestObject; none: it is not there
  request,   \* RequestObject::clientHandle and whether its spec has an absolute URL
  record,    \* m_jobs
  nextJobId, \* m_nextJobId
  calling,   \* the place of the callback that is running, if one is
  clients,   \* clients that are not deleted
  plugins,   \* plugins that are loaded
  sent,      \* history: how often each RequestObject was sent
  orphans    \* history: the jobs whose client had been deleted when they were sent

vars == <<held, function, handles, request, record, nextJobId, calling, clients, plugins,
          sent, orphans>>

Slots == {"completed", "headers", "data", "progress"}

RequestPlaces(o) == {"request"} \X {o} \X (Slots \ {"completed"})

JobPlaces(j) == {"job"} \X {j} \X Slots

\* The copy of a record that HandleEvent works on while the last callback runs.
CopyPlaces(j) == {"copy"} \X {j} \X Slots

\* Where a callback is called from.
CallPlaces == UNION {JobPlaces(j) \cup CopyPlaces(j) : j \in Jobs}

Places == (UNION {RequestPlaces(o) : o \in Objects}) \cup CallPlaces

Nothing == <<"none", 0, "none">>

Request == [client : Clients \cup {"none"}, url : BOOLEAN]

Record ==
  [state : {"absent", "idle", "dispatching", "dropped"},
   client : Clients \cup {"none"}, owner : Plugins \cup {"none"}]

NoRequest == [client |-> "none", url |-> FALSE]

NoRecord == [state |-> "absent", client |-> "none", owner |-> "none"]

Init ==
  /\ held = [p \in Places |-> "nowhere"]
  /\ function = [f \in Forwards |-> "none"]
  /\ handles = [o \in Objects |-> {}]
  /\ request = [o \in Objects |-> NoRequest]
  /\ record = [j \in Jobs |-> NoRecord]
  /\ nextJobId = 1
  /\ calling = Nothing
  /\ clients = Clients /\ plugins = Plugins
  /\ sent = [o \in Objects |-> 0]
  /\ orphans = {}

\* Plugin p's code may be running: between frames, in a callback, or called by
\* another plugin's.
Running(p) == p \in plugins

----------------------------------------------------------------------------
(* Forwards *)

\* CreateForwardEx and AddFunction.
Unused(f) == function[f] = "none"

Created(f, p) == [function EXCEPT ![f] = p]

\* ReleaseForward for every place of P: what is left of the forwards, and of
\* the pointers.
Released(P) ==
  [f \in Forwards |-> IF \E x \in P : held[x] = f THEN "none" ELSE function[f]]

Cleared(P) == [x \in Places |-> IF x \in P THEN "nowhere" ELSE held[x]]

ReleasePlaces(P) == function' = Released(P) /\ held' = Cleared(P)

----------------------------------------------------------------------------
(* RESTRequest handles *)

\* RESTClient.Request: p makes a request of client c, with a URL or without.
Client_Request(p, c, o) ==
  /\ Running(p) /\ c \in clients
  /\ handles[o] = {}
  /\ handles' = [handles EXCEPT ![o] = {p}]
  /\ \E url \in BOOLEAN : request' = [request EXCEPT ![o] = [client |-> c, url |-> url]]
  /\ sent' = [sent EXCEPT ![o] = 0]
  /\ UNCHANGED <<held, function, record, nextJobId, calling, clients, plugins, orphans>>

CloneHandle(p, o) ==
  /\ Running(p) /\ handles[o] # {}
  /\ handles' = [handles EXCEPT ![o] = @ \cup {p}]
  /\ UNCHANGED <<held, function, request, record, nextJobId, calling, clients, plugins,
                 sent, orphans>>

\* Seeded fault: the new forward is stored over the old one.
ReplaceForwardLeaking(o, slot, f, p) ==
  /\ function' = Created(f, p)
  /\ held' = [held EXCEPT ![<<"request", o, slot>>] = f]

\* ReleaseForward(old), then the new one takes its place.
ReplaceForward(o, slot, f, p) ==
  LET x == <<"request", o, slot>>
  IN  /\ function' = [g \in Forwards |->
                        IF g = f THEN p ELSE IF g = held[x] THEN "none" ELSE function[g]]
      /\ held' = [held EXCEPT ![x] = f]

\* OnHeaders, OnData and OnProgress with a callback that exists; through any
\* handle that is left.
SetCallback(p, o, slot) ==
  /\ Running(p) /\ handles[o] # {}
  /\ slot # "completed"
  /\ \E f \in Forwards : Unused(f) /\ ReplaceForward(o, slot, f, p)
  /\ UNCHANGED <<handles, request, record, nextJobId, calling, clients, plugins, sent,
                 orphans>>

\* The requests that have no handle left if left is what is left.
Destroyed(left) == {o \in Objects : handles[o] # {} /\ left[o] = {}}

PlacesOfRequests(D) == UNION {RequestPlaces(o) : o \in D}

\* delete request: OnHandleDestroy, if that was the last handle.
FreeRequest(p, o) ==
  /\ Running(p) /\ p \in handles[o]
  /\ handles' = [handles EXCEPT ![o] = @ \ {p}]
  /\ ReleasePlaces(PlacesOfRequests(Destroyed(handles')))
  /\ UNCHANGED <<request, record, nextJobId, calling, clients, plugins, sent, orphans>>

\* The record takes the request's forwards and the new one.
MovedToRecord(o, j, f) ==
  [x \in Places |->
     IF x \in JobPlaces(j)
     THEN (IF x[3] = "completed" THEN f ELSE held[<<"request", o, x[3]>>])
     ELSE IF x \in RequestPlaces(o) THEN "nowhere" ELSE held[x]]

\* Seeded fault: the specification is copied.
SpecCopied(o) == request[o]

\* std::move leaves a specification whose strings are empty.
SpecMoved(o) == [request[o] EXCEPT !.url = FALSE]

\* RESTRequest.Send by plugin p through the handle of plugin q.  An error that
\* Send throws leaves everything as it is.  FreeHandle fails if q is not p.
Send(p, q, o) ==
  LET j == nextJobId
  IN  /\ Running(p) /\ q \in handles[o]
      /\ j <= MaxJobs
      /\ request[o].url
      /\ \E f \in Forwards :
           /\ Unused(f)
           /\ function' = Created(f, p)
           /\ held' = MovedToRecord(o, j, f)
      /\ request' = [request EXCEPT ![o] = SpecMoved(o)]
      /\ record' = [record EXCEPT ![j] =
                      [state |-> "idle", client |-> request[o].client, owner |-> p]]
      /\ nextJobId' = j + 1
      /\ handles' = [handles EXCEPT ![o] = IF p = q THEN @ \ {q} ELSE @]
      /\ sent' = [sent EXCEPT ![o] = @ + 1]
      /\ orphans' = IF request[o].client \in clients THEN orphans ELSE orphans \cup {j}
      /\ UNCHANGED <<calling, clients, plugins>>

----------------------------------------------------------------------------
(* Clients and plugins go *)

Found(j) == record[j].state # "absent"

\* Seeded fault: a record is released although a callback of it is running.
ErasedWhileDispatching(S) == S

\* The records of S that DropJob erases; it marks the others dropped.
Erased(S) == {j \in S : record[j].state = "idle"}

PlacesOfJobs(S) == UNION {JobPlaces(j) : j \in S}

\* DropJob for each job of S.
RecordsDropped(S) ==
  [j \in Jobs |-> CASE j \in Erased(S)     -> NoRecord
                    [] j \in S \ Erased(S) -> [record[j] EXCEPT !.state = "dropped"]
                    [] OTHER               -> record[j]]

\* Seeded fault: a request whose callback is running is not dropped.
IdleForClient(c) == {j \in Jobs : record[j].state = "idle" /\ record[j].client = c}

\* The requests of a client, for DropJobsForClient.
FoundForClient(c) == {j \in Jobs : Found(j) /\ record[j].client = c}

\* OnHandleDestroy of a client: DropJobsForClient.
DeleteClient(p, c) ==
  /\ Running(p) /\ c \in clients /\ ClientOwner[c] = p
  /\ clients' = clients \ {c}
  /\ record' = RecordsDropped(FoundForClient(c))
  /\ ReleasePlaces(PlacesOfJobs(Erased(FoundForClient(c))))
  /\ UNCHANGED <<handles, request, nextJobId, calling, plugins, sent, orphans>>

\* A plugin is unloaded, but not while a callback of it is running: its handles
\* are freed (OnHandleDestroy), OnPluginUnloaded drops the requests it sent, and
\* forwards lose its functions.
UnloadPlugin(p) ==
  LET own  == {c \in clients : ClientOwner[c] = p}
      drop == {j \in Jobs : Found(j) /\ (record[j].owner = p \/ record[j].client \in own)}
      left == [o \in Objects |-> handles[o] \ {p}]
      gone == PlacesOfJobs(Erased(drop)) \cup PlacesOfRequests(Destroyed(left))
  IN  /\ p \in plugins /\ (calling # Nothing => function[held[calling]] # p)
      /\ plugins' = plugins \ {p}
      /\ clients' = clients \ own
      /\ handles' = left
      /\ record' = RecordsDropped(drop)
      /\ held' = Cleared(gone)
      /\ function' = [f \in Forwards |-> IF Released(gone)[f] = p THEN "gone"
                                         ELSE Released(gone)[f]]
      /\ UNCHANGED <<request, nextJobId, calling, sent, orphans>>

----------------------------------------------------------------------------
(* Events *)

\* There is a callback at x, of a plugin that is there.
Callable(x) == held[x] # "nowhere" /\ function[held[x]] # "gone"

\* HandleIntermediate, if there is a callback to call; otherwise nothing happens.
HandleIntermediate(j, slot) ==
  /\ calling = Nothing
  /\ Found(j) /\ slot # "completed" /\ Callable(<<"job", j, slot>>)
  /\ record' = [record EXCEPT ![j].state = "dispatching"]
  /\ calling' = <<"job", j, slot>>
  /\ UNCHANGED <<held, function, handles, request, nextJobId, clients, plugins, sent,
                 orphans>>

\* Execute has returned.  What was dropped meanwhile is released now.
ReturnFromIntermediate ==
  LET j == calling[2]
      over == {k \in {j} : record[k].state = "dropped"}
  IN  /\ calling[1] = "job"
      /\ record' = [record EXCEPT ![j] = IF j \in over THEN NoRecord
                                         ELSE [@ EXCEPT !.state = "idle"]]
      /\ ReleasePlaces(PlacesOfJobs(over))
      /\ calling' = Nothing
      /\ UNCHANGED <<handles, request, nextJobId, clients, plugins, sent, orphans>>

\* Seeded fault: the record stays in the map during the last callback.
CopiedNotErased(j) ==
  /\ held' = [x \in Places |-> IF x \in CopyPlaces(j) THEN held[<<"job", j, x[3]>>] ELSE held[x]]
  /\ UNCHANGED record

\* HandleEvent copies the record and erases it from the map.
Copied(j) ==
  /\ held' = [x \in Places |-> CASE x \in CopyPlaces(j) -> held[<<"job", j, x[3]>>]
                                 [] x \in JobPlaces(j)  -> "nowhere"
                                 [] OTHER               -> held[x]]
  /\ record' = [record EXCEPT ![j] = NoRecord]

\* HandleEvent for the Complete event, if there is a callback and a response
\* handle can be made for it.
DispatchComplete(j) ==
  /\ calling = Nothing
  /\ Found(j) /\ Callable(<<"job", j, "completed">>)
  /\ Copied(j)
  /\ calling' = <<"copy", j, "completed">>
  /\ UNCHANGED <<function, handles, request, nextJobId, clients, plugins, sent, orphans>>

\* HandleEvent otherwise: DispatchComplete returns at once.
CompleteUnheard(j) ==
  /\ calling = Nothing
  /\ Found(j)
  /\ record' = [record EXCEPT ![j] = NoRecord]
  /\ ReleasePlaces(JobPlaces(j))
  /\ UNCHANGED <<handles, request, nextJobId, calling, clients, plugins, sent, orphans>>

ReturnFromComplete ==
  /\ calling[1] = "copy"
  /\ ReleasePlaces(CopyPlaces(calling[2]))
  /\ calling' = Nothing
  /\ UNCHANGED <<handles, request, record, nextJobId, clients, plugins, sent, orphans>>

\* SDK_OnUnload: the records are released, then all handles freed.
SDK_OnUnload ==
  /\ calling = Nothing
  /\ record' = [j \in Jobs |-> NoRecord]
  /\ handles' = [o \in Objects |-> {}]
  /\ clients' = {} /\ plugins' = {}
  /\ ReleasePlaces(PlacesOfJobs({j \in Jobs : Found(j)})
                     \cup PlacesOfRequests(Destroyed([o \in Objects |-> {}])))
  /\ UNCHANGED <<request, nextJobId, calling, sent, orphans>>

Next ==
  \/ \E p \in Plugins :
       \/ \E o \in Objects :
            \/ \E c \in Clients : Client_Request(p, c, o)
            \/ CloneHandle(p, o) \/ FreeRequest(p, o)
            \/ \E slot \in Slots : SetCallback(p, o, slot)
            \/ \E q \in Plugins : Send(p, q, o)
       \/ \E c \in Clients : DeleteClient(p, c)
       \/ UnloadPlugin(p)
  \/ \E j \in Jobs :
       \/ \E slot \in Slots : HandleIntermediate(j, slot)
       \/ DispatchComplete(j) \/ CompleteUnheard(j)
  \/ ReturnFromIntermediate \/ ReturnFromComplete
  \/ SDK_OnUnload

Spec == Init /\ [][Next]_vars

----------------------------------------------------------------------------
(* Properties *)

\* Every variable has its type.
TypeOK ==
  /\ held \in [Places -> Forwards \cup {"nowhere"}]
  /\ function \in [Forwards -> Plugins \cup {"gone", "none"}]
  /\ handles \in [Objects -> SUBSET Plugins]
  /\ request \in [Objects -> Request]
  /\ record \in [Jobs -> Record]
  /\ nextJobId \in 1..(MaxJobs + 1)
  /\ calling \in CallPlaces \cup {Nothing}
  /\ clients \subseteq Clients /\ plugins \subseteq Plugins
  /\ sent \in [Objects -> Nat]
  /\ orphans \subseteq Jobs

\* A forward that was created is held in exactly one place, and a place that
\* holds one holds one that was created: none is leaked, released twice or used
\* after it was released (ReleaseForward, ReleaseRecord, Send, DropJob).
HeldOnce ==
  /\ \A x \in Places : held[x] # "nowhere" => function[held[x]] # "none"
  /\ \A f \in Forwards : function[f] # "none" => \E x \in Places : held[x] = f
  /\ \A x, y \in Places : held[x] = held[y] /\ held[x] # "nowhere" => x = y

\* What holds a forward is there: a request with a handle, a record in the map,
\* or the copy that HandleEvent is working on.
HolderExists ==
  /\ \A o \in Objects : handles[o] = {} => \A x \in RequestPlaces(o) : held[x] = "nowhere"
  /\ \A j \in Jobs : ~Found(j) => \A x \in JobPlaces(j) : held[x] = "nowhere"
  /\ \A j \in Jobs : calling # <<"copy", j, "completed">> =>
       \A x \in CopyPlaces(j) : held[x] = "nowhere"

\* The forward of a callback that is running stays until it returns, whatever
\* the callback deletes or unloads, and so does the record if it is in the map;
\* no other record waits for a callback to return (dispatching, dropped).
CallingStays ==
  /\ calling # Nothing => held[calling] # "nowhere" /\ function[held[calling]] \in plugins
  /\ \A j \in Jobs :
       record[j].state \in {"dispatching", "dropped"} <=> calling[1] = "job" /\ calling[2] = j

\* A RequestObject is sent at most once, although it outlives Send when another
\* plugin sends it or a clone of its handle is left.
SentOnce == \A o \in Objects : sent[o] <= 1

\* The inductive invariant behind these.
HandlesInvariant ==
  /\ TypeOK /\ HeldOnce /\ HolderExists /\ CallingStays
  /\ \A f \in Forwards : function[f] \in plugins \cup {"gone", "none"}
  /\ \A j \in Jobs : nextJobId <= j => ~Found(j)
  /\ \A o \in Objects : sent[o] <= 1 /\ (request[o].url => sent[o] = 0)

\* rest.inc on RESTClient: "Deleting the client drops its in-flight requests
\* without callbacks": no callback of a request is called once its client is
\* deleted, unless it had been deleted before the request was sent.
NoCallAfterDelete ==
  [][\A j \in Jobs : calling = Nothing /\ calling' # Nothing /\ calling'[2] = j =>
       record[j].client \in clients \/ j \in orphans]_vars

\* rest.inc on Send: "Starts the request and frees this handle."
SendFreesHandle ==
  [][\A o \in Objects : sent'[o] > sent[o] => handles'[o] # handles[o]]_vars
=============================================================================
