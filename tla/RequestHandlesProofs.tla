------------------------ MODULE RequestHandlesProofs ------------------------
(***************************************************************************)
(* Proofs about RequestHandles: whatever the plugins do, every forward that *)
(* was created is held in exactly one place.                               *)
(***************************************************************************)
EXTENDS RequestHandles, TLAPS

----------------------------------------------------------------------------
(* Places *)

LEMMA PlaceIsOne ==
  ASSUME NEW x \in Places
  PROVE  \/ \E o \in Objects : x \in RequestPlaces(o)
         \/ \E j \in Jobs : x \in JobPlaces(j)
         \/ \E j \in Jobs : x \in CopyPlaces(j)
BY DEF Places, CallPlaces

LEMMA PlacesContain ==
  /\ \A o \in Objects : RequestPlaces(o) \subseteq Places
  /\ \A j \in Jobs : JobPlaces(j) \subseteq Places /\ CopyPlaces(j) \subseteq Places
<1>1. ASSUME NEW o \in Objects PROVE RequestPlaces(o) \subseteq Places
  BY DEF Places
<1>2. ASSUME NEW j \in Jobs PROVE JobPlaces(j) \subseteq Places /\ CopyPlaces(j) \subseteq Places
  BY DEF Places, CallPlaces
<1> QED
  BY <1>1, <1>2

LEMMA RequestPlace ==
  ASSUME NEW o, NEW x
  PROVE  x \in RequestPlaces(o) <=> \E s \in Slots \ {"completed"} : x = <<"request", o, s>>
BY DEF RequestPlaces

LEMMA JobPlace ==
  ASSUME NEW j, NEW x
  PROVE  x \in JobPlaces(j) <=> \E s \in Slots : x = <<"job", j, s>>
BY DEF JobPlaces

LEMMA CopyPlace ==
  ASSUME NEW j, NEW x
  PROVE  x \in CopyPlaces(j) <=> \E s \in Slots : x = <<"copy", j, s>>
BY DEF CopyPlaces

\* Places of different kinds or of different owners differ.
LEMMA PlacesApart ==
  ASSUME NEW a, NEW b
  PROVE  /\ RequestPlaces(a) \cap JobPlaces(b) = {}
         /\ RequestPlaces(a) \cap CopyPlaces(b) = {}
         /\ JobPlaces(a) \cap CopyPlaces(b) = {}
         /\ a # b => RequestPlaces(a) \cap RequestPlaces(b) = {}
         /\ a # b => JobPlaces(a) \cap JobPlaces(b) = {}
         /\ a # b => CopyPlaces(a) \cap CopyPlaces(b) = {}
BY RequestPlace, JobPlace, CopyPlace

LEMMA CallPlaceIsOne ==
  ASSUME NEW x \in CallPlaces
  PROVE  /\ x \in Places
         /\ \E j \in Jobs : x \in JobPlaces(j) \/ x \in CopyPlaces(j)
BY DEF Places, CallPlaces

LEMMA PlacesOfRequestsAre ==
  ASSUME NEW D \in SUBSET Objects
  PROVE  /\ PlacesOfRequests(D) \in SUBSET Places
         /\ \A o \in Objects : \A x \in RequestPlaces(o) : x \in PlacesOfRequests(D) <=> o \in D
         /\ \A j, x : x \in JobPlaces(j) \/ x \in CopyPlaces(j) => x \notin PlacesOfRequests(D)
BY PlacesContain, PlacesApart DEF PlacesOfRequests

LEMMA PlacesOfJobsAre ==
  ASSUME NEW S \in SUBSET Jobs
  PROVE  /\ PlacesOfJobs(S) \in SUBSET Places
         /\ \A j \in Jobs : \A x \in JobPlaces(j) : x \in PlacesOfJobs(S) <=> j \in S
         /\ \A o, x : x \in RequestPlaces(o) \/ x \in CopyPlaces(o) => x \notin PlacesOfJobs(S)
BY PlacesContain, PlacesApart DEF PlacesOfJobs

LEMMA NothingIsNoPlace == Nothing \notin Places
BY PlaceIsOne, RequestPlace, JobPlace, CopyPlace DEF Nothing

----------------------------------------------------------------------------
(* What happens to forwards *)

\* Every place of P is released; none is the only other thing that is created
\* or not.
LEMMA ReleaseKeepsHeldOnce ==
  ASSUME TypeOK, HeldOnce, NEW P \in SUBSET Places,
         held' = Cleared(P),
         \A f \in Forwards : function'[f] = "none" <=> Released(P)[f] = "none"
  PROVE  /\ HeldOnce'
         /\ held' \in [Places -> Forwards \cup {"nowhere"}]
         /\ Released(P) \in [Forwards -> Plugins \cup {"gone", "none"}]
         /\ \A x \in Places : held'[x] = IF x \in P THEN "nowhere" ELSE held[x]
         /\ \A f \in Forwards : Released(P)[f] \in {"none", function[f]}
         /\ \A x \in Places \ P : held[x] # "nowhere" => Released(P)[held[x]] = function[held[x]]
<1>1. /\ held \in [Places -> Forwards \cup {"nowhere"}]
      /\ function \in [Forwards -> Plugins \cup {"gone", "none"}]
      /\ "nowhere" \notin Forwards
  BY RequestHandlesAssumption DEF TypeOK
<1>2. \A x \in Places : held'[x] = IF x \in P THEN "nowhere" ELSE held[x]
  BY DEF Cleared
<1>3. \A f \in Forwards : Released(P)[f] = IF \E x \in P : held[x] = f THEN "none" ELSE function[f]
  BY DEF Released
<1>4. held' \in [Places -> Forwards \cup {"nowhere"}]
  BY <1>1 DEF Cleared
<1>5. Released(P) \in [Forwards -> Plugins \cup {"gone", "none"}]
  BY <1>1 DEF Released
<1>6. ASSUME NEW x \in Places \ P, held[x] # "nowhere"
      PROVE  Released(P)[held[x]] = function[held[x]] /\ held[x] \in Forwards
  <2>1. held[x] \in Forwards
    BY <1>1, <1>6
  <2>2. \A y \in P : held[y] # held[x]
    BY <1>6 DEF HeldOnce
  <2> QED
    BY <1>3, <2>1, <2>2
<1>7. ASSUME NEW x \in Places, held'[x] # "nowhere" PROVE function'[held'[x]] # "none"
  BY <1>2, <1>6, <1>7 DEF HeldOnce
<1>8. ASSUME NEW f \in Forwards, function'[f] # "none" PROVE \E x \in Places : held'[x] = f
  <2>1. Released(P)[f] # "none"
    BY <1>8
  <2>2. PICK x \in Places : held[x] = f
    BY <1>3, <2>1 DEF HeldOnce
  <2>3. x \notin P
    BY <1>3, <2>1, <2>2
  <2> QED
    BY <1>2, <2>2, <2>3
<1>9. ASSUME NEW x \in Places, NEW y \in Places, held'[x] = held'[y], held'[x] # "nowhere"
      PROVE  x = y
  BY <1>2, <1>9 DEF HeldOnce
<1>10. HeldOnce'
  BY <1>7, <1>8, <1>9 DEF HeldOnce
<1> QED
  BY <1>2, <1>3, <1>4, <1>5, <1>6, <1>10

\* A new forward takes the place x; what was there is released.
LEMMA ReplaceKeepsHeldOnce ==
  ASSUME TypeOK, HeldOnce, NEW x \in Places, NEW f \in Forwards, Unused(f), NEW p \in Plugins,
         held'[x] = f, \A y \in Places \ {x} : held'[y] = held[y],
         \A g \in Forwards : function'[g] = IF g = f THEN p ELSE IF g = held[x] THEN "none"
                                           ELSE function[g]
  PROVE  /\ HeldOnce'
         /\ \A g \in Forwards : function'[g] \in {p, "none", function[g]}
         /\ \A y \in Places \ {x} : held[y] # "nowhere" => function'[held[y]] = function[held[y]]
<1>1. /\ held \in [Places -> Forwards \cup {"nowhere"}]
      /\ function \in [Forwards -> Plugins \cup {"gone", "none"}]
      /\ "nowhere" \notin Forwards /\ p # "none"
  BY RequestHandlesAssumption DEF TypeOK
<1>2. held'[x] = f /\ \A y \in Places \ {x} : held'[y] = held[y]
  BY <1>1
<1>3. \A g \in Forwards : function'[g] = IF g = f THEN p ELSE IF g = held[x] THEN "none"
                                         ELSE function[g]
  OBVIOUS
<1>4. \A y \in Places : held[y] # f
  BY <1>1 DEF HeldOnce, Unused
<1>5. ASSUME NEW y \in Places \ {x}, held[y] # "nowhere"
      PROVE  function'[held[y]] = function[held[y]]
  <2>1. held[y] \in Forwards /\ held[y] # f /\ held[y] # held[x]
    BY <1>1, <1>4, <1>5 DEF HeldOnce
  <2> QED
    BY <1>3, <2>1
<1>6. ASSUME NEW y \in Places, held'[y] # "nowhere" PROVE function'[held'[y]] # "none"
  <2>1. CASE y = x
    BY <1>1, <1>2, <1>3, <2>1
  <2>2. CASE y # x
    BY <1>2, <1>5, <1>6, <2>2 DEF HeldOnce
  <2> QED
    BY <2>1, <2>2
<1>7. ASSUME NEW g \in Forwards, function'[g] # "none" PROVE \E y \in Places : held'[y] = g
  <2>1. CASE g = f
    BY <1>2, <2>1
  <2>2. CASE g # f
    <3>1. g # held[x] /\ function[g] # "none"
      BY <1>3, <1>7, <2>2
    <3>2. PICK y \in Places : held[y] = g
      BY <3>1 DEF HeldOnce
    <3> QED
      BY <1>2, <3>1, <3>2
  <2> QED
    BY <2>1, <2>2
<1>8. ASSUME NEW y \in Places, NEW z \in Places, held'[y] = held'[z], held'[y] # "nowhere"
      PROVE  y = z
  BY <1>2, <1>4, <1>8 DEF HeldOnce
<1>9. HeldOnce'
  BY <1>6, <1>7, <1>8 DEF HeldOnce
<1> QED
  BY <1>1, <1>2, <1>3, <1>5, <1>9

\* Pointers move from the places of From, which are then empty, to those of To,
\* which were; from says where each came from.
LEMMA MoveKeepsHeldOnce ==
  ASSUME TypeOK, HeldOnce, NEW From \in SUBSET Places, NEW To \in SUBSET Places,
         NEW from \in [To -> From],
         \A x \in To : held[x] = "nowhere",
         \A x, y \in To : from[x] = from[y] => x = y,
         \A y \in From : \E x \in To : from[x] = y,
         \A x \in Places :
           held'[x] = IF x \in To THEN held[from[x]] ELSE IF x \in From THEN "nowhere" ELSE held[x],
         function' = function
  PROVE  HeldOnce'
<1>1. held \in [Places -> Forwards \cup {"nowhere"}] /\ "nowhere" \notin Forwards
  BY RequestHandlesAssumption DEF TypeOK
<1>2. ASSUME NEW f \in Forwards, function'[f] # "none" PROVE \E x \in Places : held'[x] = f
  <2>1. PICK y \in Places : held[y] = f
    BY <1>2 DEF HeldOnce
  <2>2. CASE y \in From
    BY <2>1, <2>2
  <2>3. CASE y \notin From
    BY <1>1, <2>1, <2>3
  <2> QED
    BY <2>2, <2>3
<1>3. ASSUME NEW x \in Places, held'[x] # "nowhere" PROVE function'[held'[x]] # "none"
  BY <1>3 DEF HeldOnce
<1>4. ASSUME NEW x \in Places, NEW y \in Places, held'[x] = held'[y], held'[x] # "nowhere"
      PROVE  x = y
  <2>1. CASE x \in To /\ y \in To
    BY <1>4, <2>1 DEF HeldOnce
  <2>2. CASE x \in To /\ y \notin To
    BY <1>4, <2>2 DEF HeldOnce
  <2>3. CASE x \notin To /\ y \in To
    BY <1>4, <2>3 DEF HeldOnce
  <2>4. CASE x \notin To /\ y \notin To
    BY <1>4, <2>4 DEF HeldOnce
  <2> QED
    BY <2>1, <2>2, <2>3, <2>4
<1> QED
  BY <1>2, <1>3, <1>4 DEF HeldOnce

\* The same while a new forward is created at the place x0.
LEMMA MoveAndCreateKeepsHeldOnce ==
  ASSUME TypeOK, HeldOnce, NEW From \in SUBSET Places, NEW To \in SUBSET Places,
         NEW from \in [To -> From],
         \A x \in To : held[x] = "nowhere",
         \A x, y \in To : from[x] = from[y] => x = y,
         \A y \in From : \E x \in To : from[x] = y,
         NEW x0 \in Places \ (To \cup From), held[x0] = "nowhere",
         NEW f \in Forwards, Unused(f), NEW p \in Plugins,
         \A x \in Places :
           held'[x] = IF x = x0 THEN f ELSE IF x \in To THEN held[from[x]]
                      ELSE IF x \in From THEN "nowhere" ELSE held[x],
         function' = Created(f, p)
  PROVE  HeldOnce'
<1>1. /\ held \in [Places -> Forwards \cup {"nowhere"}]
      /\ function \in [Forwards -> Plugins \cup {"gone", "none"}]
      /\ "nowhere" \notin Forwards /\ p # "none"
  BY RequestHandlesAssumption DEF TypeOK
<1>2. function'[f] = p /\ \A g \in Forwards \ {f} : function'[g] = function[g]
  BY <1>1 DEF Created
<1>3. \A y \in Places : held[y] # f
  BY <1>1 DEF HeldOnce, Unused
<1>4. ASSUME NEW g \in Forwards, function'[g] # "none" PROVE \E x \in Places : held'[x] = g
  <2>1. CASE g = f
    BY <2>1
  <2>2. CASE g # f
    <3>1. PICK y \in Places : held[y] = g
      BY <1>2, <1>4, <2>2 DEF HeldOnce
    <3>2. y # x0
      BY <1>1, <3>1
    <3>3. CASE y \in From
      BY <3>1, <3>3
    <3>4. CASE y \notin From
      BY <1>1, <3>1, <3>2, <3>4
    <3> QED
      BY <3>3, <3>4
  <2> QED
    BY <2>1, <2>2
<1>5. ASSUME NEW x \in Places, held'[x] # "nowhere" PROVE function'[held'[x]] # "none"
  <2>1. CASE x = x0
    BY <1>1, <1>2, <2>1
  <2>2. CASE x # x0
    <3>1. PICK y \in Places : held'[x] = held[y]
      BY <1>5, <2>2
    <3>2. held[y] \in Forwards \ {f} /\ function[held[y]] # "none"
      BY <1>1, <1>3, <1>5, <3>1 DEF HeldOnce
    <3> QED
      BY <1>2, <3>1, <3>2
  <2> QED
    BY <2>1, <2>2
<1>6. ASSUME NEW x \in Places, x # x0, held'[x] # "nowhere" PROVE held'[x] # f
  BY <1>3, <1>6
<1>7. ASSUME NEW x \in Places, NEW y \in Places, held'[x] = held'[y], held'[x] # "nowhere"
      PROVE  x = y
  <2>1. CASE x = x0 \/ y = x0
    BY <1>6, <1>7, <2>1
  <2>2. CASE x # x0 /\ y # x0 /\ x \in To /\ y \in To
    BY <1>7, <2>2 DEF HeldOnce
  <2>3. CASE x # x0 /\ y # x0 /\ x \in To /\ y \notin To
    BY <1>7, <2>3 DEF HeldOnce
  <2>4. CASE x # x0 /\ y # x0 /\ x \notin To /\ y \in To
    BY <1>7, <2>4 DEF HeldOnce
  <2>5. CASE x # x0 /\ y # x0 /\ x \notin To /\ y \notin To
    BY <1>7, <2>5 DEF HeldOnce
  <2> QED
    BY <2>1, <2>2, <2>3, <2>4, <2>5
<1> QED
  BY <1>4, <1>5, <1>7 DEF HeldOnce

----------------------------------------------------------------------------
(* The actions *)

LEMMA ClientRequestInvariant ==
  ASSUME HandlesInvariant, NEW p \in Plugins, NEW c \in Clients, NEW o \in Objects,
         Client_Request(p, c, o)
  PROVE  HandlesInvariant'
<1>1. /\ handles[o] = {} /\ handles' = [handles EXCEPT ![o] = {p}]
      /\ sent' = [sent EXCEPT ![o] = 0]
      /\ UNCHANGED <<held, function, record, nextJobId, calling, clients, plugins, orphans>>
  BY DEF Client_Request
<1>2. PICK url \in BOOLEAN : request' = [request EXCEPT ![o] = [client |-> c, url |-> url]]
  BY DEF Client_Request
<1>3. [client |-> c, url |-> url] \in Request
  BY DEF Request
<1>4. TypeOK'
  BY <1>1, <1>2, <1>3 DEF HandlesInvariant, TypeOK
<1>5. HeldOnce'
  BY <1>1 DEF HandlesInvariant, HeldOnce
<1>6. HolderExists'
  BY <1>1 DEF HandlesInvariant, TypeOK, HolderExists, Found
<1>7. CallingStays'
  BY <1>1 DEF HandlesInvariant, CallingStays
<1>8. (\A r \in Objects : sent[r] <= 1 /\ (request[r].url => sent[r] = 0))'
  BY <1>1, <1>2 DEF HandlesInvariant, TypeOK
<1> QED
  BY <1>1, <1>4, <1>5, <1>6, <1>7, <1>8 DEF HandlesInvariant, Found

LEMMA CloneHandleInvariant ==
  ASSUME HandlesInvariant, NEW p \in Plugins, NEW o \in Objects, CloneHandle(p, o)
  PROVE  HandlesInvariant'
<1>1. /\ handles[o] # {} /\ handles' = [handles EXCEPT ![o] = @ \cup {p}]
      /\ UNCHANGED <<held, function, request, record, nextJobId, calling, clients, plugins,
                     sent, orphans>>
  BY DEF CloneHandle
<1>2. TypeOK'
  BY <1>1 DEF HandlesInvariant, TypeOK
<1>3. HeldOnce' /\ CallingStays'
  BY <1>1 DEF HandlesInvariant, HeldOnce, CallingStays
<1>4. HolderExists'
  BY <1>1 DEF HandlesInvariant, TypeOK, HolderExists, Found
<1> QED
  BY <1>1, <1>2, <1>3, <1>4 DEF HandlesInvariant, Found

LEMMA SetCallbackInvariant ==
  ASSUME HandlesInvariant, NEW p \in Plugins, NEW o \in Objects, NEW slot \in Slots,
         SetCallback(p, o, slot)
  PROVE  HandlesInvariant'
<1>1. /\ p \in plugins /\ handles[o] # {} /\ slot # "completed"
      /\ UNCHANGED <<handles, request, record, nextJobId, calling, clients, plugins, sent,
                     orphans>>
  BY DEF SetCallback, Running
<1>2. PICK x : x = <<"request", o, slot>>
  OBVIOUS
<1>3. PICK f \in Forwards :
        /\ Unused(f)
        /\ held' = [held EXCEPT ![x] = f]
        /\ function' = [g \in Forwards |-> IF g = f THEN p ELSE IF g = held[x] THEN "none"
                                           ELSE function[g]]
  BY <1>2 DEF SetCallback, ReplaceForward
<1>4. x \in RequestPlaces(o) /\ x \in Places
  BY <1>1, <1>2, RequestPlace, PlacesContain
<1>5. /\ held'[x] = f
      /\ \A y \in Places \ {x} : held'[y] = held[y]
      /\ \A g \in Forwards : function'[g] = IF g = f THEN p ELSE IF g = held[x] THEN "none"
                                            ELSE function[g]
      /\ held' \in [Places -> Forwards \cup {"nowhere"}]
      /\ function' \in [Forwards -> Plugins \cup {"gone", "none"}]
  BY <1>3, <1>4 DEF HandlesInvariant, TypeOK
<1>10. /\ HeldOnce'
       /\ \A g \in Forwards : function'[g] \in {p, "none", function[g]}
       /\ \A y \in Places \ {x} : held[y] # "nowhere" => function'[held[y]] = function[held[y]]
  <2>1. TypeOK /\ HeldOnce /\ Unused(f)
    BY <1>3 DEF HandlesInvariant
  <2> QED
    BY <1>4, <1>5, <2>1, ReplaceKeepsHeldOnce
<1>6. TypeOK'
  BY <1>1, <1>5 DEF HandlesInvariant, TypeOK
<1>7. HolderExists'
  <2>1. ASSUME NEW r \in Objects, handles'[r] = {}, NEW y \in RequestPlaces(r)
        PROVE  held'[y] = "nowhere"
    <3>1. r # o /\ y # x /\ y \in Places
      BY <1>1, <1>4, <2>1, PlacesApart, PlacesContain
    <3> QED
      BY <1>1, <1>5, <2>1, <3>1 DEF HandlesInvariant, HolderExists
  <2>2. ASSUME NEW j \in Jobs, NEW y \in JobPlaces(j) \cup CopyPlaces(j)
        PROVE  held'[y] = held[y]
    <3>1. y # x /\ y \in Places
      BY <1>4, <2>2, PlacesApart, PlacesContain
    <3> QED
      BY <1>5, <3>1
  <2> QED
    BY <1>1, <2>1, <2>2 DEF HandlesInvariant, HolderExists, Found
<1>8. CallingStays'
  <2>1. calling # Nothing => calling \in Places \ {x}
    <3>1. calling # Nothing => calling \in CallPlaces
      BY DEF HandlesInvariant, TypeOK
    <3> QED
      BY <1>4, <3>1, CallPlaceIsOne, PlacesApart
  <2> QED
    BY <1>1, <1>5, <1>10, <2>1 DEF HandlesInvariant, TypeOK, CallingStays
<1>9. \A g \in Forwards : function'[g] \in plugins' \cup {"gone", "none"}
  BY <1>1, <1>5, <1>10 DEF HandlesInvariant
<1> QED
  BY <1>1, <1>5, <1>10, <1>6, <1>7, <1>8, <1>9 DEF HandlesInvariant, Found

LEMMA FreeRequestInvariant ==
  ASSUME HandlesInvariant, NEW p \in Plugins, NEW o \in Objects, FreeRequest(p, o)
  PROVE  HandlesInvariant'
<1>1. /\ handles' = [handles EXCEPT ![o] = @ \ {p}]
      /\ UNCHANGED <<request, record, nextJobId, calling, clients, plugins, sent, orphans>>
  BY DEF FreeRequest
<1>2. PICK D : D = Destroyed(handles')
  OBVIOUS
<1>3. PICK P : P = PlacesOfRequests(D)
  OBVIOUS
<1>4. held' = Cleared(P) /\ function' = Released(P)
  BY <1>2, <1>3 DEF FreeRequest, ReleasePlaces
<1>5. D \in SUBSET Objects
  BY <1>2 DEF Destroyed
<1>6. P \in SUBSET Places
  BY <1>3, <1>5, PlacesOfRequestsAre
<1>7. TypeOK /\ HeldOnce
  BY DEF HandlesInvariant
<1>8. /\ HeldOnce'
      /\ held' \in [Places -> Forwards \cup {"nowhere"}]
      /\ function' \in [Forwards -> Plugins \cup {"gone", "none"}]
      /\ \A x \in Places : held'[x] = IF x \in P THEN "nowhere" ELSE held[x]
      /\ \A f \in Forwards : function'[f] \in {"none", function[f]}
      /\ \A x \in Places \ P : held[x] # "nowhere" => function'[held[x]] = function[held[x]]
  BY <1>4, <1>6, <1>7, ReleaseKeepsHeldOnce
<1>9. TypeOK'
  BY <1>1, <1>8 DEF HandlesInvariant, TypeOK
<1>10. HolderExists'
  <2>1. ASSUME NEW r \in Objects, handles'[r] = {}, NEW x \in RequestPlaces(r)
        PROVE  held'[x] = "nowhere"
    <3>1. x \in Places
      BY PlacesContain
    <3>2. CASE handles[r] = {}
      BY <1>8, <3>1, <3>2 DEF HandlesInvariant, HolderExists
    <3>3. CASE handles[r] # {}
      <4>1. r \in D
        BY <1>2, <2>1, <3>3 DEF Destroyed
      <4> QED
        BY <1>3, <1>5, <1>8, <3>1, <4>1, PlacesOfRequestsAre
    <3> QED
      BY <3>2, <3>3
  <2>2. ASSUME NEW j \in Jobs, NEW x \in JobPlaces(j) \cup CopyPlaces(j), held[x] = "nowhere"
        PROVE  held'[x] = "nowhere"
    <3>1. x \in Places
      BY PlacesContain
    <3> QED
      BY <1>8, <2>2, <3>1
  <2> QED
    BY <1>1, <2>1, <2>2 DEF HandlesInvariant, HolderExists, Found
<1>11. CallingStays'
  <2>1. calling # Nothing => calling \in Places \ P
    <3>1. calling # Nothing => calling \in CallPlaces
      BY DEF HandlesInvariant, TypeOK
    <3> QED
      BY <1>3, <1>5, <3>1, CallPlaceIsOne, PlacesOfRequestsAre
  <2> QED
    BY <1>1, <1>8, <2>1 DEF HandlesInvariant, CallingStays
<1>12. \A f \in Forwards : function'[f] \in plugins' \cup {"gone", "none"}
  BY <1>1, <1>8 DEF HandlesInvariant
<1> QED
  BY <1>1, <1>8, <1>9, <1>10, <1>11, <1>12 DEF HandlesInvariant, Found

LEMMA SendInvariant ==
  ASSUME HandlesInvariant, NEW p \in Plugins, NEW q \in Plugins, NEW o \in Objects,
         Send(p, q, o)
  PROVE  HandlesInvariant'
<1>1. PICK j : j = nextJobId
  OBVIOUS
<1>2. PICK f \in Forwards :
        Unused(f) /\ function' = Created(f, p) /\ held' = MovedToRecord(o, j, f)
  BY <1>1 DEF Send
<1>3. /\ p \in plugins /\ j <= MaxJobs /\ nextJobId' = j + 1
      /\ request[o].url
      /\ request' = [request EXCEPT ![o] = SpecMoved(o)]
      /\ handles' = [handles EXCEPT ![o] = IF p = q THEN @ \ {q} ELSE @]
      /\ sent' = [sent EXCEPT ![o] = @ + 1]
      /\ orphans' = IF request[o].client \in clients THEN orphans ELSE orphans \cup {j}
      /\ UNCHANGED <<calling, clients, plugins>>
  BY <1>1 DEF Send, Running
<1>4. PICK new : new = [state |-> "idle", client |-> request[o].client, owner |-> p]
  OBVIOUS
<1>5. record' = [record EXCEPT ![j] = new]
  BY <1>1, <1>4 DEF Send
<1>6. j \in Jobs /\ j \in 1..MaxJobs /\ ~Found(j)
  BY <1>1, <1>3, RequestHandlesAssumption DEF HandlesInvariant, TypeOK, Jobs
<1>7. new \in Record /\ new.state = "idle"
  BY <1>4 DEF HandlesInvariant, TypeOK, Request, Record
<1>8. PICK x0 : x0 = <<"job", j, "completed">>
  OBVIOUS
<1>9. PICK From : From = RequestPlaces(o)
  OBVIOUS
<1>10. PICK To : To = JobPlaces(j) \ {x0}
  OBVIOUS
<1>11. PICK from : from = [x \in To |-> <<"request", o, x[3]>>]
  OBVIOUS
<1>12. /\ x0 \in JobPlaces(j) /\ From \subseteq Places /\ To \subseteq Places
       /\ JobPlaces(j) \subseteq Places
       /\ x0 \in Places \ (To \cup From)
  BY <1>6, <1>8, <1>9, <1>10, JobPlace, PlacesContain, PlacesApart DEF Slots
<1>13. \A x \in JobPlaces(j) : held[x] = "nowhere"
  BY <1>6 DEF HandlesInvariant, HolderExists
<1>14. \A x \in To : \E s \in Slots \ {"completed"} : x = <<"job", j, s>> /\ from[x] = <<"request", o, s>>
  BY <1>8, <1>10, <1>11, JobPlace
<1>15. \A x \in JobPlaces(j) : x[3] = "completed" <=> x = x0
  BY <1>8, JobPlace
<1>16. /\ \A x \in To : from[x] \in From
       /\ \A x, y \in To : from[x] = from[y] => x = y
  BY <1>9, <1>14, RequestPlace
<1>17. from \in [To -> From]
  BY <1>11, <1>16
<1>18. ASSUME NEW y \in From PROVE \E x \in To : from[x] = y
  <2>1. PICK s \in Slots \ {"completed"} : y = <<"request", o, s>>
    BY <1>9, <1>18, RequestPlace
  <2>2. <<"job", j, s>> \in To
    BY <1>8, <1>10, <2>1, JobPlace
  <2> QED
    BY <1>11, <2>1, <2>2
<1>19. \A x \in Places :
         held'[x] = IF x = x0 THEN f ELSE IF x \in To THEN held[from[x]]
                    ELSE IF x \in From THEN "nowhere" ELSE held[x]
  <2>1. ASSUME NEW x \in Places
        PROVE  held'[x] = IF x \in JobPlaces(j)
                          THEN (IF x[3] = "completed" THEN f ELSE held[<<"request", o, x[3]>>])
                          ELSE IF x \in RequestPlaces(o) THEN "nowhere" ELSE held[x]
    BY <1>2 DEF MovedToRecord
  <2>2. ASSUME NEW x \in To PROVE held[<<"request", o, x[3]>>] = held[from[x]]
    BY <1>11
  <2> QED
    BY <1>9, <1>10, <1>12, <1>15, <2>1, <2>2
<1>20. HeldOnce'
  <2>1. TypeOK /\ HeldOnce /\ held[x0] = "nowhere" /\ \A x \in To : held[x] = "nowhere"
    BY <1>10, <1>12, <1>13 DEF HandlesInvariant
  <2>2. From \in SUBSET Places /\ To \in SUBSET Places
    BY <1>12
  <2>3. Unused(f) /\ function' = Created(f, p)
    BY <1>2
  <2> QED
    BY <1>12, <1>16, <1>17, <1>18, <1>19, <2>1, <2>2, <2>3, MoveAndCreateKeepsHeldOnce
<1>21. held \in [Places -> Forwards \cup {"nowhere"}]
  BY DEF HandlesInvariant, TypeOK
<1>22. held' \in [Places -> Forwards \cup {"nowhere"}]
  <2>1. \A x \in Places : held'[x] \in Forwards \cup {"nowhere"}
    BY <1>12, <1>16, <1>19, <1>21
  <2>2. \E e : held' = [x \in Places |-> e[x]]
    <3>1. PICK e : e = held'
      OBVIOUS
    <3>2. held' = [x \in Places |-> held'[x]]
      BY <1>2 DEF MovedToRecord
    <3> QED
      BY <3>1, <3>2
  <2> QED
    BY <2>1, <2>2
<1>23. /\ function' \in [Forwards -> Plugins \cup {"gone", "none"}]
       /\ function'[f] = p
       /\ \A g \in Forwards \ {f} : function'[g] = function[g]
  BY <1>2 DEF HandlesInvariant, TypeOK, Created
<1>24. /\ record' \in [Jobs -> Record]
       /\ \A k \in Jobs : record'[k] = IF k = j THEN new ELSE record[k]
  BY <1>5, <1>6, <1>7 DEF HandlesInvariant, TypeOK
<1>25. SpecMoved(o) \in Request /\ SpecMoved(o).url = FALSE
  BY DEF HandlesInvariant, TypeOK, Request, SpecMoved
<1>26. /\ request' \in [Objects -> Request]
       /\ \A r \in Objects : request'[r] = IF r = o THEN SpecMoved(o) ELSE request[r]
  BY <1>3, <1>25 DEF HandlesInvariant, TypeOK
<1>27. /\ handles' \in [Objects -> SUBSET Plugins]
       /\ \A r \in Objects : r # o => handles'[r] = handles[r]
       /\ handles[o] # {}
  BY <1>3 DEF HandlesInvariant, TypeOK, Send
<1>28. sent' \in [Objects -> Nat]
  BY <1>3 DEF HandlesInvariant, TypeOK
<1>29. nextJobId' \in 1..(MaxJobs + 1)
  BY <1>3, <1>6, RequestHandlesAssumption
<1>30. orphans' \subseteq Jobs
  BY <1>3, <1>6 DEF HandlesInvariant, TypeOK
<1>31. TypeOK'
  BY <1>3, <1>22, <1>23, <1>24, <1>26, <1>27, <1>28, <1>29, <1>30 DEF HandlesInvariant, TypeOK
<1>32. ASSUME NEW x \in Places, x \notin JobPlaces(j)
       PROVE  held'[x] = IF x \in From THEN "nowhere" ELSE held[x]
  BY <1>10, <1>12, <1>19, <1>32
<1>33. HolderExists'
  <2>1. ASSUME NEW r \in Objects, handles'[r] = {}, NEW x \in RequestPlaces(r)
        PROVE  held'[x] = "nowhere"
    <3>1. x \in Places /\ x \notin JobPlaces(j)
      BY PlacesContain, PlacesApart
    <3>2. CASE r = o
      BY <1>9, <1>32, <3>1, <3>2
    <3>3. CASE r # o
      <4>1. held[x] = "nowhere"
        BY <1>27, <2>1, <3>3 DEF HandlesInvariant, HolderExists
      <4> QED
        BY <1>32, <3>1, <4>1
    <3> QED
      BY <3>2, <3>3
  <2>2. ASSUME NEW k \in Jobs, record'[k].state = "absent", NEW x \in JobPlaces(k)
        PROVE  held'[x] = "nowhere"
    <3>1. k # j /\ ~Found(k)
      BY <1>7, <1>24, <2>2 DEF Found
    <3>2. held[x] = "nowhere"
      BY <3>1 DEF HandlesInvariant, HolderExists
    <3>3. x \in Places /\ x \notin JobPlaces(j)
      BY <3>1, PlacesContain, PlacesApart
    <3> QED
      BY <1>32, <3>2, <3>3
  <2>3. ASSUME NEW k \in Jobs, calling' # <<"copy", k, "completed">>, NEW x \in CopyPlaces(k)
        PROVE  held'[x] = "nowhere"
    <3>1. held[x] = "nowhere"
      BY <1>3, <2>3 DEF HandlesInvariant, HolderExists
    <3>2. x \in Places /\ x \notin JobPlaces(j)
      BY PlacesContain, PlacesApart
    <3> QED
      BY <1>32, <3>1, <3>2
  <2> QED
    BY <2>1, <2>2, <2>3 DEF HolderExists, Found
<1>34. ASSUME calling # Nothing
       PROVE  held'[calling] = held[calling] /\ held[calling] \in Forwards \ {f}
  <2>1. calling \in CallPlaces /\ held[calling] # "nowhere"
    BY <1>34 DEF HandlesInvariant, TypeOK, CallingStays
  <2>2. calling \in Places /\ calling \notin JobPlaces(j)
    BY <1>13, <2>1, CallPlaceIsOne
  <2>3. calling \notin From
    BY <1>9, <2>1, CallPlaceIsOne, PlacesApart
  <2>4. held[calling] \in Forwards /\ function[held[calling]] # "none"
    BY <1>21, <2>1, <2>2 DEF HandlesInvariant, HeldOnce
  <2> QED
    BY <1>2, <1>32, <2>2, <2>3, <2>4 DEF Unused
<1>35. ~(calling[1] = "job" /\ calling[2] = j)
  <2>1. record[j].state = "absent"
    BY <1>6 DEF Found
  <2> QED
    BY <1>6, <2>1 DEF HandlesInvariant, CallingStays, Found
<1>36. CallingStays'
  BY <1>3, <1>7, <1>23, <1>24, <1>34, <1>35 DEF HandlesInvariant, CallingStays
<1>37. \A g \in Forwards : function'[g] \in plugins' \cup {"gone", "none"}
  BY <1>3, <1>23 DEF HandlesInvariant
<1>38. \A k \in Jobs : nextJobId' <= k => record'[k].state = "absent"
  <2>1. nextJobId \in Nat /\ nextJobId' = nextJobId + 1
    BY <1>1, <1>3, <1>6
  <2>2. \A k \in Jobs : k \in Nat
    BY DEF Jobs
  <2>3. \A k \in Jobs : nextJobId' <= k => nextJobId <= k /\ k # j
    BY <1>1, <2>1, <2>2
  <2> QED
    BY <1>24, <2>3 DEF HandlesInvariant, Found
<1>39. \A r \in Objects : sent'[r] <= 1 /\ (request'[r].url => sent'[r] = 0)
  <2>1. sent[o] = 0
    BY <1>3 DEF HandlesInvariant
  <2>2. sent'[o] = 1 /\ \A r \in Objects : r # o => sent'[r] = sent[r]
    BY <1>3, <2>1 DEF HandlesInvariant, TypeOK
  <2>3. request'[o].url = FALSE /\ \A r \in Objects : r # o => request'[r] = request[r]
    BY <1>25, <1>26
  <2> QED
    BY <2>2, <2>3 DEF HandlesInvariant
<1> QED
  BY <1>20, <1>31, <1>33, <1>36, <1>37, <1>38, <1>39 DEF HandlesInvariant, Found

----------------------------------------------------------------------------
(* Records and requests that go *)

LEMMA RecordsDroppedAre ==
  ASSUME HandlesInvariant, NEW S \in SUBSET Jobs, \A j \in S : Found(j),
         record' = RecordsDropped(S)
  PROVE  /\ record' \in [Jobs -> Record]
         /\ Erased(S) \in SUBSET Jobs
         /\ \A j \in Jobs : record'[j].state = "absent" <=> ~Found(j) \/ j \in Erased(S)
         /\ \A j \in Jobs : record'[j].state \in {"dispatching", "dropped"} <=>
                            record[j].state \in {"dispatching", "dropped"}
         /\ \A j \in Erased(S) : ~(calling[1] = "job" /\ calling[2] = j)
<1>1. record \in [Jobs -> Record]
  BY DEF HandlesInvariant, TypeOK
<1>2. Erased(S) \in SUBSET Jobs /\ \A j \in S : j \in Erased(S) <=> record[j].state = "idle"
  BY DEF Erased
<1>3. \A j \in Jobs \ S : j \notin Erased(S)
  BY DEF Erased
<1>4. NoRecord \in Record /\ NoRecord.state = "absent"
  BY DEF NoRecord, Record
<1>5. ASSUME NEW j \in Jobs
      PROVE  /\ record'[j] \in Record
             /\ j \in Erased(S) => record'[j].state = "absent"
             /\ j \in S \ Erased(S) => record'[j].state = "dropped"
             /\ j \notin S => record'[j] = record[j]
  <2>1. CASE j \in Erased(S)
    <3>1. record'[j] = NoRecord
      BY <2>1 DEF RecordsDropped
    <3> QED
      BY <1>3, <1>4, <2>1, <3>1
  <2>2. CASE j \in S \ Erased(S)
    <3>1. record'[j] = [record[j] EXCEPT !.state = "dropped"]
      BY <2>2 DEF RecordsDropped
    <3> QED
      BY <1>1, <2>2, <3>1 DEF Record
  <2>3. CASE j \notin S
    <3>1. record'[j] = record[j]
      BY <1>3, <2>3 DEF RecordsDropped
    <3> QED
      BY <1>1, <1>3, <2>3, <3>1
  <2> QED
    BY <2>1, <2>2, <2>3
<1>6. record' \in [Jobs -> Record]
  BY <1>5 DEF RecordsDropped
<1>7. \A j \in Jobs : record[j].state \in {"absent", "idle", "dispatching", "dropped"}
  BY <1>1 DEF Record
<1>8. ASSUME NEW j \in Erased(S) PROVE ~(calling[1] = "job" /\ calling[2] = j)
  BY <1>2, <1>3 DEF HandlesInvariant, CallingStays
<1> QED
  BY <1>2, <1>3, <1>5, <1>6, <1>7, <1>8 DEF Found

\* The jobs of J and the requests of D go, with what they hold: the places of P.
Dropping(J, D, P) ==
  /\ P = PlacesOfJobs(J) \cup PlacesOfRequests(D)
  /\ held' = Cleared(P)
  /\ \A f \in Forwards : function'[f] = "none" <=> Released(P)[f] = "none"
  /\ \A j \in Jobs : record'[j].state = "absent" <=> ~Found(j) \/ j \in J
  /\ \A o \in Objects : handles'[o] = {} => handles[o] = {} \/ o \in D
  /\ calling' # Nothing => calling' = calling /\ \A j \in J : ~(calling[1] = "job" /\ calling[2] = j)
  /\ \A j \in Jobs : calling = <<"copy", j, "completed">> => calling' = calling

LEMMA DropInvariant ==
  ASSUME HandlesInvariant, NEW J \in SUBSET Jobs, NEW D \in SUBSET Objects,
         NEW P, Dropping(J, D, P)
  PROVE  /\ HeldOnce'
         /\ held' \in [Places -> Forwards \cup {"nowhere"}]
         /\ Released(P) \in [Forwards -> Plugins \cup {"gone", "none"}]
         /\ \A f \in Forwards : Released(P)[f] \in {"none", function[f]}
         /\ HolderExists'
         /\ calling' # Nothing => /\ held'[calling] = held[calling]
                                 /\ held[calling] \in Forwards
                                 /\ Released(P)[held[calling]] = function[held[calling]]
<1> USE DEF Dropping
<1>1. TypeOK /\ HeldOnce /\ P \in SUBSET Places
  BY PlacesOfJobsAre, PlacesOfRequestsAre DEF HandlesInvariant
<1>2. /\ HeldOnce'
      /\ held' \in [Places -> Forwards \cup {"nowhere"}]
      /\ Released(P) \in [Forwards -> Plugins \cup {"gone", "none"}]
      /\ \A x \in Places : held'[x] = IF x \in P THEN "nowhere" ELSE held[x]
      /\ \A f \in Forwards : Released(P)[f] \in {"none", function[f]}
      /\ \A x \in Places \ P : held[x] # "nowhere" => Released(P)[held[x]] = function[held[x]]
  BY <1>1, ReleaseKeepsHeldOnce
<1>3. \A x \in Places : held[x] = "nowhere" \/ x \in P => held'[x] = "nowhere"
  BY <1>2
<1>4. HolderExists'
  <2>1. ASSUME NEW r \in Objects, handles'[r] = {}, NEW x \in RequestPlaces(r)
        PROVE  held'[x] = "nowhere"
    <3>1. x \in Places
      BY PlacesContain
    <3>2. CASE handles[r] = {}
      BY <1>3, <3>1, <3>2 DEF HandlesInvariant, HolderExists
    <3>3. CASE r \in D
      BY <1>3, <3>1, <3>3, PlacesOfRequestsAre
    <3> QED
      BY <2>1, <3>2, <3>3
  <2>2. ASSUME NEW j \in Jobs, record'[j].state = "absent", NEW x \in JobPlaces(j)
        PROVE  held'[x] = "nowhere"
    <3>1. x \in Places
      BY PlacesContain
    <3>2. CASE ~Found(j)
      BY <1>3, <3>1, <3>2 DEF HandlesInvariant, HolderExists
    <3>3. CASE j \in J
      BY <1>3, <3>1, <3>3, PlacesOfJobsAre
    <3> QED
      BY <2>2, <3>2, <3>3
  <2>3. ASSUME NEW j \in Jobs, calling' # <<"copy", j, "completed">>, NEW x \in CopyPlaces(j)
        PROVE  held'[x] = "nowhere"
    <3>1. x \in Places
      BY PlacesContain
    <3> QED
      BY <1>3, <2>3, <3>1 DEF HandlesInvariant, HolderExists
  <2> QED
    BY <2>1, <2>2, <2>3 DEF HolderExists, Found
<1>5. ASSUME calling' # Nothing
      PROVE  /\ held'[calling] = held[calling]
             /\ held[calling] \in Forwards
             /\ Released(P)[held[calling]] = function[held[calling]]
  <2>1. calling \in CallPlaces /\ held[calling] # "nowhere"
    BY <1>5 DEF HandlesInvariant, TypeOK, CallingStays
  <2>2. calling \in Places /\ held[calling] \in Forwards
    BY <1>1, <2>1, CallPlaceIsOne DEF TypeOK
  <2>3. calling \notin PlacesOfRequests(D)
    BY <2>1, CallPlaceIsOne, PlacesOfRequestsAre
  <2>4. calling \notin PlacesOfJobs(J)
    <3>1. PICK j \in Jobs : calling \in JobPlaces(j) \/ calling \in CopyPlaces(j)
      BY <2>1, CallPlaceIsOne
    <3>2. CASE calling \in JobPlaces(j)
      <4>1. calling[1] = "job" /\ calling[2] = j
        BY <3>2, JobPlace
      <4>2. j \notin J
        BY <1>5, <4>1
      <4> QED
        BY <3>1, <3>2, <4>2, PlacesOfJobsAre
    <3>3. CASE calling \in CopyPlaces(j)
      BY <3>3, PlacesOfJobsAre
    <3> QED
      BY <3>1, <3>2, <3>3
  <2> QED
    BY <1>2, <2>1, <2>2, <2>3, <2>4
<1> QED
  BY <1>2, <1>4, <1>5

LEMMA NoneAreEmpty == PlacesOfJobs({}) = {} /\ PlacesOfRequests({}) = {}
BY DEF PlacesOfJobs, PlacesOfRequests

LEMMA DeleteClientInvariant ==
  ASSUME HandlesInvariant, NEW p \in Plugins, NEW c \in Clients, DeleteClient(p, c)
  PROVE  HandlesInvariant'
<1>1. PICK S : S = FoundForClient(c)
  OBVIOUS
<1>2. PICK J : J = Erased(S)
  OBVIOUS
<1>3. PICK P : P = PlacesOfJobs(J) \cup PlacesOfRequests({})
  OBVIOUS
<1>4. /\ clients' = clients \ {c}
      /\ record' = RecordsDropped(S)
      /\ UNCHANGED <<handles, request, nextJobId, calling, plugins, sent, orphans>>
  BY <1>1 DEF DeleteClient
<1>5. held' = Cleared(P) /\ function' = Released(P)
  BY <1>1, <1>2, <1>3, NoneAreEmpty DEF DeleteClient, ReleasePlaces
<1>6. S \in SUBSET Jobs /\ \A j \in S : Found(j)
  BY <1>1 DEF FoundForClient
<1>7. /\ record' \in [Jobs -> Record]
      /\ J \in SUBSET Jobs
      /\ \A j \in Jobs : record'[j].state = "absent" <=> ~Found(j) \/ j \in J
      /\ \A j \in Jobs : record'[j].state \in {"dispatching", "dropped"} <=>
                         record[j].state \in {"dispatching", "dropped"}
      /\ \A j \in J : ~(calling[1] = "job" /\ calling[2] = j)
  BY <1>2, <1>4, <1>6, RecordsDroppedAre
<1>8. {} \in SUBSET Objects /\ \A o \in Objects : handles'[o] = {} => handles[o] = {}
  BY <1>4
<1>9. \A f \in Forwards : function'[f] = "none" <=> Released(P)[f] = "none"
  BY <1>5
<1>15. calling' = calling
  BY <1>4
<1>10. /\ HeldOnce' /\ HolderExists'
       /\ held' \in [Places -> Forwards \cup {"nowhere"}]
       /\ function' \in [Forwards -> Plugins \cup {"gone", "none"}]
       /\ \A f \in Forwards : function'[f] \in {"none", function[f]}
       /\ calling # Nothing => /\ held'[calling] = held[calling]
                              /\ function'[held[calling]] = function[held[calling]]
  <2>1. /\ HeldOnce' /\ HolderExists'
        /\ held' \in [Places -> Forwards \cup {"nowhere"}]
        /\ Released(P) \in [Forwards -> Plugins \cup {"gone", "none"}]
        /\ \A f \in Forwards : Released(P)[f] \in {"none", function[f]}
        /\ calling' # Nothing => /\ held'[calling] = held[calling]
                                /\ Released(P)[held[calling]] = function[held[calling]]
    <3>1. Dropping(J, {}, P)
      BY <1>3, <1>5, <1>7, <1>8, <1>9, <1>15 DEF Dropping
    <3>2. J \in SUBSET Jobs /\ {} \in SUBSET Objects
      BY <1>7
    <3> QED
      BY <3>1, <3>2, DropInvariant, Zenon
  <2> QED
    BY <1>5, <1>15, <2>1
<1>11. TypeOK'
  BY <1>4, <1>7, <1>10 DEF HandlesInvariant, TypeOK
<1>12. CallingStays'
  BY <1>4, <1>7, <1>10 DEF HandlesInvariant, CallingStays
<1>13. \A f \in Forwards : function'[f] \in plugins' \cup {"gone", "none"}
  BY <1>4, <1>10 DEF HandlesInvariant
<1>14. \A j \in Jobs : nextJobId' <= j => record'[j].state = "absent"
  BY <1>4, <1>7 DEF HandlesInvariant
<1> QED
  BY <1>4, <1>10, <1>11, <1>12, <1>13, <1>14 DEF HandlesInvariant, Found

LEMMA UnloadPluginInvariant ==
  ASSUME HandlesInvariant, NEW p \in Plugins, UnloadPlugin(p)
  PROVE  HandlesInvariant'
<1>1. PICK own : own = {c \in clients : ClientOwner[c] = p}
  OBVIOUS
<1>2. PICK S : S = {j \in Jobs : Found(j) /\ (record[j].owner = p \/ record[j].client \in own)}
  OBVIOUS
<1>3. PICK left : left = [o \in Objects |-> handles[o] \ {p}]
  OBVIOUS
<1>4. PICK J : J = Erased(S)
  OBVIOUS
<1>5. PICK D : D = Destroyed(left)
  OBVIOUS
<1>6. PICK P : P = PlacesOfJobs(J) \cup PlacesOfRequests(D)
  OBVIOUS
<1>7. /\ calling # Nothing => function[held[calling]] # p
      /\ plugins' = plugins \ {p}
      /\ clients' = clients \ own
      /\ handles' = left
      /\ record' = RecordsDropped(S)
      /\ held' = Cleared(P)
      /\ function' = [f \in Forwards |-> IF Released(P)[f] = p THEN "gone" ELSE Released(P)[f]]
      /\ UNCHANGED <<request, nextJobId, calling, sent, orphans>>
  BY <1>1, <1>2, <1>3, <1>4, <1>5, <1>6 DEF UnloadPlugin
<1>8. S \in SUBSET Jobs /\ \A j \in S : Found(j)
  BY <1>2
<1>9. /\ record' \in [Jobs -> Record]
      /\ J \in SUBSET Jobs
      /\ \A j \in Jobs : record'[j].state = "absent" <=> ~Found(j) \/ j \in J
      /\ \A j \in Jobs : record'[j].state \in {"dispatching", "dropped"} <=>
                         record[j].state \in {"dispatching", "dropped"}
      /\ \A j \in J : ~(calling[1] = "job" /\ calling[2] = j)
  BY <1>4, <1>7, <1>8, RecordsDroppedAre
<1>10. /\ D \in SUBSET Objects
       /\ \A o \in Objects : handles'[o] = {} => handles[o] = {} \/ o \in D
       /\ handles' \in [Objects -> SUBSET Plugins]
  BY <1>3, <1>5, <1>7 DEF Destroyed, HandlesInvariant, TypeOK
<1>11. \A f \in Forwards :
         /\ function'[f] = IF Released(P)[f] = p THEN "gone" ELSE Released(P)[f]
         /\ function'[f] = "none" <=> Released(P)[f] = "none"
  BY <1>7, RequestHandlesAssumption
<1>12. /\ HeldOnce' /\ HolderExists'
       /\ held' \in [Places -> Forwards \cup {"nowhere"}]
       /\ Released(P) \in [Forwards -> Plugins \cup {"gone", "none"}]
       /\ \A f \in Forwards : Released(P)[f] \in {"none", function[f]}
       /\ calling' # Nothing => /\ held'[calling] = held[calling]
                               /\ held[calling] \in Forwards
                               /\ Released(P)[held[calling]] = function[held[calling]]
  <2>1. /\ held' = Cleared(P) /\ calling' = calling
        /\ \A f \in Forwards : function'[f] = "none" <=> Released(P)[f] = "none"
    BY <1>7, <1>11
  <2>2. Dropping(J, D, P)
    BY <1>6, <1>9, <1>10, <2>1 DEF Dropping
  <2>3. J \in SUBSET Jobs /\ D \in SUBSET Objects
    BY <1>9, <1>10
  <2> QED
    BY <2>2, <2>3, DropInvariant, Zenon
<1>13. function' \in [Forwards -> Plugins \cup {"gone", "none"}]
  BY <1>7, <1>12
<1>14. TypeOK'
  BY <1>7, <1>9, <1>10, <1>12, <1>13 DEF HandlesInvariant, TypeOK
<1>15. CallingStays'
  BY <1>7, <1>9, <1>11, <1>12 DEF HandlesInvariant, CallingStays
<1>16. \A f \in Forwards : function'[f] \in plugins' \cup {"gone", "none"}
  BY <1>7, <1>11, <1>12 DEF HandlesInvariant
<1>17. \A j \in Jobs : nextJobId' <= j => record'[j].state = "absent"
  BY <1>7, <1>9 DEF HandlesInvariant
<1> QED
  BY <1>7, <1>12, <1>14, <1>15, <1>16, <1>17 DEF HandlesInvariant, Found

----------------------------------------------------------------------------
(* Events *)

LEMMA HandleIntermediateInvariant ==
  ASSUME HandlesInvariant, NEW j \in Jobs, NEW slot \in Slots, HandleIntermediate(j, slot)
  PROVE  HandlesInvariant'
<1>1. PICK x : x = <<"job", j, slot>>
  OBVIOUS
<1>2. /\ calling = Nothing /\ Found(j) /\ Callable(x)
      /\ record' = [record EXCEPT ![j].state = "dispatching"]
      /\ calling' = x
      /\ UNCHANGED <<held, function, handles, request, nextJobId, clients, plugins, sent,
                     orphans>>
  BY <1>1 DEF HandleIntermediate
<1>3. x \in JobPlaces(j) /\ x \in CallPlaces /\ x \in Places /\ x # Nothing
  BY <1>1, JobPlace, PlacesContain DEF CallPlaces, Nothing
<1>4. record \in [Jobs -> Record]
  BY DEF HandlesInvariant, TypeOK
<1>5. PICK new : new = [record[j] EXCEPT !.state = "dispatching"]
  OBVIOUS
<1>6. new \in Record /\ new.state = "dispatching"
  BY <1>4, <1>5 DEF Record
<1>7. /\ record' \in [Jobs -> Record]
      /\ \A k \in Jobs : record'[k] = IF k = j THEN new ELSE record[k]
  BY <1>2, <1>4, <1>5, <1>6
<1>8. held[x] \in Forwards /\ function[held[x]] \in plugins
  <2>1. held[x] \in Forwards /\ function[held[x]] # "gone"
    BY <1>2, <1>3 DEF Callable, HandlesInvariant, TypeOK
  <2>2. function[held[x]] # "none"
    BY <1>2, <1>3 DEF Callable, HandlesInvariant, HeldOnce
  <2> QED
    BY <2>1, <2>2 DEF HandlesInvariant
<1>9. TypeOK'
  BY <1>2, <1>3, <1>7 DEF HandlesInvariant, TypeOK
<1>10. HeldOnce'
  BY <1>2 DEF HandlesInvariant, HeldOnce
<1>11. \A k \in Jobs : record'[k].state = "absent" <=> ~Found(k)
  BY <1>2, <1>6, <1>7 DEF Found
<1>12. HolderExists'
  <2>1. \A k \in Jobs : calling # <<"copy", k, "completed">>
    BY <1>2 DEF Nothing
  <2> QED
    BY <1>2, <1>11, <2>1 DEF HandlesInvariant, HolderExists, Found
<1>13. CallingStays'
  <2>1. calling'[1] = "job" /\ calling'[2] = j
    BY <1>1, <1>2
  <2>2. calling[1] # "job"
    BY <1>2 DEF Nothing
  <2>3. \A k \in Jobs : record'[k].state \in {"dispatching", "dropped"} <=> k = j
    BY <1>6, <1>7, <2>2 DEF HandlesInvariant, CallingStays
  <2>4. "nowhere" \notin Forwards
    BY RequestHandlesAssumption
  <2> QED
    BY <1>2, <1>8, <2>1, <2>3, <2>4 DEF CallingStays
<1>14. \A k \in Jobs : nextJobId' <= k => record'[k].state = "absent"
  BY <1>2, <1>11 DEF HandlesInvariant
<1> QED
  BY <1>2, <1>9, <1>10, <1>12, <1>13, <1>14 DEF HandlesInvariant, Found

LEMMA ReturnFromIntermediateInvariant ==
  ASSUME HandlesInvariant, ReturnFromIntermediate
  PROVE  HandlesInvariant'
<1>1. PICK j : j = calling[2]
  OBVIOUS
<1>2. PICK J : J = {k \in {j} : record[k].state = "dropped"}
  OBVIOUS
<1>3. PICK P : P = PlacesOfJobs(J) \cup PlacesOfRequests({})
  OBVIOUS
<1>4. /\ calling[1] = "job" /\ calling' = Nothing
      /\ record' = [record EXCEPT ![j] = IF j \in J THEN NoRecord
                                         ELSE [@ EXCEPT !.state = "idle"]]
      /\ UNCHANGED <<handles, request, nextJobId, clients, plugins, sent, orphans>>
  BY <1>1, <1>2 DEF ReturnFromIntermediate
<1>5. held' = Cleared(P) /\ function' = Released(P)
  BY <1>1, <1>2, <1>3, NoneAreEmpty DEF ReturnFromIntermediate, ReleasePlaces
<1>6. j \in Jobs
  <2>1. calling # Nothing
    BY <1>4 DEF Nothing
  <2>2. calling \in CallPlaces
    BY <2>1 DEF HandlesInvariant, TypeOK
  <2>3. PICK k \in Jobs : calling \in JobPlaces(k) \/ calling \in CopyPlaces(k)
    BY <2>2, CallPlaceIsOne
  <2> QED
    BY <1>1, <2>3, JobPlace, CopyPlace
<1>7. record[j].state \in {"dispatching", "dropped"}
  BY <1>1, <1>4, <1>6 DEF HandlesInvariant, CallingStays
<1>8. record \in [Jobs -> Record]
  BY DEF HandlesInvariant, TypeOK
<1>9. PICK new : new = IF j \in J THEN NoRecord ELSE [record[j] EXCEPT !.state = "idle"]
  OBVIOUS
<1>10. /\ new \in Record
       /\ new.state = "absent" <=> j \in J
       /\ new.state \in {"absent", "idle"}
  <2>1. CASE j \in J
    BY <1>9, <2>1 DEF NoRecord, Record
  <2>2. CASE j \notin J
    <3>1. new = [record[j] EXCEPT !.state = "idle"]
      BY <1>9, <2>2
    <3> QED
      BY <1>6, <1>8, <2>2, <3>1 DEF Record
  <2> QED
    BY <2>1, <2>2
<1>11. /\ record' \in [Jobs -> Record]
       /\ \A k \in Jobs : record'[k] = IF k = j THEN new ELSE record[k]
  BY <1>4, <1>6, <1>8, <1>9, <1>10
<1>12. J \subseteq {j} /\ J \in SUBSET Jobs /\ {} \in SUBSET Objects
  BY <1>2, <1>6
<1>13. \A k \in Jobs : record'[k].state = "absent" <=> ~Found(k) \/ k \in J
  <2>1. Found(j)
    BY <1>7 DEF Found
  <2> QED
    BY <1>10, <1>11, <1>12, <2>1 DEF Found
<1>14. Dropping(J, {}, P)
  <2>1. \A k \in Jobs : calling # <<"copy", k, "completed">>
    BY <1>4
  <2> QED
    BY <1>3, <1>4, <1>5, <1>13, <2>1 DEF Dropping
<1>15. /\ HeldOnce' /\ HolderExists'
       /\ held' \in [Places -> Forwards \cup {"nowhere"}]
       /\ Released(P) \in [Forwards -> Plugins \cup {"gone", "none"}]
       /\ \A f \in Forwards : Released(P)[f] \in {"none", function[f]}
  BY <1>12, <1>14, DropInvariant, Zenon
<1>16. TypeOK'
  BY <1>4, <1>5, <1>11, <1>15 DEF HandlesInvariant, TypeOK
<1>17. CallingStays'
  <2>1. \A k \in Jobs : record'[k].state \notin {"dispatching", "dropped"}
    BY <1>1, <1>4, <1>10, <1>11 DEF HandlesInvariant, CallingStays
  <2>2. calling'[1] # "job"
    BY <1>4 DEF Nothing
  <2> QED
    BY <1>4, <2>1, <2>2 DEF CallingStays
<1>18. \A f \in Forwards : function'[f] \in plugins' \cup {"gone", "none"}
  BY <1>4, <1>5, <1>15 DEF HandlesInvariant
<1>19. \A k \in Jobs : nextJobId' <= k => record'[k].state = "absent"
  BY <1>4, <1>13 DEF HandlesInvariant
<1> QED
  BY <1>4, <1>15, <1>16, <1>17, <1>18, <1>19 DEF HandlesInvariant, Found

\* What follows from a release of the jobs of J and the requests of D while no
\* callback is running.
LEMMA ReleaseIdleInvariant ==
  ASSUME HandlesInvariant, NEW J \in SUBSET Jobs, NEW D \in SUBSET Objects, NEW P,
         Dropping(J, D, P), function' = Released(P),
         calling = Nothing, calling' = Nothing,
         record' \in [Jobs -> Record],
         \A j \in Jobs : record'[j] = IF j \in J THEN NoRecord ELSE record[j],
         handles' \in [Objects -> SUBSET Plugins],
         \A f \in Forwards : function'[f] \in plugins' \cup {"gone", "none"},
         clients' \subseteq clients, plugins' \subseteq plugins,
         UNCHANGED <<request, nextJobId, sent, orphans>>
  PROVE  HandlesInvariant'
<1>1. /\ HeldOnce' /\ HolderExists'
      /\ held' \in [Places -> Forwards \cup {"nowhere"}]
      /\ Released(P) \in [Forwards -> Plugins \cup {"gone", "none"}]
  BY DropInvariant, Zenon
<1>2. TypeOK'
  BY <1>1 DEF HandlesInvariant, TypeOK
<1>3. CallingStays'
  <2>1. Nothing[1] # "job"
    BY DEF Nothing
  <2>2. \A j \in Jobs : record[j].state \notin {"dispatching", "dropped"}
    BY <2>1 DEF HandlesInvariant, CallingStays
  <2>3. \A j \in Jobs : record'[j].state \notin {"dispatching", "dropped"}
    BY <2>2 DEF NoRecord
  <2> QED
    BY <2>1, <2>3 DEF CallingStays
<1>4. \A j \in Jobs : nextJobId' <= j => record'[j].state = "absent"
  BY DEF HandlesInvariant, Found, NoRecord
<1> QED
  BY <1>1, <1>2, <1>3, <1>4 DEF HandlesInvariant, Found

LEMMA CompleteUnheardInvariant ==
  ASSUME HandlesInvariant, NEW j \in Jobs, CompleteUnheard(j)
  PROVE  HandlesInvariant'
<1>1. /\ calling = Nothing /\ Found(j)
      /\ record' = [record EXCEPT ![j] = NoRecord]
      /\ UNCHANGED <<handles, request, nextJobId, calling, clients, plugins, sent, orphans>>
  BY DEF CompleteUnheard
<1>2. PICK P : P = PlacesOfJobs({j}) \cup PlacesOfRequests({})
  OBVIOUS
<1>3. P = JobPlaces(j)
  BY <1>2, NoneAreEmpty DEF PlacesOfJobs
<1>4. held' = Cleared(P) /\ function' = Released(P)
  BY <1>3 DEF CompleteUnheard, ReleasePlaces
<1>5. NoRecord \in Record /\ NoRecord.state = "absent"
  BY DEF NoRecord, Record
<1>6. /\ record' \in [Jobs -> Record]
      /\ \A k \in Jobs : record'[k] = IF k \in {j} THEN NoRecord ELSE record[k]
  BY <1>1, <1>5 DEF HandlesInvariant, TypeOK
<1>7. {j} \in SUBSET Jobs /\ {} \in SUBSET Objects
  OBVIOUS
<1>8. Dropping({j}, {}, P)
  <2>1. \A k \in Jobs : record'[k].state = "absent" <=> ~Found(k) \/ k \in {j}
    BY <1>5, <1>6 DEF Found
  <2> QED
    BY <1>1, <1>2, <1>4, <2>1 DEF Dropping
<1>9. \A f \in Forwards : function'[f] \in plugins' \cup {"gone", "none"}
  <2>1. \A f \in Forwards : Released(P)[f] \in {"none", function[f]}
    BY <1>7, <1>8, DropInvariant, Zenon
  <2> QED
    BY <1>1, <1>4, <2>1 DEF HandlesInvariant
<1>10. handles' \in [Objects -> SUBSET Plugins] /\ calling' = Nothing
       /\ clients' \subseteq clients /\ plugins' \subseteq plugins
  BY <1>1 DEF HandlesInvariant, TypeOK
<1>11. UNCHANGED <<request, nextJobId, sent, orphans>>
  BY <1>1
<1>12. function' = Released(P) /\ calling = Nothing
  BY <1>1, <1>4
<1> QED
  BY <1>6, <1>7, <1>8, <1>9, <1>10, <1>11, <1>12, ReleaseIdleInvariant, Zenon

LEMMA SDK_OnUnloadInvariant ==
  ASSUME HandlesInvariant, SDK_OnUnload
  PROVE  HandlesInvariant'
<1>1. PICK J : J = {j \in Jobs : Found(j)}
  OBVIOUS
<1>2. PICK none : none = [o \in Objects |-> {}]
  OBVIOUS
<1>3. PICK D : D = Destroyed(none)
  OBVIOUS
<1>4. PICK P : P = PlacesOfJobs(J) \cup PlacesOfRequests(D)
  OBVIOUS
<1>5. /\ calling = Nothing
      /\ record' = [j \in Jobs |-> NoRecord]
      /\ handles' = none
      /\ clients' = {} /\ plugins' = {}
      /\ UNCHANGED <<request, nextJobId, calling, sent, orphans>>
  BY <1>2 DEF SDK_OnUnload
<1>6. held' = Cleared(P) /\ function' = Released(P)
  BY <1>1, <1>2, <1>3, <1>4 DEF SDK_OnUnload, ReleasePlaces
<1>7. J \in SUBSET Jobs /\ D \in SUBSET Objects
  BY <1>1, <1>3 DEF Destroyed
<1>8. NoRecord \in Record /\ NoRecord.state = "absent"
  BY DEF NoRecord, Record
<1>9. record \in [Jobs -> Record]
  BY DEF HandlesInvariant, TypeOK
<1>10. \A j \in Jobs : record[j].state = "absent" => j \notin J
  BY <1>1 DEF Found
<1>11. Dropping(J, D, P)
  <2>1. \A j \in Jobs : record'[j].state = "absent" <=> ~Found(j) \/ j \in J
    BY <1>1, <1>5, <1>8 DEF Found
  <2>2. \A o \in Objects : handles'[o] = {} => handles[o] = {} \/ o \in D
    BY <1>2, <1>3 DEF Destroyed
  <2>3. \A f \in Forwards : function'[f] = "none" <=> Released(P)[f] = "none"
    BY <1>6
  <2> QED
    BY <1>4, <1>5, <1>6, <2>1, <2>2, <2>3 DEF Dropping
<1>12. HeldOnce' /\ HolderExists' /\ Released(P) \in [Forwards -> Plugins \cup {"gone", "none"}]
       /\ held' \in [Places -> Forwards \cup {"nowhere"}]
  BY <1>7, <1>11, DropInvariant, Zenon
<1>13. \A x \in Places : held'[x] = "nowhere"
  <2>1. ASSUME NEW o \in Objects, NEW x \in RequestPlaces(o) PROVE held'[x] = "nowhere"
    BY <1>2, <1>5, <1>12, <2>1 DEF HolderExists
  <2>2. ASSUME NEW j \in Jobs, NEW x \in JobPlaces(j) PROVE held'[x] = "nowhere"
    BY <1>5, <1>8, <1>12, <2>2 DEF HolderExists, Found
  <2>3. ASSUME NEW j \in Jobs, NEW x \in CopyPlaces(j) PROVE held'[x] = "nowhere"
    <3>1. calling' # <<"copy", j, "completed">>
      BY <1>5 DEF Nothing
    <3> QED
      BY <1>12, <2>3, <3>1 DEF HolderExists
  <2> QED
    BY <2>1, <2>2, <2>3, PlaceIsOne
<1>14. \A f \in Forwards : function'[f] \in plugins' \cup {"gone", "none"}
  <2>1. ASSUME NEW f \in Forwards PROVE function'[f] = "none"
    <3>1. f # "nowhere"
      BY RequestHandlesAssumption
    <3> QED
      BY <1>12, <1>13, <3>1 DEF HeldOnce
  <2> QED
    BY <2>1
<1>15. TypeOK'
  BY <1>2, <1>5, <1>6, <1>8, <1>12 DEF HandlesInvariant, TypeOK
<1>16. CallingStays'
  BY <1>5, <1>8 DEF CallingStays, Nothing
<1>17. \A j \in Jobs : record'[j].state = "absent"
  BY <1>5, <1>8
<1> QED
  BY <1>5, <1>12, <1>14, <1>15, <1>16, <1>17 DEF HandlesInvariant, Found

LEMMA DispatchCompleteInvariant ==
  ASSUME HandlesInvariant, NEW j \in Jobs, DispatchComplete(j)
  PROVE  HandlesInvariant'
<1>1. PICK x0 : x0 = <<"copy", j, "completed">>
  OBVIOUS
<1>2. PICK y0 : y0 = <<"job", j, "completed">>
  OBVIOUS
<1>3. /\ calling = Nothing /\ Found(j) /\ Callable(y0)
      /\ record' = [record EXCEPT ![j] = NoRecord]
      /\ calling' = x0
      /\ UNCHANGED <<function, handles, request, nextJobId, clients, plugins, sent, orphans>>
  BY <1>1, <1>2 DEF DispatchComplete, Copied
<1>4. held' = [x \in Places |-> CASE x \in CopyPlaces(j) -> held[<<"job", j, x[3]>>]
                                 [] x \in JobPlaces(j)  -> "nowhere"
                                 [] OTHER               -> held[x]]
  BY DEF DispatchComplete, Copied
<1>5. PICK from : from = [x \in CopyPlaces(j) |-> <<"job", j, x[3]>>]
  OBVIOUS
<1>6. /\ x0 \in CopyPlaces(j) /\ y0 \in JobPlaces(j) /\ from[x0] = y0
      /\ CopyPlaces(j) \in SUBSET Places /\ JobPlaces(j) \in SUBSET Places
      /\ x0 \in CallPlaces /\ y0 \in CallPlaces
  BY <1>1, <1>2, <1>5, CopyPlace, JobPlace, PlacesContain DEF Slots, CallPlaces
<1>7. \A x \in CopyPlaces(j) : \E s \in Slots : x = <<"copy", j, s>> /\ from[x] = <<"job", j, s>>
  BY <1>5, CopyPlace
<1>8. from \in [CopyPlaces(j) -> JobPlaces(j)]
  BY <1>5, <1>7, JobPlace
<1>9. \A x, y \in CopyPlaces(j) : from[x] = from[y] => x = y
  BY <1>7
<1>10. ASSUME NEW y \in JobPlaces(j) PROVE \E x \in CopyPlaces(j) : from[x] = y
  <2>1. PICK s \in Slots : y = <<"job", j, s>>
    BY <1>10, JobPlace
  <2>2. <<"copy", j, s>> \in CopyPlaces(j)
    BY <2>1, CopyPlace
  <2> QED
    BY <1>5, <2>1, <2>2
<1>11. \A x \in CopyPlaces(j) : held[x] = "nowhere"
  <2>1. calling # <<"copy", j, "completed">>
    BY <1>3 DEF Nothing
  <2> QED
    BY <2>1 DEF HandlesInvariant, HolderExists
<1>12. \A x \in Places :
         held'[x] = IF x \in CopyPlaces(j) THEN held[from[x]]
                    ELSE IF x \in JobPlaces(j) THEN "nowhere" ELSE held[x]
  <2>1. \A x \in CopyPlaces(j) : x \notin JobPlaces(j) /\ held[<<"job", j, x[3]>>] = held[from[x]]
    BY <1>5, PlacesApart
  <2> QED
    BY <1>4, <2>1
<1>13. TypeOK /\ HeldOnce /\ function' = function
  BY <1>3 DEF HandlesInvariant
<1>14. HeldOnce'
  <2>1. CopyPlaces(j) \in SUBSET Places /\ JobPlaces(j) \in SUBSET Places
    BY <1>6
  <2>2. PICK From : From = JobPlaces(j)
    OBVIOUS
  <2>3. PICK To : To = CopyPlaces(j)
    OBVIOUS
  <2>4. From \in SUBSET Places /\ To \in SUBSET Places /\ from \in [To -> From]
    BY <1>8, <2>1, <2>2, <2>3
  <2>5. /\ \A x \in To : held[x] = "nowhere"
        /\ \A x, y \in To : from[x] = from[y] => x = y
        /\ \A y \in From : \E x \in To : from[x] = y
    BY <1>9, <1>10, <1>11, <2>2, <2>3
  <2>6. \A x \in Places :
          held'[x] = IF x \in To THEN held[from[x]]
                     ELSE IF x \in From THEN "nowhere" ELSE held[x]
    BY <1>12, <2>2, <2>3
  <2> QED
    BY <1>13, <2>4, <2>5, <2>6, MoveKeepsHeldOnce
<1>15. held \in [Places -> Forwards \cup {"nowhere"}] /\ record \in [Jobs -> Record]
  BY DEF HandlesInvariant, TypeOK
<1>16. held' \in [Places -> Forwards \cup {"nowhere"}]
  <2>1. \A x \in Places : held'[x] \in Forwards \cup {"nowhere"}
    BY <1>6, <1>8, <1>12, <1>15
  <2>2. held' = [x \in Places |-> held'[x]]
    BY <1>4
  <2> QED
    BY <2>1, <2>2
<1>17. NoRecord \in Record /\ NoRecord.state = "absent"
  BY DEF NoRecord, Record
<1>18. /\ record' \in [Jobs -> Record]
       /\ \A k \in Jobs : record'[k] = IF k = j THEN NoRecord ELSE record[k]
  BY <1>3, <1>15, <1>17
<1>19. TypeOK'
  BY <1>3, <1>6, <1>16, <1>18 DEF HandlesInvariant, TypeOK
<1>20. HolderExists'
  <2>1. ASSUME NEW r \in Objects, handles'[r] = {}, NEW x \in RequestPlaces(r)
        PROVE  held'[x] = "nowhere"
    <3>1. x \in Places /\ x \notin CopyPlaces(j) /\ held[x] = "nowhere"
      BY <1>3, <2>1, PlacesContain, PlacesApart DEF HandlesInvariant, HolderExists
    <3> QED
      BY <1>12, <3>1
  <2>2. ASSUME NEW k \in Jobs, record'[k].state = "absent", NEW x \in JobPlaces(k)
        PROVE  held'[x] = "nowhere"
    <3>1. x \in Places /\ x \notin CopyPlaces(j)
      BY PlacesContain, PlacesApart
    <3>2. CASE k = j
      BY <1>12, <3>1, <3>2
    <3>3. CASE k # j
      <4>1. held[x] = "nowhere"
        BY <1>18, <2>2, <3>3 DEF HandlesInvariant, HolderExists, Found
      <4> QED
        BY <1>12, <3>1, <4>1
    <3> QED
      BY <3>2, <3>3
  <2>3. ASSUME NEW k \in Jobs, calling' # <<"copy", k, "completed">>, NEW x \in CopyPlaces(k)
        PROVE  held'[x] = "nowhere"
    <3>1. k # j
      BY <1>1, <1>3, <2>3
    <3>2. x \in Places /\ x \notin CopyPlaces(j)
      BY <3>1, PlacesContain, PlacesApart
    <3>3. calling # <<"copy", k, "completed">>
      BY <1>3 DEF Nothing
    <3>4. held[x] = "nowhere"
      BY <3>3 DEF HandlesInvariant, HolderExists
    <3> QED
      BY <1>12, <3>2, <3>4
  <2> QED
    BY <2>1, <2>2, <2>3 DEF HolderExists, Found
<1>21. held'[x0] = held[y0]
  BY <1>6, <1>12
<1>22. held[y0] # "nowhere" /\ function[held[y0]] \in plugins
  <2>1. y0 \in Places
    BY <1>6
  <2>2. held[y0] \in Forwards /\ held[y0] # "nowhere" /\ function[held[y0]] # "gone"
    BY <1>3, <1>15, <2>1 DEF Callable
  <2>3. function[held[y0]] # "none"
    BY <2>1, <2>2 DEF HandlesInvariant, HeldOnce
  <2> QED
    BY <2>2, <2>3 DEF HandlesInvariant
<1>23. CallingStays'
  <2>1. calling[1] # "job" /\ calling'[1] # "job"
    BY <1>1, <1>3 DEF Nothing
  <2>2. \A k \in Jobs : record'[k].state \notin {"dispatching", "dropped"}
    BY <1>17, <1>18, <2>1 DEF HandlesInvariant, CallingStays
  <2> QED
    BY <1>3, <1>21, <1>22, <2>1, <2>2 DEF CallingStays
<1>24. \A k \in Jobs : nextJobId' <= k => record'[k].state = "absent"
  BY <1>3, <1>17, <1>18 DEF HandlesInvariant, Found
<1>25. \A f \in Forwards : function'[f] \in plugins' \cup {"gone", "none"}
  BY <1>3 DEF HandlesInvariant
<1> QED
  BY <1>3, <1>14, <1>19, <1>20, <1>23, <1>24, <1>25 DEF HandlesInvariant, Found

LEMMA ReturnFromCompleteInvariant ==
  ASSUME HandlesInvariant, ReturnFromComplete
  PROVE  HandlesInvariant'
<1>1. PICK P : P = CopyPlaces(calling[2])
  OBVIOUS
<1>2. /\ calling[1] = "copy" /\ calling' = Nothing
      /\ held' = Cleared(P) /\ function' = Released(P)
      /\ UNCHANGED <<handles, request, record, nextJobId, clients, plugins, sent, orphans>>
  BY <1>1 DEF ReturnFromComplete, ReleasePlaces
<1>3. PICK j \in Jobs : calling \in CopyPlaces(j)
  <2>1. calling \in CallPlaces
    <3>1. calling # Nothing
      BY <1>2 DEF Nothing
    <3> QED
      BY <3>1 DEF HandlesInvariant, TypeOK
  <2>2. PICK j \in Jobs : calling \in JobPlaces(j) \/ calling \in CopyPlaces(j)
    BY <2>1, CallPlaceIsOne
  <2> QED
    BY <1>2, <2>2, JobPlace
<1>4. calling[2] = j
  BY <1>3, CopyPlace
<1>5. P = CopyPlaces(j) /\ P \in SUBSET Places
  BY <1>1, <1>4, PlacesContain
<1>6. TypeOK /\ HeldOnce /\ \A f \in Forwards : function'[f] = "none" <=> Released(P)[f] = "none"
  BY <1>2 DEF HandlesInvariant
<1>7. /\ HeldOnce'
      /\ held' \in [Places -> Forwards \cup {"nowhere"}]
      /\ Released(P) \in [Forwards -> Plugins \cup {"gone", "none"}]
      /\ \A x \in Places : held'[x] = IF x \in P THEN "nowhere" ELSE held[x]
      /\ \A f \in Forwards : Released(P)[f] \in {"none", function[f]}
  BY <1>2, <1>5, <1>6, ReleaseKeepsHeldOnce
<1>8. TypeOK'
  BY <1>2, <1>7 DEF HandlesInvariant, TypeOK
<1>9. \A x \in Places : held[x] = "nowhere" \/ x \in P => held'[x] = "nowhere"
  BY <1>7
<1>10. ASSUME NEW k \in Jobs, NEW x \in CopyPlaces(k) PROVE held'[x] = "nowhere"
  <2>1. x \in Places
    BY PlacesContain
  <2>2. CASE k = j
    BY <1>5, <1>9, <2>1, <2>2
  <2>3. CASE k # j
    <3>1. calling # <<"copy", k, "completed">>
      BY <1>4, <2>3
    <3>2. held[x] = "nowhere"
      BY <3>1 DEF HandlesInvariant, HolderExists
    <3> QED
      BY <1>9, <2>1, <3>2
  <2> QED
    BY <2>2, <2>3
<1>11. HolderExists'
  <2>1. ASSUME NEW r \in Objects, handles'[r] = {}, NEW x \in RequestPlaces(r)
        PROVE  held'[x] = "nowhere"
    <3>1. x \in Places /\ held[x] = "nowhere"
      BY <1>2, <2>1, PlacesContain DEF HandlesInvariant, HolderExists
    <3> QED
      BY <1>9, <3>1
  <2>2. ASSUME NEW k \in Jobs, ~Found(k), NEW x \in JobPlaces(k) PROVE held'[x] = "nowhere"
    <3>1. x \in Places /\ held[x] = "nowhere"
      BY <2>2, PlacesContain DEF HandlesInvariant, HolderExists
    <3> QED
      BY <1>9, <3>1
  <2> QED
    BY <1>2, <1>10, <2>1, <2>2 DEF HolderExists, Found
<1>12. CallingStays'
  <2>1. Nothing[1] # "job"
    BY DEF Nothing
  <2>2. \A k \in Jobs : record[k].state \notin {"dispatching", "dropped"}
    BY <1>2 DEF HandlesInvariant, CallingStays
  <2> QED
    BY <1>2, <2>1, <2>2 DEF CallingStays
<1>13. \A f \in Forwards : function'[f] \in plugins' \cup {"gone", "none"}
  BY <1>2, <1>7 DEF HandlesInvariant
<1> QED
  BY <1>2, <1>7, <1>8, <1>11, <1>12, <1>13 DEF HandlesInvariant, Found

----------------------------------------------------------------------------
(* The theorems *)

LEMMA InitHandlesInvariant == Init => HandlesInvariant
<1> SUFFICES ASSUME Init PROVE HandlesInvariant
  OBVIOUS
<1>1. /\ held = [p \in Places |-> "nowhere"]
      /\ function = [f \in Forwards |-> "none"]
      /\ handles = [o \in Objects |-> {}]
      /\ request = [o \in Objects |-> NoRequest]
      /\ record = [j \in Jobs |-> NoRecord]
      /\ nextJobId = 1 /\ calling = Nothing
      /\ clients = Clients /\ plugins = Plugins
      /\ sent = [o \in Objects |-> 0]
      /\ orphans = {}
  BY DEF Init
<1>2. NoRecord \in Record /\ NoRecord.state = "absent"
  BY DEF NoRecord, Record
<1>3. NoRequest \in Request /\ NoRequest.url = FALSE
  BY DEF NoRequest, Request
<1>4. TypeOK
  BY <1>1, <1>2, <1>3, RequestHandlesAssumption DEF TypeOK
<1>5. HeldOnce
  BY <1>1 DEF HeldOnce
<1>6. HolderExists
  BY <1>1, PlacesContain DEF HolderExists
<1>7. CallingStays
  BY <1>1, <1>2 DEF CallingStays, Nothing
<1> QED
  BY <1>1, <1>2, <1>3, <1>4, <1>5, <1>6, <1>7 DEF HandlesInvariant, Found

LEMMA NextHandlesInvariant == HandlesInvariant /\ [Next]_vars => HandlesInvariant'
<1> SUFFICES ASSUME HandlesInvariant, [Next]_vars PROVE HandlesInvariant'
  OBVIOUS
<1>1. CASE UNCHANGED vars
  BY <1>1 DEF vars, HandlesInvariant, TypeOK, HeldOnce, HolderExists, CallingStays, Found
<1>2. CASE Next
  <2>1. ASSUME NEW p \in Plugins, NEW o \in Objects, NEW c \in Clients, Client_Request(p, c, o)
        PROVE  HandlesInvariant'
    BY <2>1, ClientRequestInvariant
  <2>2. ASSUME NEW p \in Plugins, NEW o \in Objects, CloneHandle(p, o)
        PROVE  HandlesInvariant'
    BY <2>2, CloneHandleInvariant
  <2>3. ASSUME NEW p \in Plugins, NEW o \in Objects, FreeRequest(p, o)
        PROVE  HandlesInvariant'
    BY <2>3, FreeRequestInvariant
  <2>4. ASSUME NEW p \in Plugins, NEW o \in Objects, NEW slot \in Slots, SetCallback(p, o, slot)
        PROVE  HandlesInvariant'
    BY <2>4, SetCallbackInvariant
  <2>5. ASSUME NEW p \in Plugins, NEW q \in Plugins, NEW o \in Objects, Send(p, q, o)
        PROVE  HandlesInvariant'
    BY <2>5, SendInvariant
  <2>6. ASSUME NEW p \in Plugins, NEW c \in Clients, DeleteClient(p, c)
        PROVE  HandlesInvariant'
    BY <2>6, DeleteClientInvariant
  <2>7. ASSUME NEW p \in Plugins, UnloadPlugin(p) PROVE HandlesInvariant'
    BY <2>7, UnloadPluginInvariant
  <2>8. ASSUME NEW j \in Jobs, NEW slot \in Slots, HandleIntermediate(j, slot)
        PROVE  HandlesInvariant'
    BY <2>8, HandleIntermediateInvariant
  <2>9. ASSUME NEW j \in Jobs, DispatchComplete(j) PROVE HandlesInvariant'
    BY <2>9, DispatchCompleteInvariant
  <2>10. ASSUME NEW j \in Jobs, CompleteUnheard(j) PROVE HandlesInvariant'
    BY <2>10, CompleteUnheardInvariant
  <2>11. CASE ReturnFromIntermediate
    BY <2>11, ReturnFromIntermediateInvariant
  <2>12. CASE ReturnFromComplete
    BY <2>12, ReturnFromCompleteInvariant
  <2>13. CASE SDK_OnUnload
    BY <2>13, SDK_OnUnloadInvariant
  <2> QED
    BY <1>2, <2>1, <2>2, <2>3, <2>4, <2>5, <2>6, <2>7, <2>8, <2>9, <2>10, <2>11, <2>12, <2>13
    DEF Next
<1> QED
  BY <1>1, <1>2

\* The inductive invariant holds for any number of plugins, clients, requests,
\* forwards and jobs (natives.cpp, extension.cpp: every change of a forward's owner).
THEOREM HandlesInvariantHolds == Spec => []HandlesInvariant
BY InitHandlesInvariant, NextHandlesInvariant, PTL DEF Spec

\* No forward is leaked, released twice or used after its release
\* (ReleaseForward, ReleaseRecord, Send, DropJob).
THEOREM AlwaysHeldOnce == Spec => []HeldOnce
<1>1. HandlesInvariant => HeldOnce
  BY DEF HandlesInvariant
<1> QED
  BY <1>1, HandlesInvariantHolds, PTL

\* What a running callback deletes or unloads leaves its forward and its record
\* where they are (HandleIntermediate's dispatching flag, HandleEvent's copy).
THEOREM CallingAlwaysStays == Spec => []CallingStays
<1>1. HandlesInvariant => CallingStays
  BY DEF HandlesInvariant
<1> QED
  BY <1>1, HandlesInvariantHolds, PTL

\* No RequestObject is sent twice, whoever has handles of it (Send).
THEOREM AlwaysSentOnce == Spec => []SentOnce
<1>1. HandlesInvariant => SentOnce
  BY DEF HandlesInvariant, SentOnce
<1> QED
  BY <1>1, HandlesInvariantHolds, PTL

----------------------------------------------------------------------------
(* No call after delete *)

\* A request that may still have callbacks has its client, or never had it.
ClientThere ==
  \A j \in Jobs : record[j].state \in {"idle", "dispatching"} =>
    record[j].client \in clients \/ j \in orphans

\* A record is left alone, goes, or is dropped.
LEMMA ClientStays ==
  ASSUME ClientThere, clients' = clients, orphans' = orphans,
         \A j \in Jobs : \/ record'[j] = record[j]
                        \/ record'[j].state \in {"absent", "dropped"}
                        \/ /\ record[j].state \in {"idle", "dispatching"}
                           /\ record'[j].client = record[j].client
  PROVE  ClientThere'
BY DEF ClientThere

LEMMA SendClientThere ==
  ASSUME HandlesInvariant, ClientThere, NEW p \in Plugins, NEW q \in Plugins,
         NEW o \in Objects, Send(p, q, o)
  PROVE  ClientThere'
<1>1. PICK j : j = nextJobId
  OBVIOUS
<1>2. PICK new : new = [state |-> "idle", client |-> request[o].client, owner |-> p]
  OBVIOUS
<1>3. /\ j <= MaxJobs
      /\ record' = [record EXCEPT ![j] = new]
      /\ orphans' = IF request[o].client \in clients THEN orphans ELSE orphans \cup {j}
      /\ clients' = clients
  BY <1>1, <1>2 DEF Send
<1>4. \A k \in Jobs : record'[k] = IF k = j THEN new ELSE record[k]
  BY <1>3 DEF HandlesInvariant, TypeOK
<1>5. new.client \in clients' \/ j \in orphans'
  BY <1>2, <1>3
<1>6. orphans \subseteq orphans'
  BY <1>3
<1> QED
  BY <1>3, <1>4, <1>5, <1>6 DEF ClientThere

LEMMA DropClientThere ==
  ASSUME HandlesInvariant, ClientThere, NEW S \in SUBSET Jobs, NEW gone,
         record' = RecordsDropped(S), clients' = clients \ gone, orphans' = orphans,
         \A j \in Jobs : Found(j) /\ record[j].client \in gone => j \in S
  PROVE  ClientThere'
<1>1. record \in [Jobs -> Record]
  BY DEF HandlesInvariant, TypeOK
<1>2. ASSUME NEW j \in Jobs
      PROVE  j \in S => record'[j].state \in {"absent", "dropped"}
  <2>1. CASE j \in Erased(S)
    BY <2>1 DEF RecordsDropped, NoRecord
  <2>2. CASE j \in S \ Erased(S)
    <3>1. record'[j] = [record[j] EXCEPT !.state = "dropped"]
      BY <2>2 DEF RecordsDropped
    <3> QED
      BY <1>1, <3>1 DEF Record
  <2> QED
    BY <2>1, <2>2
<1>3. ASSUME NEW j \in Jobs, j \notin S PROVE record'[j] = record[j]
  BY <1>3 DEF RecordsDropped, Erased
<1> QED
  BY <1>2, <1>3 DEF ClientThere, Found

LEMMA EventClientThere ==
  ASSUME HandlesInvariant, ClientThere,
         \/ \E j \in Jobs : \/ \E slot \in Slots : HandleIntermediate(j, slot)
                          \/ DispatchComplete(j) \/ CompleteUnheard(j)
         \/ ReturnFromIntermediate
  PROVE  ClientThere'
<1>1. record \in [Jobs -> Record]
  BY DEF HandlesInvariant, TypeOK
<1>2. NoRecord.state = "absent"
  BY DEF NoRecord
<1>3. ASSUME NEW j \in Jobs, NEW slot \in Slots, HandleIntermediate(j, slot)
      PROVE  ClientThere'
  <2>1. /\ calling = Nothing /\ Found(j) /\ clients' = clients /\ orphans' = orphans
        /\ record' = [record EXCEPT ![j].state = "dispatching"]
    BY <1>3 DEF HandleIntermediate
  <2>2. record[j].state = "idle"
    <3>1. Nothing[1] # "job"
      BY DEF Nothing
    <3>2. record[j].state \notin {"absent", "dispatching", "dropped"}
      BY <2>1, <3>1 DEF HandlesInvariant, CallingStays, Found
    <3> QED
      BY <1>1, <3>2 DEF Record
  <2>3. record'[j].client = record[j].client /\ \A k \in Jobs : k # j => record'[k] = record[k]
    BY <1>1, <2>1 DEF Record
  <2> QED
    BY <2>1, <2>2, <2>3, ClientStays
<1>4. ASSUME NEW j \in Jobs, DispatchComplete(j) \/ CompleteUnheard(j)
      PROVE  ClientThere'
  <2>1. /\ record' = [record EXCEPT ![j] = NoRecord] /\ clients' = clients
        /\ orphans' = orphans
    BY <1>4 DEF DispatchComplete, CompleteUnheard, Copied
  <2>2. \A k \in Jobs : record'[k] = record[k] \/ record'[k].state = "absent"
    BY <1>1, <1>2, <2>1
  <2> QED
    BY <2>1, <2>2, ClientStays
<1>5. CASE ReturnFromIntermediate
  <2>1. PICK j : j = calling[2]
    OBVIOUS
  <2>2. PICK new : new = IF j \in {k \in {j} : record[k].state = "dropped"} THEN NoRecord
                         ELSE [record[j] EXCEPT !.state = "idle"]
    OBVIOUS
  <2>3. /\ calling[1] = "job" /\ record' = [record EXCEPT ![j] = new]
        /\ clients' = clients /\ orphans' = orphans
    BY <1>5, <2>1, <2>2 DEF ReturnFromIntermediate
  <2>4. ASSUME NEW k \in Jobs
        PROVE  \/ record'[k] = record[k]
               \/ record'[k].state \in {"absent", "dropped"}
               \/ /\ record[k].state \in {"idle", "dispatching"}
                  /\ record'[k].client = record[k].client
    <3>1. CASE k # j
      BY <1>1, <2>3, <3>1
    <3>2. CASE k = j /\ record[j].state = "dropped"
      BY <1>1, <1>2, <2>2, <2>3, <3>2
    <3>3. CASE k = j /\ record[j].state # "dropped"
      <4>1. record[j].state = "dispatching"
        BY <2>1, <2>3, <3>3 DEF HandlesInvariant, CallingStays
      <4>2. new = [record[j] EXCEPT !.state = "idle"]
        BY <2>2, <3>3
      <4>3. new.client = record[j].client
        BY <1>1, <3>3, <4>2 DEF Record
      <4> QED
        BY <1>1, <2>3, <3>3, <4>1, <4>3
    <3> QED
      BY <3>1, <3>2, <3>3
  <2> QED
    BY <2>3, <2>4, ClientStays
<1> QED
  BY <1>3, <1>4, <1>5

LEMMA NextClientThere == HandlesInvariant /\ ClientThere /\ [Next]_vars => ClientThere'
<1> SUFFICES ASSUME HandlesInvariant, ClientThere, [Next]_vars PROVE ClientThere'
  OBVIOUS
<1>1. ASSUME UNCHANGED <<record, clients, orphans>> PROVE ClientThere'
  BY <1>1 DEF ClientThere
<1>2. CASE UNCHANGED vars
  BY <1>1, <1>2 DEF vars
<1>3. CASE Next
  <2>1. ASSUME NEW p \in Plugins, NEW o \in Objects,
               \/ \E c \in Clients : Client_Request(p, c, o)
               \/ CloneHandle(p, o) \/ FreeRequest(p, o)
               \/ \E slot \in Slots : SetCallback(p, o, slot)
        PROVE  ClientThere'
    BY <1>1, <2>1 DEF Client_Request, CloneHandle, FreeRequest, SetCallback
  <2>2. ASSUME NEW p \in Plugins, NEW q \in Plugins, NEW o \in Objects, Send(p, q, o)
        PROVE  ClientThere'
    BY <2>2, SendClientThere
  <2>3. ASSUME NEW p \in Plugins, NEW c \in Clients, DeleteClient(p, c)
        PROVE  ClientThere'
    <3>1. PICK S : S = FoundForClient(c)
      OBVIOUS
    <3>2. record' = RecordsDropped(S) /\ clients' = clients \ {c} /\ orphans' = orphans
      BY <2>3, <3>1 DEF DeleteClient
    <3>3. S \in SUBSET Jobs /\ \A j \in Jobs : Found(j) /\ record[j].client \in {c} => j \in S
      BY <3>1 DEF FoundForClient
    <3> QED
      BY <3>2, <3>3, DropClientThere
  <2>4. ASSUME NEW p \in Plugins, UnloadPlugin(p) PROVE ClientThere'
    <3>1. PICK own : own = {c \in clients : ClientOwner[c] = p}
      OBVIOUS
    <3>2. PICK S : S = {j \in Jobs : Found(j) /\ (record[j].owner = p \/ record[j].client \in own)}
      OBVIOUS
    <3>3. record' = RecordsDropped(S) /\ clients' = clients \ own /\ orphans' = orphans
      BY <2>4, <3>1, <3>2 DEF UnloadPlugin
    <3>4. S \in SUBSET Jobs /\ \A j \in Jobs : Found(j) /\ record[j].client \in own => j \in S
      BY <3>2
    <3> QED
      BY <3>3, <3>4, DropClientThere
  <2>5. CASE SDK_OnUnload
    BY <2>5 DEF SDK_OnUnload, ClientThere, NoRecord
  <2>6. CASE ReturnFromComplete
    BY <1>1, <2>6 DEF ReturnFromComplete
  <2>7. ASSUME \/ \E j \in Jobs : \/ \E slot \in Slots : HandleIntermediate(j, slot)
                                \/ DispatchComplete(j) \/ CompleteUnheard(j)
               \/ ReturnFromIntermediate
        PROVE  ClientThere'
    BY <2>7, EventClientThere
  <2> QED
    BY <1>3, <2>1, <2>2, <2>3, <2>4, <2>5, <2>6, <2>7 DEF Next
<1> QED
  BY <1>2, <1>3

\* Once a client is deleted no callback of its requests is called, if it was
\* there when they were sent (OnHandleDestroy, DropJobsForClient).
THEOREM NoCallAfterDeleteHolds == Spec => NoCallAfterDelete
<1>1. Init => ClientThere
  BY DEF Init, ClientThere, NoRecord
<1>2. Spec => []ClientThere
  BY <1>1, NextClientThere, HandlesInvariantHolds, PTL DEF Spec
<1>3. ASSUME HandlesInvariant, ClientThere, [Next]_vars
      PROVE  [\A j \in Jobs : calling = Nothing /\ calling' # Nothing /\ calling'[2] = j =>
                record[j].client \in clients \/ j \in orphans]_vars
  <2>1. CASE UNCHANGED vars
    BY <2>1
  <2>2. ASSUME NEW j \in Jobs, Next, calling = Nothing, calling' # Nothing, calling'[2] = j
        PROVE  record[j].client \in clients \/ j \in orphans
    <3>1. Found(j)
      <4>1. ASSUME NEW k \in Jobs, NEW slot \in Slots, HandleIntermediate(k, slot)
            PROVE  Found(j)
        BY <2>2, <4>1 DEF HandleIntermediate
      <4>2. ASSUME NEW k \in Jobs, DispatchComplete(k) PROVE Found(j)
        BY <2>2, <4>2 DEF DispatchComplete
      <4>3. ASSUME NEW k \in Jobs, CompleteUnheard(k) PROVE Found(j)
        BY <2>2, <4>3 DEF CompleteUnheard
      <4>4. ASSUME NEW p \in Plugins, NEW o \in Objects,
                   \/ \E c \in Clients : Client_Request(p, c, o)
                   \/ CloneHandle(p, o) \/ FreeRequest(p, o)
                   \/ \E slot \in Slots : SetCallback(p, o, slot)
                   \/ \E q \in Plugins : Send(p, q, o)
            PROVE  Found(j)
        BY <2>2, <4>4 DEF Client_Request, CloneHandle, FreeRequest, SetCallback, Send
      <4>5. ASSUME NEW p \in Plugins, \/ \E c \in Clients : DeleteClient(p, c)
                                      \/ UnloadPlugin(p)
            PROVE  Found(j)
        BY <2>2, <4>5 DEF DeleteClient, UnloadPlugin
      <4>6. CASE ReturnFromIntermediate \/ ReturnFromComplete \/ SDK_OnUnload
        BY <2>2, <4>6 DEF ReturnFromIntermediate, ReturnFromComplete, SDK_OnUnload
      <4> QED
        BY <2>2, <4>1, <4>2, <4>3, <4>4, <4>5, <4>6 DEF Next
    <3>2. Nothing[1] # "job"
      BY DEF Nothing
    <3>3. record[j].state \notin {"absent", "dispatching", "dropped"}
      BY <1>3, <2>2, <3>1, <3>2 DEF HandlesInvariant, CallingStays, Found
    <3>4. record[j].state = "idle"
      BY <1>3, <3>3 DEF HandlesInvariant, TypeOK, Record
    <3> QED
      BY <1>3, <3>4 DEF ClientThere
  <2> QED
    BY <1>3, <2>1, <2>2
<1> QED
  BY <1>2, <1>3, HandlesInvariantHolds, PTL DEF Spec, NoCallAfterDelete

=============================================================================
