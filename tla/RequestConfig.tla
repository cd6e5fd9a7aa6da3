---------------------------- MODULE RequestConfig ----------------------------
(***************************************************************************)
(* From the calls a plugin makes on a client and on a request of it to what *)
(* an attempt of the job tells libcurl: headers, authentication, method and *)
(* body (src/natives.cpp, src/text.cpp, BuildHeaders to ApplyBody in         *)
(* src/job.cpp).  Client_Request copies the client's ClientConfig, setters   *)
(* of the request change the copy, Send moves the specification to the job,  *)
(* and every attempt builds its options from it anew.                        *)
(***************************************************************************)
EXTENDS Integers, Sequences, FiniteSets

CONSTANTS
  Calls,       \* the calls that are made, as [op, arg, value] (bound)
  Methods,     \* the methods requests are made with (bound)
  Trimmed,     \* Trim, for each header name that is used
  Folded,      \* ToLower, for each header name that is used
  MaxCalls,    \* calls on the client and the request together (bound)
  MaxAttempts  \* attempts of the job (bound)

AuthOps == {"SetBasicAuth", "SetBearerToken"}
HeaderOps == {"SetHeader", "RemoveHeader"}
BodyOps == {"SetBody", "SetBodyFile"}
FormOps == {"AddFormField", "AddFormFile"}

ASSUME RequestConfigAssumption ==
  /\ \A c \in Calls :
       /\ c.op \in AuthOps \cup HeaderOps \cup BodyOps \cup FormOps
       /\ c.op \in HeaderOps => c.arg \in DOMAIN Trimmed
  /\ Methods \subseteq {"GET", "HEAD", "POST", "PUT", "PATCH", "DELETE", "OPTIONS"}
  /\ \A n \in DOMAIN Trimmed : Trimmed[n] # "" => Trimmed[n] \in DOMAIN Folded
  /\ DOMAIN Trimmed \subseteq DOMAIN Folded
  /\ {"Content-Type", "Range", "Expect"} \subseteq DOMAIN Folded
  /\ MaxCalls \in Nat /\ MaxAttempts \in Nat

VARIABLES
  config,     \* the client's ClientConfig
  request,    \* the RequestSpec of the request, if there is one
  job,        \* the RequestSpec of the job, once it is sent
  headerList, \* m_headerList of the job's last attempt
  told,       \* what that attempt told libcurl of method, body and authentication
  attempt,    \* m_attempt
  made,       \* history: how many calls were made
  calls,      \* history: the calls on the client
  asked       \* history: the calls the request, then the job, is made from

vars == <<config, request, job, headerList, told, attempt, made, calls, asked>>

None == [kind |-> "Nothing"]

NoConfig == [headers |-> <<>>, user |-> "", password |-> "", bearer |-> ""]

NewSpec(method) ==
  [kind |-> "None", method |-> method, config |-> config, body |-> "", contentType |-> "",
   file |-> "", fields |-> <<>>]

Init ==
  /\ config = NoConfig
  /\ request = None /\ job = None
  /\ headerList = <<>> /\ told = None /\ attempt = 0
  /\ made = 0 /\ calls = <<>> /\ asked = <<>>

\* The elements of s at the positions in I, in their order.
Kept(s, I) ==
  [n \in 1..Cardinality(I) |-> s[CHOOSE i \in I : Cardinality({k \in I : k <= i}) = n]]

----------------------------------------------------------------------------
(* Header lists *)

EqualsIgnoreCase(left, right) == Folded[left] = Folded[right]

\* Seeded fault: the names are compared as they are.
SetHeaderExactly(headers, name, value) ==
  IF \E i \in DOMAIN headers : headers[i].name = name
  THEN [i \in DOMAIN headers |-> IF headers[i].name = name
                                 THEN [headers[i] EXCEPT !.value = value] ELSE headers[i]]
  ELSE Append(headers, [name |-> name, value |-> value])

\* The first entry of that name gets the value; a new one goes to the end.
SetHeader(headers, name, value) ==
  LET at == {i \in DOMAIN headers : EqualsIgnoreCase(headers[i].name, name)}
  IN  IF at = {} THEN Append(headers, [name |-> name, value |-> value])
      ELSE [headers EXCEPT ![CHOOSE i \in at : \A k \in at : i <= k].value = value]

RemoveHeader(headers, name) ==
  Kept(headers, {i \in DOMAIN headers : ~EqualsIgnoreCase(headers[i].name, name)})

----------------------------------------------------------------------------
(* Calls on a client or a request *)

\* Seeded fault: the token stays.
WithBasicAuthKeeping(conf, c) == [conf EXCEPT !.user = c.arg, !.password = c.value]

WithBasicAuth(conf, c) == [conf EXCEPT !.user = c.arg, !.password = c.value, !.bearer = ""]

WithBearerToken(conf, c) == [conf EXCEPT !.bearer = c.arg, !.user = "", !.password = ""]

\* SetHeader trims the name, and throws if nothing is left; RemoveHeader does not.
Configured(conf, c) ==
  CASE c.op = "SetBasicAuth"   -> WithBasicAuth(conf, c)
    [] c.op = "SetBearerToken" -> WithBearerToken(conf, c)
    [] c.op = "RemoveHeader"   -> [conf EXCEPT !.headers = RemoveHeader(@, c.arg)]
    [] c.op = "SetHeader"      -> IF Trimmed[c.arg] = "" THEN conf
                                  ELSE [conf EXCEPT !.headers = SetHeader(@, Trimmed[c.arg], c.value)]

WithBody(spec, c) ==
  IF c.op = "SetBody"
  THEN [spec EXCEPT !.kind = "Memory", !.body = c.arg, !.contentType = c.value,
                    !.file = "", !.fields = <<>>]
  ELSE [spec EXCEPT !.kind = "File", !.file = c.arg, !.contentType = c.value,
                    !.body = "", !.fields = <<>>]

\* Seeded fault: the last field decides.
FormKindOfLast(spec, multipart) == IF multipart THEN "Multipart" ELSE "Form"

FormKind(spec, multipart) ==
  IF multipart \/ spec.kind = "Multipart" THEN "Multipart" ELSE "Form"

\* AddFormField and AddFormFile: the field, then SetFormKind.
WithField(spec, c) ==
  [spec EXCEPT !.fields = Append(@, c), !.kind = FormKind(spec, c.op = "AddFormFile"),
               !.body = "", !.file = ""]

Client_Call(c) ==
  /\ c.op \in AuthOps \cup HeaderOps
  /\ made < MaxCalls /\ made' = made + 1
  /\ config' = Configured(config, c)
  /\ calls' = Append(calls, c)
  /\ UNCHANGED <<request, job, headerList, told, attempt, asked>>

\* RESTClient.Request, while the plugin has no other request.
Client_Request(method) ==
  /\ request = None /\ job = None
  /\ request' = NewSpec(method)
  /\ asked' = calls
  /\ UNCHANGED <<config, job, headerList, told, attempt, made, calls>>

Request_Call(c) ==
  /\ request # None
  /\ made < MaxCalls /\ made' = made + 1
  /\ request' = CASE c.op \in BodyOps -> WithBody(request, c)
                  [] c.op \in FormOps -> WithField(request, c)
                  [] OTHER            -> [request EXCEPT !.config = Configured(@, c)]
  /\ asked' = Append(asked, c)
  /\ UNCHANGED <<config, job, headerList, told, attempt, calls>>

\* BuildFormBody, for a form that is not multipart; then the job has the
\* specification.
Request_Send ==
  /\ request # None
  /\ job' = IF request.kind = "Form"
            THEN [request EXCEPT !.contentType = "application/x-www-form-urlencoded"]
            ELSE request
  /\ request' = None
  /\ UNCHANGED <<config, headerList, told, attempt, made, calls, asked>>

----------------------------------------------------------------------------
(* Attempts *)

Line(n, v) == <<[name |-> n, value |-> v]>>

HasContentType ==
  job.kind \in {"Memory", "File", "Form"} /\ job.contentType # ""

\* Seeded fault: the list of the attempt before is not freed.
BuildHeadersOnTop(resuming) ==
  headerList \o job.config.headers
             \o (IF HasContentType THEN Line("Content-Type", job.contentType) ELSE <<>>)
             \o (IF resuming THEN Line("Range", "rest") ELSE <<>>)
             \o Line("Expect", "")

BuildHeaders(resuming) ==
  job.config.headers \o (IF HasContentType THEN Line("Content-Type", job.contentType) ELSE <<>>)
                     \o (IF resuming THEN Line("Range", "rest") ELSE <<>>)
                     \o Line("Expect", "")

NoAuth == [scheme |-> "none", name |-> "", secret |-> ""]

ApplyAuth(conf) ==
  CASE conf.bearer # "" -> [scheme |-> "bearer", name |-> "", secret |-> conf.bearer]
    [] conf.bearer = "" /\ conf.user # "" ->
         [scheme |-> "basic", name |-> conf.user, secret |-> conf.password]
    [] OTHER -> NoAuth

\* The methods that curl sends of itself for the body.
NativeMethod ==
  CASE job.kind = "None" -> job.method \in {"GET", "HEAD", "POST"}
    [] job.kind = "File" -> job.method = "PUT"
    [] OTHER             -> job.method = "POST"

\* CURLOPT_CUSTOMREQUEST, CURLOPT_NOBODY and what CURLOPT_POST, POSTFIELDS, UPLOAD
\* or MIMEPOST make of the request (ApplyMethod, ApplyBody, ApplyMultipart).
ApplyMethod ==
  [custom |-> IF NativeMethod THEN "" ELSE job.method,
   noBody |-> job.method = "HEAD",
   set    |-> CASE job.kind = "None"      -> IF job.method = "POST" THEN "post" ELSE "get"
                [] job.kind = "File"      -> "upload"
                [] job.kind = "Multipart" -> "mime"
                [] OTHER                  -> "post"]

ApplyBody(spec) ==
  CASE spec.kind = "None"   -> [kind |-> "None", data |-> <<>>]
    [] spec.kind = "Memory" -> [kind |-> "Memory", data |-> <<spec.body>>]
    [] spec.kind = "File"   -> [kind |-> "File", data |-> <<spec.file>>]
    [] OTHER                -> [kind |-> spec.kind, data |-> spec.fields]

Told(resuming) ==
  [kind |-> "Told", auth |-> ApplyAuth(job.config), method |-> ApplyMethod,
   body |-> ApplyBody(job), resuming |-> resuming]

\* BeginAttempt; the .part file decides if the attempt resumes.
BeginAttempt(resuming) ==
  /\ job # None
  /\ attempt < MaxAttempts
  /\ attempt' = attempt + 1
  /\ headerList' = BuildHeaders(resuming)
  /\ told' = Told(resuming)
  /\ UNCHANGED <<config, request, job, made, calls, asked>>

\* The plugin stops calling at some point.
Done == job # None /\ attempt = MaxAttempts /\ UNCHANGED vars

Next ==
  \/ \E c \in Calls : Client_Call(c) \/ Request_Call(c)
  \/ \E method \in Methods : Client_Request(method)
  \/ Request_Send
  \/ \E resuming \in BOOLEAN : BeginAttempt(resuming)
  \/ Done

Spec == Init /\ [][Next]_vars

----------------------------------------------------------------------------
(* What was asked for: a reading of the calls that knows no state *)

\* The last of the calls in C, if there is one.
LastOf(s, C) ==
  IF \E i \in DOMAIN s : s[i] \in C
  THEN <<s[CHOOSE i \in DOMAIN s : s[i] \in C /\ \A k \in (i + 1)..Len(s) : s[k] \notin C]>>
  ELSE <<>>

AuthAsked(s) ==
  LET last == LastOf(s, {c \in Calls : c.op \in AuthOps})
  IN  CASE last = <<>> \/ (last # <<>> /\ last[1].arg = "") -> NoAuth
        [] last # <<>> /\ last[1].arg # "" /\ last[1].op = "SetBasicAuth" ->
             [scheme |-> "basic", name |-> last[1].arg, secret |-> last[1].value]
        [] OTHER -> [scheme |-> "bearer", name |-> "", secret |-> last[1].arg]

AboutHeader(n) ==
  {c \in Calls : \/ c.op = "SetHeader" /\ Trimmed[c.arg] # "" /\ Folded[Trimmed[c.arg]] = n
                 \/ c.op = "RemoveHeader" /\ Folded[c.arg] = n}

\* The last call about the header n, if it is a SetHeader.
HeaderAsked(s, n) ==
  LET last == LastOf(s, AboutHeader(n))
  IN  IF last # <<>> /\ last[1].op = "SetHeader" THEN last ELSE <<>>

\* The fields added since the last call that starts a body from nothing.
FieldsAsked(s) ==
  Kept(s, {i \in DOMAIN s :
             s[i].op \in FormOps /\ \A k \in (i + 1)..Len(s) : s[k].op \notin BodyOps})

BodyAsked(s) ==
  LET fields == FieldsAsked(s)
      last == LastOf(s, {c \in Calls : c.op \in BodyOps})
  IN  IF fields # <<>>
      THEN [kind |-> IF \E i \in DOMAIN fields : fields[i].op = "AddFormFile"
                     THEN "Multipart" ELSE "Form",
            data |-> fields]
      ELSE IF last # <<>>
      THEN [kind |-> IF last[1].op = "SetBody" THEN "Memory" ELSE "File", data |-> <<last[1].arg>>]
      ELSE [kind |-> "None", data |-> <<>>]

----------------------------------------------------------------------------
(* Properties *)

\* Where a list has the header n.
LinesOf(list, n) == {i \in DOMAIN list : Folded[list[i].name] = n}

\* Of the calls for authentication on the client before the request was made and
\* on the request, the last decides, in every attempt: SetBasicAuth clears the
\* token, SetBearerToken the user (ApplyAuth looks at the token first).
AuthAsAsked == told # None => told.auth = AuthAsked(asked)

\* rest.inc on RESTClient: "Holds defaults copied into every request it creates".
\* Each header is sent once, with the value of the last call about it in any
\* spelling, or not at all if that was a RemoveHeader (SetHeader, RemoveHeader,
\* EqualsIgnoreCase, Trim, BuildHeaders); the Content-Type of a body comes on top.
HeadersAsAsked ==
  told # None =>
    \A n \in {Folded[m] : m \in DOMAIN Folded} \ {Folded["Range"], Folded["Expect"]} :
      LET own == HeaderAsked(asked, n)
          lines == LinesOf(headerList, n)
      IN  /\ Cardinality(lines) =
               Len(own) + IF n = Folded["Content-Type"] /\ HasContentType THEN 1 ELSE 0
          /\ own # <<>> => \E i \in lines : /\ headerList[i].value = own[1].value
                                           /\ \A k \in lines : i <= k

\* libcurl (external): the method that it sends.
MethodSent(m) ==
  CASE m.custom # ""                           -> m.custom
    [] m.custom = "" /\ m.noBody               -> "HEAD"
    [] m.custom = "" /\ ~m.noBody /\ m.set = "get"    -> "GET"
    [] m.custom = "" /\ ~m.noBody /\ m.set = "upload" -> "PUT"
    [] OTHER                                   -> "POST"

\* rest.inc: "Form fields are sent urlencoded, or as multipart/form-data once a
\* file is added." The body is that of the last call that set one, or all fields
\* added since, whatever was set before (SetBody, SetBodyFile, SetFormKind, Send),
\* and it goes out with the method of the request, which ApplyMethod leaves to
\* curl for some kinds of body.
SentAsAsked ==
  told # None => told.body = BodyAsked(asked) /\ MethodSent(told.method) = job.method

WithoutRange(list) == Kept(list, {i \in DOMAIN list : list[i].name # "Range"})

\* A retry sends what the first attempt sent: the same headers, but for Range
\* (BuildHeaders frees the list of the attempt before).
RetriesAlike ==
  [][told # None /\ told' # None =>
       /\ told'.auth = told.auth /\ told'.method = told.method /\ told'.body = told.body
       /\ WithoutRange(headerList') = WithoutRange(headerList)]_vars

----------------------------------------------------------------------------
(* The inductive invariant behind the properties *)

Texts == {"", "rest", "application/x-www-form-urlencoded"} \cup {c.value : c \in Calls}

Lines == [name : DOMAIN Folded, value : Texts]

\* The header n has one line in a list, with the value that was asked for, or none.
LineAsAsked(headers, n, own) ==
  IF own = <<>> THEN LinesOf(headers, n) = {}
  ELSE \E i \in DOMAIN headers : LinesOf(headers, n) = {i} /\ headers[i].value = own[1].value

\* A configuration is what the calls s have asked for.
ConfigAsAsked(conf, s) ==
  /\ {"user", "password", "bearer", "headers"} \subseteq DOMAIN conf
  /\ ApplyAuth(conf) = AuthAsked(s)
  /\ conf.headers \in Seq(Lines)
  /\ \A n \in {Folded[m] : m \in DOMAIN Folded} : LineAsAsked(conf.headers, n, HeaderAsked(s, n))

\* So is a specification; the fields are kept even while a body hides them.
SpecAsAsked(spec, s) ==
  /\ {"config", "kind", "method", "body", "contentType", "file", "fields"} \subseteq DOMAIN spec
  /\ ConfigAsAsked(spec.config, s)
  /\ spec.method \in Methods /\ spec.contentType \in Texts
  /\ spec.fields = FieldsAsked(s)
  /\ ApplyBody(spec) = BodyAsked(s)

\* The calls made so far are told apart by what they left of the configuration,
\* wherever that is now; nobody calls for a job, whose attempts tell libcurl all of it.
RequestInvariant ==
  /\ asked \in Seq(Calls) /\ calls \in Seq({c \in Calls : c.op \in AuthOps \cup HeaderOps})
  /\ ConfigAsAsked(config, calls)
  /\ \A spec \in {request, job} \ {None} : SpecAsAsked(spec, asked)
  /\ job # None => request = None
  /\ told # None =>
       /\ job # None
       /\ told = Told(told.resuming) /\ headerList = BuildHeaders(told.resuming)
=============================================================================
