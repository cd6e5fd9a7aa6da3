----------------------------- MODULE RequestUrl -----------------------------
(***************************************************************************)
(* The URL a request is sent to and the body of a form that is not         *)
(* multipart: SetBaseUrl, Request, SetQuery, AddFormField and Send          *)
(* (src/natives.cpp) with the functions of src/uri.cpp.  The question is    *)
(* what a server reads out of them again, so strings are sequences of       *)
(* bytes here.                                                             *)
(***************************************************************************)
EXTENDS Integers, Sequences, SequencesExt

CONSTANTS
  BaseUrls,  \* arguments of SetBaseUrl (bound)
  Paths,     \* paths requests are made with (bound)
  Names,     \* names of parameters and fields (bound)
  Values,    \* their values (bound)
  MaxCalls   \* calls of SetQuery and AddFormField for a request (bound)

Byte == 1..255

ASSUME RequestUrlAssumption ==
  /\ BaseUrls \cup Paths \cup Names \cup Values \subseteq Seq(Byte)
  /\ <<>> \in BaseUrls
  /\ MaxCalls \in Nat

\* Bytes of ASCII.
Space == 32
Hash == 35
Percent == 37
Ampersand == 38
Plus == 43
Slash == 47
Colon == 58
Equals == 61
QuestionMark == 63

VARIABLES
  baseUrl,  \* the client's config.baseUrl
  request,  \* the RequestSpec, and whether it was sent
  params,   \* history: what SetQuery was called with
  fields    \* history: what AddFormField was called with

vars == <<baseUrl, request, params, fields>>

NoRequest ==
  [state |-> "none", base |-> <<>>, path |-> <<>>, query |-> <<>>, formFields |-> <<>>,
   url |-> <<>>, body |-> <<>>]

Init ==
  /\ baseUrl \in BaseUrls
  /\ request = NoRequest
  /\ params = <<>> /\ fields = <<>>

----------------------------------------------------------------------------
(* src/uri.cpp *)

\* Seeded fault: a plus sign is left as it is.
IsUnreservedOrPlus(c) == c \in (65..90) \cup (97..122) \cup (48..57) \cup {43, 45, 46, 95, 126}

\* Letters, digits, and - . _ ~
IsUnreserved(c) == c \in (65..90) \cup (97..122) \cup (48..57) \cup {45, 46, 95, 126}

\* Digits from 0, letters from A.
HexDigit(n) == IF n < 10 THEN 48 + n ELSE 55 + n

Escaped(c) ==
  IF IsUnreserved(c) THEN <<c>> ELSE <<Percent, HexDigit(c \div 16), HexDigit(c % 16)>>

UriEncode(input) == FlattenSeq([i \in DOMAIN input |-> Escaped(input[i])])

IsSchemeEnd(s, i) == i + 2 <= Len(s) /\ s[i] = Colon /\ s[i + 1] = Slash /\ s[i + 2] = Slash

IsAbsoluteUrl(value) == \E i \in DOMAIN value : IsSchemeEnd(value, i)

\* The base up to its last byte that is not a slash.
WithoutSlashes(base) ==
  LET kept == CHOOSE n \in 0..Len(base) : /\ n > 0 => base[n] # Slash
                                          /\ \A k \in (n + 1)..Len(base) : base[k] = Slash
  IN  SubSeq(base, 1, kept)

\* Seeded fault: no slash is put between the two.
JoinUrlAsIs(base, path) ==
  IF IsAbsoluteUrl(path) \/ base = <<>> THEN path ELSE WithoutSlashes(base) \o path

JoinUrl(base, path) ==
  IF IsAbsoluteUrl(path) \/ base = <<>> THEN path
  ELSE WithoutSlashes(base) \o
         (IF path = <<>> \/ Head(path) = Slash THEN path ELSE <<Slash>> \o path)

AppendQuery(url, query) ==
  IF query = <<>> THEN url
  ELSE url \o <<IF Contains(url, QuestionMark) THEN Ampersand ELSE QuestionMark>> \o query

----------------------------------------------------------------------------
(* src/natives.cpp *)

SetBaseUrl(url) ==
  /\ baseUrl' = url
  /\ UNCHANGED <<request, params, fields>>

\* The request copies the client's configuration.
Client_Request(path) ==
  /\ request.state # "building"
  /\ request' = [NoRequest EXCEPT !.state = "building", !.base = baseUrl, !.path = path]
  /\ params' = <<>> /\ fields' = <<>>
  /\ UNCHANGED baseUrl

CanCall == request.state = "building" /\ Len(params) + Len(fields) < MaxCalls

Pair(name, value) == UriEncode(name) \o <<Equals>> \o UriEncode(value)

WithPair(text, name, value) ==
  (IF text = <<>> THEN text ELSE text \o <<Ampersand>>) \o Pair(name, value)

SetQuery(name, value) ==
  /\ CanCall
  /\ request' = [request EXCEPT !.query = WithPair(@, name, value)]
  /\ params' = Append(params, <<name, value>>)
  /\ UNCHANGED <<baseUrl, fields>>

AddFormField(name, value) ==
  /\ CanCall
  /\ request' = [request EXCEPT !.formFields = Append(@, <<name, value>>)]
  /\ fields' = Append(fields, <<name, value>>)
  /\ UNCHANGED <<baseUrl, params>>

BuildFormBody(formFields) ==
  LET body[i \in 0..Len(formFields)] ==
        IF i = 0 THEN <<>> ELSE WithPair(body[i - 1], formFields[i][1], formFields[i][2])
  IN  body[Len(formFields)]

\* Send throws, and the request stays as it is, if the URL is not absolute.
Send ==
  LET url == JoinUrl(request.base, request.path)
  IN  /\ request.state = "building"
      /\ IsAbsoluteUrl(url)
      /\ request' = [request EXCEPT !.state = "sent", !.url = AppendQuery(url, request.query),
                                    !.body = BuildFormBody(request.formFields)]
      /\ UNCHANGED <<baseUrl, params, fields>>

\* delete request
FreeRequest ==
  /\ request.state = "building"
  /\ request' = NoRequest
  /\ params' = <<>> /\ fields' = <<>>
  /\ UNCHANGED baseUrl

Next ==
  \/ \E url \in BaseUrls : SetBaseUrl(url)
  \/ \E path \in Paths : Client_Request(path)
  \/ \E name \in Names, value \in Values : SetQuery(name, value) \/ AddFormField(name, value)
  \/ Send \/ FreeRequest

Spec == Init /\ [][Next]_vars

----------------------------------------------------------------------------
(* How a server reads a URL and a form: WHATWG URL, which the code does not use *)

\* The first place of s with a byte of C, or the one after its end.
FirstOf(s, C) ==
  CHOOSE i \in 1..(Len(s) + 1) : /\ i <= Len(s) => s[i] \in C
                                 /\ \A k \in 1..(i - 1) : s[k] \notin C

Before(s, C) == SubSeq(s, 1, FirstOf(s, C) - 1)

After(s, C) == SubSeq(s, FirstOf(s, C) + 1, Len(s))

IsHexDigit(c) == c \in (48..57) \cup (65..70) \cup (97..102)

DigitValue(c) == IF c < 58 THEN c - 48 ELSE IF c < 71 THEN c - 55 ELSE c - 87

IsEscape(s, i) ==
  i \in 1..(Len(s) - 2) /\ s[i] = Percent /\ IsHexDigit(s[i + 1]) /\ IsHexDigit(s[i + 2])

\* What the byte at i stands for: a plus sign is a space, and the digits of an
\* escape are read with its percent sign.
Decoded(s, i) ==
  IF IsEscape(s, i - 1) \/ IsEscape(s, i - 2) THEN <<>>
  ELSE IF IsEscape(s, i) THEN <<16 * DigitValue(s[i + 1]) + DigitValue(s[i + 2])>>
  ELSE <<IF s[i] = Plus THEN Space ELSE s[i]>>

Decode(s) == FlattenSeq([i \in DOMAIN s |-> Decoded(s, i)])

PairOf(piece) == <<Decode(Before(piece, {Equals})), Decode(After(piece, {Equals}))>>

\* A piece that is empty is skipped.
Taken(reader) ==
  IF reader.piece = <<>> THEN reader.pairs ELSE Append(reader.pairs, PairOf(reader.piece))

\* The pairs of the pieces that have ended, and the piece that has not.
Reader(s) ==
  LET reader[i \in 0..Len(s)] ==
        IF i = 0 THEN [pairs |-> <<>>, piece |-> <<>>]
        ELSE IF s[i] = Ampersand THEN [pairs |-> Taken(reader[i - 1]), piece |-> <<>>]
        ELSE [reader[i - 1] EXCEPT !.piece = Append(@, s[i])]
  IN  reader[Len(s)]

ReadPairs(s) == Taken(Reader(s))

ReadQuery(url) == ReadPairs(Before(After(url, {QuestionMark}), {Hash}))

\* The path of a URL, its query and its fragment begin with these.
Ends == {Slash, QuestionMark, Hash}

\* A scheme comes before any of them.
HasScheme(url) ==
  \E i \in DOMAIN url : IsSchemeEnd(url, i) /\ \A k \in 1..(i - 1) : url[k] \notin Ends

\* The scheme and the host.
Server(url) ==
  LET i == CHOOSE k \in DOMAIN url : IsSchemeEnd(url, k) /\ \A l \in 1..(k - 1) : ~IsSchemeEnd(url, l)
  IN  <<SubSeq(url, 1, i - 1), Before(SubSeq(url, i + 3, Len(url)), Ends)>>

----------------------------------------------------------------------------
(* Properties *)

Sent == request.state = "sent"

HasNone(s, C) == \A i \in DOMAIN s : s[i] \notin C

\* The fields of a form are what a server reads out of the body, and the parameters
\* of the path, then those of SetQuery in the order of the calls, what it reads out
\* of the URL: no byte of a name or a value is taken for a separator, an escape, a
\* space or a fragment (UriEncode, AppendQuery, SetQuery, BuildFormBody).  The base
\* URL has no query of its own, and neither it nor the path has a fragment, which
\* would hold what AppendQuery appends.
ReadBack ==
  Sent =>
    /\ ReadPairs(request.body) = fields
    /\ HasNone(request.base, {QuestionMark, Hash}) /\ HasNone(request.path, {Hash}) =>
         ReadQuery(request.url) = ReadQuery(request.path) \o params

\* A request whose path has a scheme goes to the server named there; one whose path
\* has no "://" goes to the server of the base URL its client had when the request
\* was made (JoinUrl, AppendQuery: nothing of a path or query gets into the host).
\* That base URL has a host: after "s://" the path "//h" would name one.
ServerKept ==
  Sent =>
    /\ HasScheme(request.path) => Server(request.url) = Server(request.path)
    /\ ~IsAbsoluteUrl(request.path) /\ HasScheme(request.base) /\ Server(request.base)[2] # <<>> =>
         Server(request.url) = Server(request.base)

\* rest.inc on RESTClient.Request: "Path is resolved against the base URL unless
\* it is an absolute URL."
PathResolved ==
  Sent /\ request.base # <<>> /\ ~HasScheme(request.path) =>
    IsPrefix(WithoutSlashes(request.base), request.url)
=============================================================================
