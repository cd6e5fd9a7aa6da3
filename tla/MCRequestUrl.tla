---------------------------- MODULE MCRequestUrl ----------------------------
(* Short strings for model checking what becomes of a URL. *)
EXTENDS RequestUrl

\* "s://h", "s://h//" and no base URL.
Bases == {<<115, 58, 47, 47, 104>>, <<115, 58, 47, 47, 104, 47, 47>>, <<>>}

\* "", "a", "/a", "/a?", "/a?a=a" and "t://a/a".
PlainPaths ==
  {<<>>, <<97>>, <<47, 97>>, <<47, 97, 63>>, <<47, 97, 63, 97, 61, 97>>,
   <<116, 58, 47, 47, 97, 47, 97>>}

\* "/a?a=t://a", which has another URL as a parameter.
PathsWithUrl == {<<47, 97, 63, 97, 61, 116, 58, 47, 47, 97>>}

\* The separators, #, % and +, a letter, and a byte that is not ASCII.
Bytes == {35, 37, 38, 43, 61, 97, 233}

ShortNames == {<<>>} \cup {<<b>> : b \in {38, 61, 97, 233}}

\* None, one, or a percent sign and one more.
ShortValues == {<<>>} \cup {<<b>> : b \in Bytes} \cup {<<37, b>> : b \in {37, 43, 97}}
=============================================================================
