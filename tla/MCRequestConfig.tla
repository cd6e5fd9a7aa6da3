--------------------------- MODULE MCRequestConfig ---------------------------
(* Calls for model checking how a request is put together. *)
EXTENDS RequestConfig

\* A header name in two spellings, one of them also padded, and Content-Type.
Names == {"X-Id", "x-id", " X-Id", "content-type", " "}

TrimmedNames ==
  [n \in Names |-> CASE n = " X-Id" -> "X-Id" [] n = " " -> "" [] OTHER -> n]

FoldedNames ==
  [n \in Names \cup {"Content-Type", "Range", "Expect"} |->
     CASE n \in {"X-Id", "x-id"} -> "x-id"
       [] n \in {"Content-Type", "content-type"} -> "content-type"
       [] OTHER -> n]

Call(op, args, values) == [op : {op}, arg : args, value : values]

\* Two values of each header, users and tokens that may be empty, one body.
HeaderCalls ==
  Call("SetHeader", Names, {"1", "2"}) \cup Call("RemoveHeader", Names, {""})
    \cup Call("SetBody", {"b"}, {"json"})

AuthCalls ==
  Call("SetBasicAuth", {"", "u"}, {"s"}) \cup Call("SetBearerToken", {"", "t"}, {""})

\* Bodies with a content type or without, two fields and two files.
BodyCalls ==
  Call("SetBody", {"", "b"}, {"", "json"}) \cup Call("SetBodyFile", {"p"}, {"", "bin"})
    \cup Call("AddFormField", {"a", "b"}, {"1"}) \cup Call("AddFormFile", {"a", "b"}, {"p"})

AllCalls == HeaderCalls \cup AuthCalls \cup BodyCalls

\* GET, HEAD and POST are special to libcurl, PUT goes with uploads, and the
\* others are sent alike.
MethodKinds == {"GET", "HEAD", "POST", "PUT", "DELETE"}
=============================================================================
