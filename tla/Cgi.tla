--------------------------------- MODULE Cgi ---------------------------------
(***************************************************************************)
(* What the CGI adapter and a function of the format "cgi" make of a       *)
(* request and of the output of the program.  A path is the sequence of    *)
(* what is between its slashes, so it begins with "".  Output is a         *)
(* sequence of lines: a header, a "status" as it is usually written, with  *)
(* a blank after the colon, or a "bare-status" without, a line without a   *)
(* colon, or the empty one that ends the headers.  A body's length is      *)
(* counted in lines.                                                       *)
(***************************************************************************)
EXTENDS Integers, Sequences, SequencesExt

\* Nothing is stripped below zero.  The script's path gets a slash before each component,
\* the first, empty one too.
ScriptName(path, strip) ==
  IF strip < 0 THEN path
  ELSE <<"">> \o SubSeq(path, 1, IF strip + 1 < Len(path) THEN strip + 1 ELSE Len(path))
\* Mutant of PathInfo: one component is left out.
PathInfoShort(path, strip) ==
  IF strip >= 0 /\ Len(path) > strip + 1 THEN <<"">> \o SubSeq(path, strip + 3, Len(path)) ELSE <<>>
\* No path at all is "", which is one with nothing in it.
PathInfo(path, strip) ==
  IF strip >= 0 /\ Len(path) > strip + 1 THEN <<"">> \o SubSeq(path, strip + 2, Len(path)) ELSE <<>>
GetCGIVars(request, strip) ==
  [script |-> ScriptName(request.path, strip), info |-> PathInfo(request.path, strip),
   length |-> Len(request.body)]

Line(is, value) == [is |-> is, value |-> value]
Blank == Line("blank", 0)
NoNumber == -1

\* A status is taken over only if what stands between the colon and the first blank is no
\* number, and then as 0; after a blank that is nothing at all.  The first Content-Length
\* counts, and one that is no number is unknown.  The headers are a table, not a list.
ReadCGIResponse(output) ==
  LET blank == {i \in DOMAIN output : output[i].is = "blank"}
      end == Min(blank)
      of(is) == {i \in 1..(end - 1) : output[i].is = is}
  IN IF blank = {} THEN [ok |-> FALSE]
     ELSE [ok |-> TRUE,
           status |-> IF \/ of("status") # {}
                         \/ \E i \in of("bare-status") : output[i].value = NoNumber
                      THEN 0 ELSE 200,
           headers |-> {output[i] : i \in of("header") \union of("content-length")},
           length |-> IF of("content-length") = {} THEN -1
                      ELSE output[Min(of("content-length"))].value,
           body |-> SubSeq(output, end + 1, Len(output))]

\* What res.Write makes of a response to a request that is no HEAD: a Content-Length is
\* written by it, and bounds the body; 0 is unknown if there is a body.  A body of another
\* length is an error, when it has been written.
Written(response) ==
  LET size == Len(response.body)
      length == IF response.length = 0 /\ size > 0 THEN -1 ELSE response.length
  IN  [ok |-> length \in {-1, size}, status |-> response.status, length |-> length,
       headers |-> {l \in response.headers : l.is = "header"},
       body |-> IF length = -1 \/ length >= size THEN response.body
                ELSE SubSeq(response.body, 1, length)]

\* Reading the request takes the head of the body along into a buffer: the adapter goes
\* on with that buffer, a function's program is given the connection itself.
Stdin(kind, request) ==
  IF kind = "adapter" THEN request.body
  ELSE SubSeq(request.body, request.buffered + 1, Len(request.body))
=============================================================================
