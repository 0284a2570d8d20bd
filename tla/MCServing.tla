------------------------------ MODULE MCServing ------------------------------
(* Three connections, to each of the servers.                              *)
EXTENDS Serving

AllKinds == {"api", "policy", "stdio", "adapter", "function"}
Paths == {<<"", "a">>, <<"", "a", "b", "c">>}
AllRequests == [path : Paths, body : {<<"x", "y">>}, buffered : 0..1]
               \union [path : {<<"", "">>}, body : {<<>>}, buffered : {0}]
Ends == {<<Blank>>, <<Blank, Line("body", 1)>>, <<Blank, Line("body", 1), Blank>>, <<>>}
Headers == {<<>>, <<Line("status", 404), Line("header", 2)>>, <<Line("bare-status", NoNumber), Line("noise", 0)>>,
            <<Line("content-length", 1), Line("bare-status", 404)>>, <<Line("content-length", 0)>>,
            <<Line("content-length", NoNumber), Line("header", 2)>>}
AllOutputs == {h \o e : h \in Headers, e \in Ends}
AllPreambles == {<<>>, <<Line("header", 3)>>, <<Line("header", 3), Blank>>}
=============================================================================
