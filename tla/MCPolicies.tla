----------------------------- MODULE MCPolicies -----------------------------
(* Directories of two policies: some still files, which are migrated while
   requests race, the others migrated, with many kinds of matchers.        *)
EXTENDS PolicyServer, TLC

ThreeNames == <<"a", "b", "c">>

WithTable(m, table) == [m EXCEPT !.authz = table]
Token(authz) == [token |-> "t1", jwt |-> None, authz |-> authz]
AnyOf(bearer) == [Blank EXCEPT !.bearer = <<bearer>>]
Always == [Blank EXCEPT !.always = TRUE]
Bearer == AnyOf(Token(None))
Reader == [AnyOf(Token(None)) EXCEPT !.defAuthz = ("read" :> TRUE) @@ ("" :> FALSE)]
Jwt == AnyOf([token |-> None, jwt |-> {"t2"}, authz |-> "write" :> TRUE])
Origin == [Blank EXCEPT !.origin = {"here"}]
Ref(n) == [Blank EXCEPT !.policy = [name |-> n, authz |-> ("write" :> "read")]]
Reset == [Blank EXCEPT !.policy = [name |-> "b", authz |-> None]]

Leaves == {Blank, Always, [Blank EXCEPT !.never = TRUE], Bearer, Reader, Jwt, Origin,
           AnyOf([Token(None) EXCEPT !.token = None])}
Refs == {Ref("b"), Ref("d"), Reset, WithTable(Ref("b"), "" :> "write")}

Trees ==
  UNION {{[Blank EXCEPT !.all = <<x, y>>], [Blank EXCEPT !.any = <<x, y>>],
          [Blank EXCEPT !.none = <<x, y>>]} : x \in Leaves, y \in {Always, Bearer, Origin, Ref("b")}}
  \union {[Origin EXCEPT !.always = f[1], !.never = f[2], !.skip = f[3]] : f \in BOOLEAN \X BOOLEAN \X BOOLEAN}
  \union {[x EXCEPT !.none = <<y>>] : x \in {Bearer, Origin}, y \in Leaves \union Refs}
  \union {WithTable(x, t) : x \in {Reader, Jwt, Ref("b")}, t \in {"read" :> "write", "write" :> "read", "" :> "read"}}
  \union Leaves \union Refs

Policy(name, default, match) == [name |-> name, default |-> default, match |-> match]

A(m) == Policy("a", "write", <<m>>)
B == Policy("b", "read", <<Blank, Reader>>)
\* Two policies that refer to each other.
Cycle == Policy("b", "", <<Ref("a")>>)

AndB == A([Origin EXCEPT !.any = <<Ref("b"), Bearer>>])
AllStored == {A(m) : m \in Trees} \union {A(Ref("b")), AndB, B, Cycle}

World(a, b, n) ==
  [requests |-> n,
   fs |-> [e \in Entries |-> CASE e = <<1, 0>> -> a [] e = <<2, 0>> -> b [] OTHER -> Absent]]
Static == {World(Dir(File(A(m))), Dir(File(B)), 1) : m \in Trees}
          \union {World(Dir(File(A(Ref("b")))), Dir(File(Cycle)), 1)}

Racing == {World(Dir(File(AndB)), File(B), 3), World(File(AndB), File(B), 2),
           World(File(AndB), Absent, 3)}
AllWorlds == Static \union Racing

Asks(policy, authorization, tokens, origin) ==
  [headers |-> <<[policy |-> policy, authorization |-> authorization]>>,
   request |-> [tokens |-> tokens, origin |-> origin]]
SomeQuestions ==
  {Asks("a", "", {"t1"}, "here"), Asks("a", "write", {"t2"}, "there"), Asks("a", "read", {}, "here"),
   [Asks("a", "", {"t1"}, "here") EXCEPT !.headers = @ \o <<[policy |-> "b", authorization |-> "read"]>>],
   Asks("a b", "", {"t1"}, "here")}
=============================================================================
