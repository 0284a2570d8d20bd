---------------------------- MODULE MCServiceLoad ----------------------------
(* A file that inherits from up to three others, one of them a level deeper,
   and two directories of services.                                        *)
EXTENDS ServiceSources

AllDirOf == ("own" :> "/own") @@ ("base" :> "/base") @@ ("deep" :> "/base/deep") @@ ("set" :> "/own")

File == [json |-> "valid", inherit |-> <<>>, disable |-> None, autoRestart |-> None, config |-> <<>>,
         conditions |-> None, template |-> None, parts |-> <<>>, hooks |-> <<>>]
Inherit(path, ignore, set) == [path |-> path, ignoreError |-> ignore, setConfig |-> set]
Part(kind, name) == [name |-> name, kind |-> kind, template |-> None, run |-> None, exclude |-> None,
                     default |-> None, proxies |-> None]
Pod == Part("pod", "web")
Fn == Part("function", "fn")
Proxy(name, route, upstreams) == [name |-> name, route |-> route, upstreams |-> upstreams]
Hook(id, text) == [id |-> id, exec |-> Rel(text)]
Host(h) == [hostname |-> h]

(* Inheritance: what each file says of the scalars, the hooks and the parts. *)
Inherits == {<<>>, <<Inherit("base", FALSE, FALSE), Inherit("set", TRUE, TRUE)>>,
             <<Inherit("set", TRUE, TRUE), Inherit("base", FALSE, TRUE)>>, <<Inherit("base", TRUE, FALSE)>>,
             <<Inherit("set", FALSE, FALSE)>>}
DeepInherits == {<<>>, <<Inherit("deep", TRUE, TRUE)>>, <<Inherit("own", FALSE, FALSE)>>}

Base == [File EXCEPT !.disable = TRUE, !.template = Rel("t"), !.config = ("x" :> "1") @@ ("y" :> "1"),
                     !.hooks = <<Hook("h1", "./a"), Hook("h2", "./b"), Hook("", "./c")>>,
                     !.conditions = <<Host("here"), Host("there")>>,
                     !.parts = <<[Fn EXCEPT !.run = Rel("f")], [Pod EXCEPT !.exclude = {"x"}, !.template = Rel("some")]>>]
Deep == [File EXCEPT !.disable = FALSE, !.config = "z" :> "1", !.hooks = <<Hook("h2", "./d")>>,
                     !.conditions = <<Host("there")>>, !.autoRestart = FALSE,
                     !.parts = <<[Fn EXCEPT !.run = Rel("g"), !.template = Rel("all")]>>]
Set == [File EXCEPT !.config = "y" :> "2", !.disable = FALSE]
Owns == {[File EXCEPT !.parts = <<[Pod EXCEPT !.run = Rel("p")]>>, !.hooks = <<Hook("h1", "./e")>>,
                      !.config = "x" :> "3"],
         [File EXCEPT !.disable = TRUE, !.conditions = <<Host(None)>>, !.autoRestart = TRUE,
                      !.parts = <<[Pod EXCEPT !.template = Rel("all")]>>]}

OneDir == <<[a |-> "own"]>>
Inherited ==
  {[dirs |-> OneDir,
    files |-> [own |-> [own EXCEPT !.inherit = i], base |-> [Base EXCEPT !.inherit = d],
               deep |-> deep, set |-> set]] :
   own \in Owns, i \in Inherits, d \in DeepInherits, deep \in {Deep, Missing}, set \in {Set, Missing, Broken}}

(* Names: entries of two directories, links and entries without a service. *)
Only(own) == [own |-> own, base |-> Base, deep |-> Missing, set |-> Missing]
Entries == [a : {"own", "base", None}, b : {"own", None}] \union [b : {"own", "base", None}] \union {<<>>}
Named2 == {[dirs |-> <<d, e>>, files |-> Only(File)] : d \in Entries, e \in Entries \ {<<>>}}

(* Ids and items: what one file says of its parts. *)
ProxyLists == {None, <<Proxy("", "object", "u")>>, <<Proxy("1", "object", "u"), Proxy(None, "object", "v")>>,
               <<Proxy("x", "object", None), Proxy("default", None, "u")>>, <<Proxy("y", "false", "u")>>}
Templates3 == {None, Rel("some"), Rel("all")}
Computing ==
  {[dirs |-> OneDir,
    files |-> Only([File EXCEPT !.config = ("x" :> "1") @@ ("y" :> "1"),
      !.parts = <<[Pod EXCEPT !.proxies = p, !.template = t, !.exclude = x],
                  [Fn EXCEPT !.run = Rel("f"), !.proxies = q, !.default = d, !.name = n]>>])] :
   p \in ProxyLists, q \in ProxyLists, t \in Templates3, x \in {None, {"x"}}, d \in {None, TRUE, FALSE},
   n \in {"fn", "web"}}

(* Names with dots: two pods whose names and proxies read alike when they are joined, a
   proxy that is named like the upstream of another.                               *)
NamesWithDots == ("web.a" :> <<"web", "a">>) @@ ("a.x" :> <<"a", "x">>) @@ ("default.upstream" :> <<"default", "upstream">>)
DottedNames ==
  {[dirs |-> OneDir, files |-> Only([File EXCEPT !.parts = parts])] :
   parts \in {<<[Pod EXCEPT !.proxies = <<Proxy("a.x", "object", "u")>>],
               [Pod EXCEPT !.name = "web.a", !.proxies = <<Proxy("x", "object", "u")>>]>>,
             <<[Fn EXCEPT !.run = Rel("f"), !.default = TRUE,
                          !.proxies = <<Proxy("default.upstream", None, "u")>>]>>}}

(* A function whose template is declared by another file than its program, or that has
   none.                                                                   *)
Inheriting(own, base) ==
  [dirs |-> OneDir,
   files |-> [own |-> [File EXCEPT !.inherit = <<Inherit("base", FALSE, FALSE)>>, !.parts = own],
              base |-> [File EXCEPT !.parts = base], deep |-> Missing, set |-> Missing]]
BareFunctions ==
  {Inheriting(own, <<[Fn EXCEPT !.template = Rel("all")]>>) :
   own \in {<<>>, <<[Fn EXCEPT !.run = Rel("f")]>>}}

AllLayouts == Inherited \union Named2 \union Computing \union DottedNames \union BareFunctions
Printed == ("some" :> {"x", "y"}) @@ ("all" :> {"y", "CONDUCTOR_SERVICE_ID"})
SomeEdits == [file : {"own"}, var : {"x", "y"}, value : {"1", "9"}]

ASSUME OwnVariables
=============================================================================
