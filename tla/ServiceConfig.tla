---------------------------- MODULE ServiceConfig ----------------------------
(***************************************************************************)
(* How the configuration of a service comes out of its file and the files  *)
(* it inherits from, and what is computed from it: its name, the ids of    *)
(* its parts, its items for Caddy, whether it should run.                  *)
(*                                                                         *)
(* A file is a record of the fields it has.  Pods and functions are parts  *)
(* of a kind; "run" is the template of a pod, the program of a function.   *)
(* A path is its text and the directory it has been joined to.             *)
(***************************************************************************)
EXTENDS Integers, Sequences, SequencesExt

CONSTANTS
  None,
  DirOf,        \* file -> its directory
  Prints,       \* template of a part id -> the variables in its output
  Hostname,
  Dotted,       \* name with dots in it -> what the dots separate
  Templates,    \* the directories with a proxy-config.template
  FuelOfLoad    \* bound on the depth of inheritance; what goes deeper has a cycle

ASSUME FuelAssumption == FuelOfLoad \in Nat
ASSUME FilesAssumption == None \notin DOMAIN DirOf

\* What a file may not be: read, or decoded.
Missing == [json |-> "missing"]
Broken == [json |-> "broken"]
Exists(c) == c.json # "missing"

\* Mutant of fix_path: each file joins the path again.
fix_path_again(dir, path) == IF path # None THEN [path EXCEPT !.at = dir] ELSE path

\* A file that says nothing, and so has all the fields that a valid one has.
NoContent == [json |-> "valid", inherit |-> <<>>, disable |-> None, autoRestart |-> None,
              config |-> <<>>, conditions |-> None, template |-> None, parts |-> <<>>, hooks |-> <<>>]

\* A path as it is written in a file.  fix_path joins it once; an executable
\* without "/" is looked up in PATH.
Rel(text) == [at |-> None, text |-> text]
fix_path(dir, path) ==
  IF path # None /\ path.at = None THEN [path EXCEPT !.at = dir] ELSE path

Given(new, old) == IF new = None THEN old ELSE new

(***************************************************************************)
(* Merging what a file says over what is there                             *)
(***************************************************************************)
\* encoding/json fills the elements a slice already has, and those its array still
\* holds beyond its length: "kept" is the array, "len" the length.
Slice(s) == [kept |-> s, len |-> Len(s)]
Elements(slice) == SubSeq(slice.kept, 1, slice.len)
OverlayFields(old, new) == [f \in DOMAIN new |-> Given(new[f], old[f])]
OverlaySlice(old, new) ==
  IF new = None THEN old
  ELSE IF new = <<>> THEN Slice(<<>>)
  ELSE [kept |-> [i \in 1..(IF Len(new) > Len(old.kept) THEN Len(new) ELSE Len(old.kept)) |->
                    IF i > Len(new) THEN old.kept[i]
                    ELSE IF i > Len(old.kept) THEN new[i]
                    ELSE OverlayFields(old.kept[i], new[i])],
        len |-> Len(new)]

\* A variable keeps its value where the file says nothing of it.
MergeConfig(new, old) ==
  [v \in DOMAIN new \union DOMAIN old |-> IF v \in DOMAIN new THEN new[v] ELSE old[v]]

\* What a configuration says of a variable: its value, or nothing.
ValueIn(config, v) == IF v \in DOMAIN config THEN <<config[v]>> ELSE <<>>

NoPart == [name |-> "", kind |-> None, template |-> None, run |-> None, exclude |-> None,
           default |-> None, proxies |-> Slice(<<>>)]

\* Parts are found by name and kind, and filled in place.
OverlayPart(old, new) ==
  [f \in DOMAIN old |-> IF f = "proxies" THEN OverlaySlice(old.proxies, new.proxies)
                        ELSE Given(new[f], old[f])]
OverlayParts(old, new) ==
  LET at(parts, p) == SelectInSeq(parts, LAMBDA q : q.name = p.name /\ q.kind = p.kind)
      put(parts, p) ==
        IF at(parts, p) = 0 THEN Append(parts, OverlayPart(NoPart, p))
        ELSE [parts EXCEPT ![at(parts, p)] = OverlayPart(@, p)]
  IN  FoldLeft(put, old, new)

\* A hook replaces the one that has its id, in its place.
merge_hooks(layer1, layer2) ==
  LET at(hooks, h) == IF h.id = "" THEN 0 ELSE SelectInSeq(hooks, LAMBDA g : g.id = h.id)
      put(hooks, h) == IF at(hooks, h) = 0 THEN Append(hooks, h)
                       ELSE [hooks EXCEPT ![at(hooks, h)] = h]
  IN  FoldLeft(put, layer1, layer2)

\* A function's template is left as it is until the function has a program.
FixPart(part, dir) ==
  IF part.kind = "pod" \/ part.run # None
  THEN [part EXCEPT !.template = fix_path(dir, @), !.run = fix_path(dir, @)]
  ELSE part

\* The pods come before the functions.
FixParts(parts, dir) ==
  LET of(kind) == SelectSeq(parts, LAMBDA p : p.kind = kind)
      ordered == of("pod") \o of("function")
  IN  [i \in DOMAIN ordered |-> FixPart(ordered[i], dir)]

Overlay(s, path, c) ==
  LET dir == DirOf[path]
      hooks == merge_hooks(s.hooks, c.hooks)
  IN [s EXCEPT
        !.disable = Given(c.disable, @),
        !.autoRestart = Given(c.autoRestart, @),
        !.config = MergeConfig(c.config, @),
        !.conditions = OverlaySlice(@, c.conditions),
        !.template = fix_path(dir, Given(c.template, @)),
        !.parts = FixParts(OverlayParts(@, c.parts), dir),
        !.hooks = [i \in DOMAIN hooks |-> [hooks[i] EXCEPT !.exec = fix_path(dir, @)]],
        !.basePath = dir, !.fileName = path]

(***************************************************************************)
(* Loading                                                                 *)
(***************************************************************************)
\* The files there may be: what a file inherits from is one of them.
InheritFile(files) == [path : DOMAIN files, ignoreError : BOOLEAN, setConfig : BOOLEAN]
WellFormed(files) ==
  \A f \in DOMAIN files :
    /\ files[f].json \in {"missing", "broken", "valid"}
    /\ files[f].json = "valid" => /\ DOMAIN files[f] = DOMAIN NoContent
                                 /\ files[f].inherit \in Seq(InheritFile(files))

\* A set of files with all that they inherit from, and the least one that has a file.
Closed(files, S) ==
  /\ S \subseteq DOMAIN files
  /\ \A f \in S : files[f].json = "valid" =>
       \A i \in DOMAIN files[f].inherit : files[f].inherit[i].path \in S
FilesOf(files, path) ==
  {f \in DOMAIN files : \A S \in SUBSET DOMAIN files : path \in S /\ Closed(files, S) => f \in S}

Error == [ok |-> FALSE]
NewService ==
  [ok |-> TRUE, disable |-> None, autoRestart |-> None, config |-> <<>>,
   conditions |-> Slice(<<>>), template |-> None, parts |-> <<>>, hooks |-> <<>>,
   basePath |-> None, fileName |-> None, configSetFile |-> None, name |-> ""]

\* A path that ends in "/" means the configuration file in that directory: the file
\* the entry stands for here.
MayBeMissing(files, e) == e.ignoreError /\ ~Exists(files[e.path])

\* The files that are laid over each other, in order: those a file inherits from, each
\* after its own, then the file.  None is one that cannot be loaded; "lower" is the same
\* for the files inherited from.
VisitedFrom(files, path, lower) ==
  LET inherit == files[path].inherit
      below(e) == IF MayBeMissing(files, e) THEN <<e.path>> ELSE lower[e.path]
  IN  IF files[path].json # "valid" THEN <<None>>
      ELSE Append(FlattenSeq([i \in DOMAIN inherit |-> below(inherit[i])]), path)
Visited(files) ==
  LET visited[depth \in 0..FuelOfLoad] ==
        IF depth = 0
        THEN [path \in DOMAIN files |->
                IF files[path].json = "valid" /\ files[path].inherit = <<>> THEN <<path>> ELSE <<None>>]
        ELSE [path \in DOMAIN files |-> VisitedFrom(files, path, visited[depth - 1])]
  IN  visited

\* Where changes are written to: a place handed from file to file as loading enters them.
\* A file that finds no place lets each of its entries with set_config set it, before the
\* file of that entry is entered and even if that one is missing.
Places(files) == DOMAIN files \union {None}
Keep(files) == [set \in Places(files) |-> set]
\* Mutant of SetByEntries: a file does not ask whether a place has been set before it.
SetByEachEntry(inherit, below, set) ==
  LET at[i \in 0..Len(inherit)] ==
        IF i = 0 THEN set
        ELSE below[i][IF inherit[i].setConfig THEN inherit[i].path ELSE at[i - 1]]
  IN  at[Len(inherit)]
SetByEntries(inherit, below, set) ==
  LET at[i \in 0..Len(inherit)] ==
        IF i = 0 THEN set
        ELSE below[i][IF set = None /\ inherit[i].setConfig THEN inherit[i].path ELSE at[i - 1]]
  IN  at[Len(inherit)]
SetFileFrom(files, path, lower) ==
  LET inherit == files[path].inherit
      below(e) == IF MayBeMissing(files, e) THEN Keep(files) ELSE lower[e.path]
  IN  IF files[path].json # "valid" THEN Keep(files)
      ELSE [set \in Places(files) |->
              SetByEntries(inherit, [i \in DOMAIN inherit |-> below(inherit[i])], set)]
SetFile(files) ==
  LET setFile[depth \in 0..FuelOfLoad] ==
        IF depth = 0 THEN [path \in DOMAIN files |-> Keep(files)]
        ELSE [path \in DOMAIN files |-> SetFileFrom(files, path, setFile[depth - 1])]
  IN  setFile

\* A file that may be missing and is says nothing.
Overlaid(files, paths) ==
  LET upTo[i \in 0..Len(paths)] ==
        IF i = 0 THEN NewService
        ELSE IF Exists(files[paths[i]]) THEN Overlay(upTo[i - 1], paths[i], files[paths[i]])
        ELSE upTo[i - 1]
  IN  upTo

loadService(files, path) ==
  LET visited == Visited(files)[FuelOfLoad][path]
  IN  IF None \in Range(visited) THEN Error
      ELSE [Overlaid(files, visited)[Len(visited)] EXCEPT
              !.configSetFile = SetFile(files)[FuelOfLoad][path][None]]

In(dir, text) == [at |-> dir, text |-> text]
\* Mutant of FillDefaults: auto_restart is left open.
FillSomeDefaults(s) ==
  [s EXCEPT !.configSetFile = Given(@, s.fileName),
            !.parts = [i \in DOMAIN s.parts |->
              [s.parts[i] EXCEPT !.run = Given(@, In(s.basePath, "pod.template"))]]]
FillDefaults(s) ==
  [s EXCEPT !.autoRestart = Given(@, TRUE),
            !.configSetFile = Given(@, s.fileName),
            !.template = IF @ = None /\ s.basePath \in Templates
                         THEN In(s.basePath, "proxy-config.template") ELSE @,
            !.parts = [i \in DOMAIN s.parts |->
              IF s.parts[i].kind = "pod"
              THEN [s.parts[i] EXCEPT !.run = Given(@, In(s.basePath, "pod.template"))]
              ELSE s.parts[i]]]

First(S) == CHOOSE i \in S : \A j \in S : i <= j

\* Directories of services in order, entry -> the file behind it or None.  The first
\* one that has the configuration file counts.
ServiceFileByName(dirs, name) ==
  LET has == {i \in DOMAIN dirs : name \in DOMAIN dirs[i] /\ dirs[i][name] # None}
  IN  IF has = {} THEN None ELSE dirs[First(has)][name]

\* Mutant of ServiceNameFromFile: entries of earlier directories hide none.
ServiceNameUnhidden(dirs, path) ==
  LET names == {n \in UNION {DOMAIN dirs[i] : i \in DOMAIN dirs} :
                 \E i \in DOMAIN dirs : n \in DOMAIN dirs[i] /\ dirs[i][n] = path}
  IN  IF names = {} THEN "" ELSE CHOOSE n \in names : TRUE

\* The first entry that is the file; an entry of an earlier directory hides later ones
\* even if it is no service.  Entries are in the order of their names.
ServiceNameFromFile(dirs, path) ==
  LET shown(i) == {n \in DOMAIN dirs[i] :
                     dirs[i][n] = path /\ \A j \in 1..(i - 1) : n \notin DOMAIN dirs[j]}
      at == {i \in DOMAIN dirs : shown(i) # {}}
  IN  IF at = {} THEN "" ELSE CHOOSE n \in shown(First(at)) : TRUE

LoadServiceFile(files, dirs, path) ==
  LET s == loadService(files, path)
  IN  IF s.ok THEN [FillDefaults(s) EXCEPT !.name = ServiceNameFromFile(dirs, path)]
      ELSE Error

LoadServiceByName(files, dirs, name) ==
  LET path == ServiceFileByName(dirs, name)
  IN  IF path = None THEN Error ELSE LoadServiceFile(files, dirs, path)

(***************************************************************************)
(* What is computed from a service                                         *)
(***************************************************************************)
Outcome(outcome, items) == [outcome |-> outcome, items |-> items]

Without(config, vars) == [v \in DOMAIN config \ vars |-> config[v]]

\* The JSON of a service leaves out where it came from; an id is what it is the hash of.
\* A slice is written up to its length.
Json(s) ==
  [disable |-> s.disable, autoRestart |-> s.autoRestart, config |-> s.config,
   conditions |-> Elements(s.conditions), template |-> s.template, hooks |-> s.hooks,
   parts |-> [i \in DOMAIN s.parts |-> [s.parts[i] EXCEPT !.proxies = Elements(@)]]]
\* Mutant of ComputeId: exclude_vars is ignored.
ComputeIdOfAll(s, extra, exclude) == <<Json(s), extra>>
ComputeId(s, extra, exclude) ==
  <<Json([s EXCEPT !.config = Without(@, exclude)]), extra>>

\* The template is given the variables that are not excluded, and the id of the service.
PartId(s, part) ==
  LET exclude == Given(part.exclude, {})
      id == [v \in {"CONDUCTOR_SERVICE_ID"} |-> ComputeId(s, "", {})]
      vars == MergeConfig(Without(s.config, exclude), id)
  IN IF part.template = None THEN ComputeId(s, part.name, exclude)
     ELSE <<[v \in DOMAIN vars \intersect Prints[part.template.text] |-> vars[v]], part.name>>

\* A pod and a function of one name are a duplicated part.
PartNames(s) == [i \in DOMAIN s.parts |-> s.parts[i].name]
PartIds(s) ==
  IF IsInjective(PartNames(s))
  THEN Outcome("ok", [i \in DOMAIN s.parts |-> PartId(s, s.parts[i])])
  ELSE Outcome("error", <<>>)

\* Mutant of CaddyConfigName: pods and functions share their names.
CaddyConfigNameOnly(part, name) == <<part.name, name>>
\* An @id is a string, what it is made of joined by dots: here what the dots separate.
Segments(name) == IF name \in DOMAIN Dotted THEN Dotted[name] ELSE <<name>>
CaddyConfigName(part, name) == <<part.kind>> \o Segments(part.name) \o Segments(name)
\* The proxies of a part, by their names or positions.  Those of a pod without upstreams
\* path are passed over.  A route gets an @id if it has none, and a function's is made up
\* if there is none.
Named(part, proxy, name) ==
  [name |-> name, route |-> proxy.route, upstreams |-> proxy.upstreams,
   id |-> CASE proxy.route = "object" -> CaddyConfigName(part, name)
            [] proxy.route = None -> IF part.kind = "pod" THEN <<>> ELSE CaddyConfigName(part, name)
            [] OTHER -> <<proxy.route>>]

\* A route that is no object is an error; default_reverse_proxy is read through a nil
\* pointer when it is not given and there are proxies.
ReverseProxy(part) ==
  LET proxies == Elements(part.proxies)
      all == [i \in DOMAIN proxies |-> Named(part, proxies[i],
                IF proxies[i].name \in {None, ""} THEN ToString(i - 1) ELSE proxies[i].name)]
      used == SelectSeq(all, LAMBDA p : part.kind = "pod" => p.upstreams # None)
      names == [i \in DOMAIN used |-> used[i].name]
      byDefault == [name |-> "default", route |-> None, upstreams |-> "handler",
                    id |-> CaddyConfigName(part, "default")]
      withDefault == part.default = TRUE \/ (part.default = None /\ used = <<>>)
  IN CASE ~IsInjective(names) \/ \E i \in DOMAIN used : used[i].route = "false" -> Outcome("error", <<>>)
       [] part.kind = "pod" -> Outcome("ok", used)
       [] part.default = None /\ used # <<>> -> Outcome("panic", <<>>)
       [] withDefault /\ "default" \in Range(names) -> Outcome("error", <<>>)
       [] OTHER -> Outcome("ok", IF withDefault THEN Append(used, byDefault) ELSE used)

\* The items of a service are the routes of all parts; the first part that fails decides,
\* and an empty route has no @id.
ProxyConfig(s) ==
  LET add(result, part) ==
        LET own == ReverseProxy(part) IN
        IF result.outcome # "ok" THEN result
        ELSE Outcome(own.outcome,
                     result.items \o [i \in DOMAIN own.items |-> own.items[i].id])
      all == FoldLeft(add, Outcome("ok", <<>>), s.parts)
  IN  IF all.outcome = "ok" /\ <<>> \in Range(all.items) THEN Outcome("error", <<>>) ELSE all

\* Those of a deployment are the upstreams of its part.
DeploymentProxyConfig(part) ==
  LET own == ReverseProxy(part)
      with == SelectSeq(own.items, LAMBDA p : p.upstreams # None)
  IN  Outcome(own.outcome,
        [i \in DOMAIN with |-> Append(CaddyConfigName(part, with[i].name), "upstream")])

\* No condition, or one that holds; a condition on nothing does not hold.
EvaluateConditions(conditions) ==
  conditions = <<>> \/ \E i \in DOMAIN conditions : conditions[i].hostname = Hostname

ShouldStart(s) ==
  EvaluateConditions(Elements(s.conditions)) /\ s.disable # TRUE
=============================================================================
