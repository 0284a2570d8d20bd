----------------------------- MODULE ServiceLoad -----------------------------
(***************************************************************************)
(* A service is loaded by its name again and again, as every command does, *)
(* while somebody edits a file it comes from.                              *)
(***************************************************************************)
EXTENDS ServiceConfig, FiniteSets

CONSTANTS
  Layouts,      \* the files and the directories of services there may be
  Edits,        \* what may be written: [file, var, value]
  MaxEdits      \* bound on the edits

ASSUME LayoutsAssumption ==
  \A l \in Layouts :
    /\ DOMAIN l.files = DOMAIN DirOf /\ WellFormed(l.files)
    /\ l.dirs \in Seq(Range(l.dirs))
    /\ \A i \in DOMAIN l.dirs : Range(l.dirs[i]) \subseteq DOMAIN DirOf \union {None}
ASSUME EditsAssumption == \A e \in Edits : e.file \in DOMAIN DirOf

VARIABLES
  files,        \* file -> its content
  dirs,         \* directories of services, in order
  loaded,       \* the service as it was loaded last, with what was computed from it
  edits

vars == <<files, dirs, loaded, edits>>

Names == UNION {DOMAIN dirs[i] : i \in DOMAIN dirs}

Init ==
  /\ \E l \in Layouts : files = l.files /\ dirs = l.dirs
  /\ loaded = Error
  /\ edits = 0

Computed(s) ==
  [ok |-> TRUE, service |-> s, ids |-> PartIds(s), proxy |-> ProxyConfig(s),
   upstreams |-> [i \in DOMAIN s.parts |-> DeploymentProxyConfig(s.parts[i])],
   start |-> ShouldStart(s)]

Load(name) ==
  /\ LET s == LoadServiceByName(files, dirs, name)
     IN  loaded' = IF s.ok THEN Computed(s) ELSE Error
  /\ UNCHANGED <<files, dirs, edits>>

Edit(e) ==
  /\ edits < MaxEdits /\ files[e.file].json = "valid"
  /\ files' = [files EXCEPT ![e.file].config = MergeConfig([v \in {e.var} |-> e.value], @)]
  /\ edits' = edits + 1
  /\ UNCHANGED <<dirs, loaded>>

Next == (\E n \in Names : Load(n)) \/ (\E e \in Edits : Edit(e))

Spec == Init /\ [][Next]_vars

TypeOK ==
  /\ DOMAIN files = DOMAIN DirOf
  /\ \A f \in DOMAIN files : files[f].json \in {"missing", "broken", "valid"}
  /\ loaded.ok =>
       /\ loaded.service.name \in Names \union {""}
       /\ {loaded.service.fileName, loaded.service.configSetFile} \subseteq DOMAIN files
       /\ loaded.service.autoRestart \in BOOLEAN /\ loaded.service.disable \in BOOLEAN \union {None}
       /\ {loaded.ids.outcome, loaded.proxy.outcome} \subseteq {"ok", "error", "panic"}
  /\ edits \in 0..MaxEdits

(***************************************************************************)
(* Properties                                                              *)
(***************************************************************************)
\* A service is found again by the name it gives itself: CONDUCTOR_SERVICE_NAME in a hook
\* or a template is a name commands take for the same service, whatever entries of
\* earlier directories hide or links there are (config.go:172).
NameIsFound ==
  loaded.ok /\ loaded.service.name # "" =>
    ServiceFileByName(dirs, loaded.service.name) = loaded.service.fileName

\* No part and no proxy has a name with dots.
WithoutDots(s) ==
  \A p \in Range(s.parts) :
    ({p.name} \union {q.name : q \in Range(Elements(p.proxies))}) \intersect DOMAIN Dotted = {}

\* The routes of a service and the upstreams of its parts have different @id, as long as
\* the routes do not bring their own: what Caddy is told to add never replaces another item
\* of the same service.  That needs names without dots, which nothing checks: "web" with the
\* proxy "a.x" and "web.a" with the proxy "x" get one @id (pods.go:124, functions.go:178).
ItemsDistinct ==
  loaded.ok /\ loaded.proxy.outcome = "ok" /\ WithoutDots(loaded.service) =>
    LET ofParts == [i \in DOMAIN loaded.upstreams |-> loaded.upstreams[i].items]
    IN  IsInjective(loaded.proxy.items \o FlattenSeq(ofParts))

\* CONDUCTOR_SERVICE_ID is the id that conductor gives: no file has a variable of that name.
OwnVariables ==
  LET own(config) == "CONDUCTOR_SERVICE_ID" \notin DOMAIN config
  IN  /\ \A l \in Layouts : \A f \in DOMAIN l.files :
           l.files[f].json = "valid" => own(l.files[f].config)
      /\ \A e \in Edits : e.var # "CONDUCTOR_SERVICE_ID"

\* What an edit changes of the part ids, and so which deployments the next rollout
\* replaces: none that leaves the variable out (exclude_vars), all others; a part with a
\* template those whose template prints it or the id of the service.
EditsChangeIds ==
  [][loaded.ok /\ loaded'.ok /\ loaded.service.fileName = loaded'.service.fileName
     /\ {loaded.ids.outcome, loaded'.ids.outcome} = {"ok"} =>
       LET old == loaded.service.config
           new == loaded'.service.config
           changed == {v \in DOMAIN old \union DOMAIN new : ValueIn(old, v) # ValueIn(new, v)}
       IN \A i \in DOMAIN loaded.service.parts :
            LET p == loaded.service.parts[i]
                seen == changed \ Given(p.exclude, {})
                prints == Prints[p.template.text]
            IN (loaded.ids.items[i] # loaded'.ids.items[i]) <=>
                 IF p.template = None THEN seen # {}
                 ELSE \/ seen \intersect prints # {}
                      \/ changed # {} /\ "CONDUCTOR_SERVICE_ID" \in prints]_vars
=============================================================================
