---------------------------- MODULE ServiceSources ----------------------------
(***************************************************************************)
(* What a service that was loaded should be, by another definition: not    *)
(* file over file, but for each field by the last file that gives it.      *)
(* These definitions are recursive on the files.                           *)
(***************************************************************************)
EXTENDS ServiceLoad

\* The files a service comes from, those it inherits from first.
RECURSIVE Sources(_)
Sources(path) ==
  LET inherit == SelectSeq(files[path].inherit, LAMBDA i : Exists(files[i.path]))
  IN  Append(FlattenSeq([i \in DOMAIN inherit |-> Sources(inherit[i].path)]), path)

\* The last of them that satisfies a condition, None without one.
LastSource(path, Test(_)) ==
  LET has == SelectSeq(Sources(path), Test) IN IF has = <<>> THEN None ELSE Last(has)

\* What the last file that gives it says of a field, None without one.
LastOf(path, f) == LET g == LastSource(path, LAMBDA h : files[h][f] # None)
                   IN  IF g = None THEN None ELSE files[g][f]

\* The same of a field of a part, as a value and as a path relative to that file.
DeclaredIn(g, p, f) ==
  {q[f] : q \in {r \in Range(files[g].parts) : r.name = p.name /\ r.kind = p.kind}} \ {None}
LastDeclaring(path, p, f) == LastSource(path, LAMBDA g : DeclaredIn(g, p, f) # {})
LastDeclared(path, p, f) ==
  LET g == LastDeclaring(path, p, f)
  IN  IF g = None THEN None ELSE CHOOSE value \in DeclaredIn(g, p, f) : TRUE
PathDeclared(path, p, f) ==
  LET g == LastDeclaring(path, p, f)
  IN  IF g = None THEN None ELSE In(DirOf[g], LastDeclared(path, p, f).text)

\* The template of a part id is that of the last file that declares one, relative to that
\* file; but a function's is left as it is until a file has given the function a program,
\* and then joined to the directory of the file that is read (functions.go:59).
TemplateDeclared(path, p) ==
  LET read == Sources(path)
      declares(f) == {i \in DOMAIN read : DeclaredIn(read[i], p, f) # {}}
      template == LastDeclared(path, p, "template")
      joins == {i \in DOMAIN read :
                  /\ \A k \in declares("template") : i >= k
                  /\ p.kind = "pod" \/ \E k \in declares("run") : i >= k}
  IN  IF template = None \/ joins = {} THEN template
      ELSE In(DirOf[read[First(joins)]], template.text)

ScalarsOfLast(s) ==
  /\ s.disable = LastOf(s.fileName, "disable")
  /\ s.autoRestart = Given(LastOf(s.fileName, "autoRestart"), TRUE)
  /\ LET g == LastSource(s.fileName, LAMBDA h : files[h].template # None)
     IN  IF g = None
         THEN s.template \in {None, In(s.basePath, "proxy-config.template")}
         ELSE s.template = In(DirOf[g], files[g].template.text)
VariablesOfLast(s) ==
  /\ DOMAIN s.config = UNION {DOMAIN files[f].config : f \in Range(Sources(s.fileName))}
  /\ \A v \in DOMAIN s.config :
       s.config[v] = files[LastSource(s.fileName, LAMBDA g : v \in DOMAIN files[g].config)].config[v]
\* There are as many conditions as the last file that gives some has; one that says nothing
\* of the host is that of the files before, at the same place.
ConditionsOfLast(s) ==
  LET last == LastOf(s.fileName, "conditions")
      says(g, i) == /\ files[g].conditions # None /\ i \in DOMAIN files[g].conditions
                    /\ files[g].conditions[i].hostname # None
      host(i) == LET g == LastSource(s.fileName, LAMBDA h : says(h, i))
                 IN  IF g = None THEN None ELSE files[g].conditions[i].hostname
      expected == IF last = None THEN <<>> ELSE [i \in DOMAIN last |-> [hostname |-> host(i)]]
  IN  Elements(s.conditions) = expected
PartsOfLast(s) ==
  /\ {<<p.name, p.kind>> : p \in Range(s.parts)} =
       {<<p.name, p.kind>> : p \in UNION {Range(files[f].parts) : f \in Range(Sources(s.fileName))}}
  /\ \A p \in Range(s.parts) :
       /\ p.exclude = LastDeclared(s.fileName, p, "exclude")
       /\ p.default = LastDeclared(s.fileName, p, "default")
       /\ p.template = TemplateDeclared(s.fileName, p)
       /\ p.run = Given(PathDeclared(s.fileName, p, "run"),
                        IF p.kind = "pod" THEN In(s.basePath, "pod.template") ELSE None)
HooksOfLast(s) ==
  \A f \in Range(Sources(s.fileName)) : \A h \in Range(files[f].hooks) : h.id # "" =>
    LET g == LastSource(s.fileName, LAMBDA k : h.id \in {j.id : j \in Range(files[k].hooks)})
    IN  \E i \in DOMAIN s.hooks, j \in DOMAIN files[g].hooks :
          /\ s.hooks[i].id = h.id /\ files[g].hooks[j].id = h.id
          /\ s.hooks[i].exec = In(DirOf[g], files[g].hooks[j].exec.text)
          /\ \A k \in DOMAIN s.hooks : s.hooks[k].id = h.id => k = i

\* Whatever is inherited, and however deep, each field is what the last file that gives it
\* says, and a path is relative to that file; the same for what the parts declare (their
\* proxies excepted, which are filled place by place like the conditions), for each variable
\* and for the hook of an id.  No field that a file gives is lost.  One path is not as
\* README.md:234 says, relative to the file it was declared in: the template of a function
\* whose program comes from a later file (TemplateDeclared).
LastFileWins ==
  edits = 0 /\ loaded.ok =>
    LET s == loaded.service
    IN  /\ ScalarsOfLast(s) /\ VariablesOfLast(s) /\ ConditionsOfLast(s)
        /\ PartsOfLast(s) /\ HooksOfLast(s)

\* The files in the order loading enters them: a file before those it inherits from.
RECURSIVE Entered(_)
Entered(path) ==
  LET inherit == SelectSeq(files[path].inherit, LAMBDA i : Exists(files[i.path]))
  IN  <<path>> \o FlattenSeq([i \in DOMAIN inherit |-> Entered(inherit[i].path)])

\* "config set" writes to what the first file entered that has a set_config entry says, to
\* the last such entry of it, even if that file does not exist yet; no file entered later,
\* nor one inherited by that file, changes it (config.go:281).
SetFileIsFirst ==
  loaded.ok =>
    LET s == loaded.service
        entries(f) == SelectSeq(files[f].inherit, LAMBDA i : i.setConfig)
        says == SelectSeq(Entered(s.fileName), LAMBDA f : entries(f) # <<>>)
    IN  s.configSetFile = IF says = <<>> THEN s.fileName ELSE Last(entries(Head(says))).path
=============================================================================
