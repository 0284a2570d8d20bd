------------------------- MODULE ServiceLoad_proofs -------------------------
(***************************************************************************)
(* What is loaded of a service comes from its files as they are or as they *)
(* were before edits, and edits change only what files say of variables:   *)
(* what the ids of the parts depend on, and the name, for all files and    *)
(* directories.                                                            *)
(***************************************************************************)
EXTENDS ServiceLoad, ServiceConfig_proofs

(***************************************************************************)
(* Files that differ in what they say of variables                         *)
(***************************************************************************)
\* The fields of a file but its configuration.
SaysAlike(c, d) ==
  \/ d = c
  \/ /\ c.json = "valid" /\ d.json = "valid"
     /\ d.inherit = c.inherit /\ d.disable = c.disable /\ d.autoRestart = c.autoRestart
     /\ d.conditions = c.conditions /\ d.template = c.template
     /\ d.parts = c.parts /\ d.hooks = c.hooks

\* The fields of a service but its configuration.
MadeAlike(s, t) ==
  /\ DOMAIN s = DOMAIN NewService /\ DOMAIN t = DOMAIN NewService
  /\ t.ok = s.ok /\ t.disable = s.disable /\ t.autoRestart = s.autoRestart
  /\ t.conditions = s.conditions /\ t.template = s.template
  /\ t.parts = s.parts /\ t.hooks = s.hooks
  /\ t.basePath = s.basePath /\ t.fileName = s.fileName
  /\ t.configSetFile = s.configSetFile /\ t.name = s.name

LEMMA OverlayAlike ==
  ASSUME NEW s, NEW t, MadeAlike(s, t), NEW path, NEW c, NEW d, SaysAlike(c, d)
  PROVE  MadeAlike(Overlay(s, path, c), Overlay(t, path, d))
<1>1. /\ d.disable = c.disable /\ d.autoRestart = c.autoRestart
      /\ d.conditions = c.conditions /\ d.template = c.template
      /\ d.parts = c.parts /\ d.hooks = c.hooks
  BY DEF SaysAlike
<1> DEFINE hooks(r, e) == merge_hooks(r.hooks, e.hooks)
           Fixed(hs) == [i \in DOMAIN hs |-> [hs[i] EXCEPT !.exec = fix_path(DirOf[path], @)]]
<1>2. ASSUME NEW r, DOMAIN r = DOMAIN NewService, NEW e
      PROVE  LET o == Overlay(r, path, e) IN
             /\ DOMAIN o = DOMAIN NewService
             /\ o.ok = r.ok /\ o.configSetFile = r.configSetFile /\ o.name = r.name
             /\ o.disable = Given(e.disable, r.disable)
             /\ o.autoRestart = Given(e.autoRestart, r.autoRestart)
             /\ o.conditions = OverlaySlice(r.conditions, e.conditions)
             /\ o.template = fix_path(DirOf[path], Given(e.template, r.template))
             /\ o.parts = FixParts(OverlayParts(r.parts, e.parts), DirOf[path])
             /\ o.hooks = Fixed(hooks(r, e))
             /\ o.basePath = DirOf[path] /\ o.fileName = path
  BY <1>2 DEF Overlay, NewService
<1>3. DOMAIN s = DOMAIN NewService /\ DOMAIN t = DOMAIN NewService
  BY DEF MadeAlike
<1>4. hooks(t, d) = hooks(s, c)
  BY <1>1 DEF MadeAlike
<1> HIDE DEF hooks, Fixed
<1>q. QED
  BY <1>1, <1>2, <1>3, <1>4 DEF MadeAlike

LEMMA OverlaidAlike ==
  ASSUME NEW F, NEW G, NEW paths, Len(paths) \in Nat,
         \A j \in 1..Len(paths) : SaysAlike(F[paths[j]], G[paths[j]])
  PROVE  MadeAlike(Overlaid(F, paths)[Len(paths)], Overlaid(G, paths)[Len(paths)])
<1> DEFINE U == Overlaid(F, paths)
           V == Overlaid(G, paths)
           N == {n \in Nat : n <= Len(paths) => MadeAlike(U[n], V[n])}
<1>1. U = [j \in 0..Len(paths) |-> IF j = 0 THEN NewService ELSE OverlaidStep(F, paths, U[j - 1], j)]
  BY OverlaidUnfolds
<1>2. V = [j \in 0..Len(paths) |-> IF j = 0 THEN NewService ELSE OverlaidStep(G, paths, V[j - 1], j)]
  BY OverlaidUnfolds
<1>3. 0 \in N
  <2>1. U[0] = NewService /\ V[0] = NewService
    BY <1>1, <1>2
  <2>q. QED
    BY <2>1 DEF MadeAlike
<1>4. ASSUME NEW n \in Nat, n \in N PROVE n + 1 \in N
  <2>1. SUFFICES ASSUME n + 1 <= Len(paths) PROVE MadeAlike(U[n + 1], V[n + 1])
    OBVIOUS
  <2>2. MadeAlike(U[n], V[n])
    BY <1>4, <2>1
  <2>3. /\ U[n + 1] = OverlaidStep(F, paths, U[n], n + 1)
        /\ V[n + 1] = OverlaidStep(G, paths, V[n], n + 1)
    BY <1>1, <1>2, <2>1
  <2> DEFINE c == F[paths[n + 1]]
             d == G[paths[n + 1]]
  <2>4. SaysAlike(c, d) /\ (Exists(d) <=> Exists(c))
    BY <2>1 DEF SaysAlike, Exists
  <2> HIDE DEF U, V
  <2>q. QED
    BY <2>2, <2>3, <2>4, OverlayAlike DEF OverlaidStep
<1> HIDE DEF N, U, V
<1>5. \A n \in Nat : n \in N
  BY <1>3, <1>4, NatSet
<1>6. Len(paths) \in N
  BY <1>5
<1>q. QED
  BY <1>6 DEF N, U, V

(***************************************************************************)
(* Loading files that differ in what they say of variables                 *)
(***************************************************************************)
\* No file that is visited is broken.
LEMMA VisitedUnbroken ==
  ASSUME FuelOfLoad \in Nat, NEW F, WellFormed(F), None \notin DOMAIN F,
         NEW n \in 0..FuelOfLoad, NEW p \in DOMAIN F
  PROVE  Visited(F)[n][p] \in Seq({f \in DOMAIN F : F[f].json # "broken"} \union {None})
<1> DEFINE S == DOMAIN F
           T == {f \in S : F[f].json # "broken"} \union {None}
           Good(m) == \A q \in S : Visited(F)[m][q] \in Seq(T)
           N == {m \in Nat : m <= FuelOfLoad => Good(m)}
<1>1. <<None>> \in Seq(T) /\ \A q \in S : F[q].json = "valid" => q \in T /\ <<q>> \in Seq(T)
  OBVIOUS
<1>2. Closed(F, S)
  BY DomainClosed
<1>3. 0 \in N
  <2>1. ASSUME NEW q \in S PROVE Visited(F)[0][q] \in Seq(T)
    <3>1. /\ F[q].json # "valid" => Visited(F)[0][q] = <<None>>
          /\ F[q].json = "valid" => Visited(F)[0][q] \in {<<q>>, <<None>>}
      <4>1. 0 \in 0..FuelOfLoad
        OBVIOUS
      <4>q. QED
        BY <4>1, VisitedValue
    <3>q. QED
      BY <3>1, <1>1
  <2>q. QED
    BY <2>1
<1>4. ASSUME NEW m \in Nat, m \in N PROVE m + 1 \in N
  <2>1. SUFFICES ASSUME m + 1 <= FuelOfLoad, NEW q \in S
                 PROVE  Visited(F)[m + 1][q] \in Seq(T)
    OBVIOUS
  <2>2. Good(m) /\ m + 1 \in 0..FuelOfLoad /\ (m + 1) - 1 = m /\ m + 1 # 0
    BY <1>4, <2>1
  <2>3. CASE F[q].json # "valid"
    BY <2>2, <2>3, <1>1, VisitedValue
  <2>4. CASE F[q].json = "valid"
    <3> DEFINE below == Below(F, q, Visited(F)[m])
    <3>1. F[q].inherit \in Seq(InheritFile(F))
      BY <2>4 DEF WellFormed
    <3>2. ASSUME NEW i \in DOMAIN F[q].inherit
          PROVE  Entry(F, F[q].inherit[i], Visited(F)[m]) \in Seq(T)
      <4>1. F[q].inherit[i].path \in S
        BY <2>4, <1>2 DEF Closed
      <4>2. CASE MayBeMissing(F, F[q].inherit[i])
        <5>1. F[q].inherit[i].path \in T
          BY <4>1, <4>2 DEF MayBeMissing, Exists
        <5> HIDE DEF T
        <5>q. QED
          BY <5>1, <4>2 DEF Entry
      <4>3. CASE ~MayBeMissing(F, F[q].inherit[i])
        BY <4>1, <4>3, <2>2 DEF Entry
      <4>q. QED
        BY <4>2, <4>3
    <3>3. below \in Seq(Seq(T))
      <4>1. DOMAIN F[q].inherit = 1..Len(F[q].inherit) /\ Len(F[q].inherit) \in Nat
        BY <3>1
      <4> HIDE DEF T
      <4>q. QED
        BY <4>1, <3>2 DEF Below
    <3>4. FlattenSeq(below) \in Seq(T)
      BY <3>3, Flattened
    <3>5. Visited(F)[m + 1][q] = Append(FlattenSeq(below), q)
      BY <2>2, <2>4, VisitedValue
    <3>6. q \in T
      BY <2>4, <1>1
    <3> HIDE DEF below, T
    <3>q. QED
      BY <3>4, <3>5, <3>6
  <2>q. QED
    BY <2>3, <2>4
<1> HIDE DEF N
<1>5. n \in N
  <2>1. \A m \in Nat : m \in N
    BY <1>3, <1>4, NatSet
  <2>q. QED
    BY <2>1
<1>q. QED
  BY <1>5 DEF N

\* What the state of the files is, and when two of them say the same but of variables.
FileState(F) == DOMAIN F = DOMAIN DirOf /\ WellFormed(F)
FilesAlike(F, G) == \A f \in DOMAIN DirOf : SaysAlike(F[f], G[f])
OwnId(F) == \A f \in DOMAIN F : F[f].json = "valid" => "CONDUCTOR_SERVICE_ID" \notin DOMAIN F[f].config

\* The value of a service that has been loaded.
Finished(s, set, name) ==
  [FillDefaults([s EXCEPT !.configSetFile = set]) EXCEPT !.name = name]

LEMMA LoadMakes ==
  ASSUME FuelOfLoad \in Nat, NEW F, FileState(F), None \notin DOMAIN DirOf, NEW p \in DOMAIN DirOf,
         NEW dirs_, LoadServiceFile(F, dirs_, p).ok
  PROVE  /\ None \notin Range(Chain(F, p))
         /\ Chain(F, p) \in Seq(DOMAIN DirOf)
         /\ \A j \in 1..Len(Chain(F, p)) : F[Chain(F, p)[j]].json \in {"valid", "missing"}
         /\ LoadServiceFile(F, dirs_, p) =
              Finished(Made(F, p), SetFile(F)[FuelOfLoad][p][None], ServiceNameFromFile(dirs_, p))
<1> DEFINE chain == Chain(F, p)
<1>1. None \notin Range(chain)
  BY LoadFails DEF Error
<1>2. WellFormed(F) /\ p \in DOMAIN F /\ None \notin DOMAIN F /\ Closed(F, DOMAIN F)
  BY DomainClosed DEF FileState
<1>3. chain \in Seq(DOMAIN DirOf)
  BY <1>1, <1>2, ChainEnds DEF FileState
<1>4. ASSUME NEW j \in 1..Len(chain) PROVE F[chain[j]].json \in {"valid", "missing"}
  <2>1. FuelOfLoad \in 0..FuelOfLoad
    OBVIOUS
  <2>2. chain \in Seq({f \in DOMAIN F : F[f].json # "broken"} \union {None})
    BY <2>1, <1>2, VisitedUnbroken DEF Chain
  <2>3. chain[j] # None /\ chain[j] \in {f \in DOMAIN F : F[f].json # "broken"} \union {None}
    BY <2>2, <1>1, <1>3 DEF Range
  <2>4. chain[j] \in DOMAIN F /\ F[chain[j]].json # "broken"
    BY <2>3
  <2>q. QED
    BY <2>4, <1>2 DEF WellFormed
<1>5. loadService(F, p) = [Made(F, p) EXCEPT !.configSetFile = SetFile(F)[FuelOfLoad][p][None]]
  BY <1>1 DEF loadService, Chain, Made
<1>6. loadService(F, p).ok
  BY DEF LoadServiceFile, Error
<1>q. QED
  BY <1>1, <1>3, <1>4, <1>5, <1>6 DEF LoadServiceFile, Finished
OwnTemplate(s) ==
  IF s.template = None /\ s.basePath \in Templates
  THEN In(s.basePath, "proxy-config.template") ELSE s.template
PodsFilled(s) ==
  [i \in DOMAIN s.parts |->
     IF s.parts[i].kind = "pod"
     THEN [s.parts[i] EXCEPT !.run = Given(@, In(s.basePath, "pod.template"))]
     ELSE s.parts[i]]

FieldsOf(s, set, name) ==
  /\ DOMAIN Finished(s, set, name) = DOMAIN NewService
  /\ Finished(s, set, name).ok = s.ok
  /\ Finished(s, set, name).disable = s.disable
  /\ Finished(s, set, name).autoRestart = Given(s.autoRestart, TRUE)
  /\ Finished(s, set, name).conditions = s.conditions
  /\ Finished(s, set, name).template = OwnTemplate(s)
  /\ Finished(s, set, name).parts = PodsFilled(s)
  /\ Finished(s, set, name).hooks = s.hooks
  /\ Finished(s, set, name).basePath = s.basePath
  /\ Finished(s, set, name).fileName = s.fileName
  /\ Finished(s, set, name).configSetFile = Given(set, s.fileName)
  /\ Finished(s, set, name).name = name

LEMMA FieldsLoaded ==
  ASSUME NEW s, DOMAIN s = DOMAIN NewService, NEW set, NEW name
  PROVE  FieldsOf(s, set, name)
BY DEF FieldsOf, Finished, FillDefaults, OwnTemplate, PodsFilled, NewService

\* What is loaded of them is alike.
LEMMA LoadsAlike ==
  ASSUME FuelOfLoad \in Nat, NEW F, NEW G, FileState(F), FileState(G), FilesAlike(F, G),
         None \notin DOMAIN DirOf, NEW p \in DOMAIN DirOf, NEW dirs_,
         LoadServiceFile(F, dirs_, p).ok, LoadServiceFile(G, dirs_, p).ok
  PROVE  MadeAlike(LoadServiceFile(F, dirs_, p), LoadServiceFile(G, dirs_, p))
<1> DEFINE chain == Chain(F, p)
<1>1. Chain(G, p) = chain /\ SetFile(G)[FuelOfLoad][p] = SetFile(F)[FuelOfLoad][p]
  <2>1. \A f \in DOMAIN F : SameShape(F[f], G[f])
    BY DEF FilesAlike, SaysAlike, SameShape, FileState
  <2>2. /\ WellFormed(F) /\ Closed(F, DOMAIN F) /\ DOMAIN G = DOMAIN F /\ p \in DOMAIN F
        /\ FuelOfLoad \in 0..FuelOfLoad
    BY DomainClosed DEF FileState
  <2>q. QED
    BY <2>1, <2>2, VisitedSame DEF Chain
<1>2. /\ chain \in Seq(DOMAIN DirOf) /\ Len(chain) \in Nat
      /\ \A j \in 1..Len(chain) : SaysAlike(F[chain[j]], G[chain[j]])
  <2>1. chain \in Seq(DOMAIN DirOf)
    BY LoadMakes
  <2>q. QED
    BY <2>1 DEF FilesAlike
<1>3. MadeAlike(Made(F, p), Made(G, p))
  BY <1>1, <1>2, OverlaidAlike DEF Made
<1> DEFINE set == SetFile(F)[FuelOfLoad][p][None]
           name == ServiceNameFromFile(dirs_, p)
           s == Made(F, p)
           t == Made(G, p)
<1>4. /\ LoadServiceFile(F, dirs_, p) = Finished(s, set, name)
      /\ LoadServiceFile(G, dirs_, p) = Finished(t, set, name)
  BY <1>1, LoadMakes
<1> HIDE DEF set, name, s, t
<1>5. MadeAlike(s, t)
  BY <1>3 DEF s, t
<1>6. OwnTemplate(t) = OwnTemplate(s) /\ PodsFilled(t) = PodsFilled(s)
  BY <1>5 DEF MadeAlike, OwnTemplate, PodsFilled
<1>7. MadeAlike(Finished(s, set, name), Finished(t, set, name))
  <2>1. DOMAIN s = DOMAIN NewService /\ DOMAIN t = DOMAIN NewService
    BY <1>5 DEF MadeAlike
  <2>2. FieldsOf(s, set, name) /\ FieldsOf(t, set, name)
    BY <2>1, FieldsLoaded
  <2>q. QED
    BY <2>2, <1>5, <1>6 DEF MadeAlike, FieldsOf
<1>q. QED
  BY <1>4, <1>7

\* No variable of its configuration is CONDUCTOR_SERVICE_ID if none of its files' is.
LEMMA LoadsOwnId ==
  ASSUME FuelOfLoad \in Nat, NEW F, FileState(F), OwnId(F), None \notin DOMAIN DirOf,
         NEW p \in DOMAIN DirOf, NEW dirs_, LoadServiceFile(F, dirs_, p).ok
  PROVE  "CONDUCTOR_SERVICE_ID" \notin DOMAIN LoadServiceFile(F, dirs_, p).config
<1> DEFINE chain == Chain(F, p)
           U == Overlaid(F, chain)
           N == {n \in Nat : n <= Len(chain) => "CONDUCTOR_SERVICE_ID" \notin DOMAIN U[n].config}
<1>1. /\ chain \in Seq(DOMAIN DirOf) /\ Len(chain) \in Nat
      /\ \A j \in 1..Len(chain) : F[chain[j]].json \in {"valid", "missing"}
      /\ None \notin Range(chain)
  <2>1. /\ chain \in Seq(DOMAIN DirOf) /\ None \notin Range(chain)
        /\ \A j \in 1..Len(chain) : F[chain[j]].json \in {"valid", "missing"}
    BY LoadMakes
  <2> HIDE DEF chain
  <2>q. QED
    BY <2>1
<1>2. U = [j \in 0..Len(chain) |-> IF j = 0 THEN NewService ELSE OverlaidStep(F, chain, U[j - 1], j)]
  BY <1>1, OverlaidUnfolds
<1>3. 0 \in N
  <2>1. U[0].config = NewService.config
    BY <1>1, <1>2
  <2>2. NewService.config = <<>> /\ DOMAIN <<>> = {}
    BY DEF NewService
  <2>q. QED
    BY <2>1, <2>2
<1>4. ASSUME NEW n \in Nat, n \in N PROVE n + 1 \in N
  <2>1. SUFFICES ASSUME n + 1 <= Len(chain)
                 PROVE  "CONDUCTOR_SERVICE_ID" \notin DOMAIN U[n + 1].config
    OBVIOUS
  <2>2. "CONDUCTOR_SERVICE_ID" \notin DOMAIN U[n].config
    BY <1>4, <2>1
  <2>3. U[n + 1] = OverlaidStep(F, chain, U[n], n + 1)
    BY <1>1, <1>2, <2>1
  <2>4. DOMAIN U[n] = DOMAIN NewService
    BY <1>1, <2>1, OverlaidFields
  <2> DEFINE c == F[chain[n + 1]]
  <2>5. Exists(c) => "CONDUCTOR_SERVICE_ID" \notin DOMAIN c.config
    <3>1. chain[n + 1] \in DOMAIN F /\ c.json \in {"valid", "missing"}
      BY <1>1, <2>1 DEF FileState
    <3>q. QED
      BY <3>1 DEF OwnId, Exists
  <2> HIDE DEF U, c, chain
  <2>6. CASE Exists(c)
    <3>1. U[n + 1] = Overlay(U[n], chain[n + 1], c)
      BY <2>3, <2>6 DEF OverlaidStep, c
    <3>2. U[n + 1].config = MergeConfig(c.config, U[n].config)
      BY <3>1, <2>4, OverlayValue
    <3>q. QED
      BY <3>2, <2>2, <2>5, <2>6 DEF MergeConfig
  <2>7. CASE ~Exists(c)
    BY <2>2, <2>3, <2>7 DEF OverlaidStep, c
  <2>q. QED
    BY <2>6, <2>7
<1> HIDE DEF N, U
<1>5. \A n \in Nat : n \in N
  BY <1>3, <1>4, NatSet
<1>6. Len(chain) \in N
  BY <1>1, <1>5
<1>7. "CONDUCTOR_SERVICE_ID" \notin DOMAIN Made(F, p).config
  BY <1>1, <1>6 DEF N, U, Made
<1>8. LoadServiceFile(F, dirs_, p).config = Made(F, p).config
  <2>1. /\ WellFormed(F) /\ Closed(F, DOMAIN F) /\ p \in DOMAIN F /\ None \notin DOMAIN F
    BY DomainClosed DEF FileState
  <2>q. QED
    BY <1>1, <2>1, LoadValue
<1>q. QED
  BY <1>7, <1>8
(***************************************************************************)
(* Ids                                                                     *)
(***************************************************************************)
Id == "CONDUCTOR_SERVICE_ID"
Changed(old, new) == {v \in DOMAIN old \union DOMAIN new : ValueIn(old, v) # ValueIn(new, v)}

\* Two configurations without some variables are the same if only these have changed.
LEMMA WithoutSame ==
  ASSUME NEW old, NEW new, NEW X
  PROVE  Without(old, X) = Without(new, X) <=> Changed(old, new) \ X = {}
<1>1. ASSUME Changed(old, new) \ X = {} PROVE Without(old, X) = Without(new, X)
  <2>1. ASSUME NEW v, v \notin X PROVE ValueIn(old, v) = ValueIn(new, v)
    <3>1. CASE v \in DOMAIN old \union DOMAIN new
      BY <1>1, <2>1, <3>1 DEF Changed
    <3>2. CASE v \notin DOMAIN old \union DOMAIN new
      BY <3>2 DEF ValueIn
    <3>q. QED
      BY <3>1, <3>2
  <2>2. ASSUME NEW v, v \notin X
        PROVE  /\ v \in DOMAIN old <=> v \in DOMAIN new
               /\ v \in DOMAIN old => old[v] = new[v]
    BY <2>1, <2>2 DEF ValueIn
  <2>3. DOMAIN old \ X = DOMAIN new \ X
    BY <2>2
  <2>q. QED
    BY <2>2, <2>3 DEF Without
<1>2. ASSUME Without(old, X) = Without(new, X), NEW v \in Changed(old, new), v \notin X PROVE FALSE
  <2>1. DOMAIN Without(old, X) = DOMAIN old \ X /\ DOMAIN Without(new, X) = DOMAIN new \ X
    BY DEF Without
  <2>2. v \in DOMAIN old <=> v \in DOMAIN new
    BY <1>2, <2>1
  <2>3. v \in DOMAIN old /\ v \in DOMAIN new => old[v] = new[v]
    <3>1. ASSUME v \in DOMAIN old /\ v \in DOMAIN new
          PROVE  Without(old, X)[v] = old[v] /\ Without(new, X)[v] = new[v]
      BY <1>2, <3>1 DEF Without
    <3>q. QED
      BY <3>1, <1>2
  <2>q. QED
    BY <1>2, <2>2, <2>3 DEF Changed, ValueIn
<1>q. QED
  BY <1>1, <1>2

\* Two services that differ in their variables have the same id without some of them if
\* only these have changed.
LEMMA IdSame ==
  ASSUME NEW s, NEW t, MadeAlike(s, t), NEW extra, NEW X
  PROVE  ComputeId(s, extra, X) = ComputeId(t, extra, X) <=> Changed(s.config, t.config) \ X = {}
<1> DEFINE a == [s EXCEPT !.config = Without(@, X)]
           b == [t EXCEPT !.config = Without(@, X)]
<1>1. /\ a.config = Without(s.config, X) /\ b.config = Without(t.config, X)
      /\ b.disable = a.disable /\ b.autoRestart = a.autoRestart /\ b.conditions = a.conditions
      /\ b.template = a.template /\ b.hooks = a.hooks /\ b.parts = a.parts
  BY DEF MadeAlike, NewService
<1>2. ComputeId(s, extra, X) = <<Json(a), extra>> /\ ComputeId(t, extra, X) = <<Json(b), extra>>
  BY DEF ComputeId
<1> HIDE DEF a, b
<1>3. Json(a).config = a.config /\ Json(b).config = b.config
  BY DEF Json
<1>4. a.config = b.config => Json(a) = Json(b)
  BY <1>1 DEF Json
<1>5. Json(a) = Json(b) <=> Without(s.config, X) = Without(t.config, X)
  BY <1>1, <1>3, <1>4
<1>6. ComputeId(s, extra, X) = ComputeId(t, extra, X) <=> Json(a) = Json(b)
  BY <1>2
<1>q. QED
  BY <1>5, <1>6, WithoutSame

\* What a template prints of a configuration and an id.
PrintedOf(config, id, X, P) ==
  LET given == MergeConfig(Without(config, X), [v \in {Id} |-> id])
  IN  [v \in DOMAIN given \intersect P |-> given[v]]

LEMMA PrintedSame ==
  ASSUME NEW old, NEW new, Id \notin DOMAIN old, Id \notin DOMAIN new, NEW a, NEW b, NEW X, NEW P
  PROVE  PrintedOf(old, a, X, P) # PrintedOf(new, b, X, P) <=>
           \/ (Changed(old, new) \ X) \intersect P # {}
           \/ a # b /\ Id \in P
<1> DEFINE R(c, i) == PrintedOf(c, i, X, P)
<1>1. ASSUME NEW c, Id \notin DOMAIN c, NEW i
      PROVE  /\ DOMAIN R(c, i) = ((DOMAIN c \ X) \union {Id}) \intersect P
             /\ \A v \in P : v \in DOMAIN c \ X => R(c, i)[v] = c[v]
             /\ Id \in P => R(c, i)[Id] = i
             /\ R(c, i) = [v \in DOMAIN R(c, i) |-> R(c, i)[v]]
  BY <1>1 DEF PrintedOf, MergeConfig, Without, Id
<1> DEFINE A == R(old, a)
           B == R(new, b)
<1>a. /\ DOMAIN A = ((DOMAIN old \ X) \union {Id}) \intersect P
      /\ \A v \in P : v \in DOMAIN old \ X => A[v] = old[v]
      /\ Id \in P => A[Id] = a
      /\ A = [v \in DOMAIN A |-> A[v]]
  BY <1>1
<1>b. /\ DOMAIN B = ((DOMAIN new \ X) \union {Id}) \intersect P
      /\ \A v \in P : v \in DOMAIN new \ X => B[v] = new[v]
      /\ Id \in P => B[Id] = b
      /\ B = [v \in DOMAIN B |-> B[v]]
  BY <1>1
<1> HIDE DEF A, B
<1>2. ASSUME Id \in P, a # b PROVE A # B
  BY <1>a, <1>b, <1>2
<1>3. ASSUME NEW v \in (Changed(old, new) \ X) \intersect P PROVE A # B
  <2>1. v # Id /\ v \in P /\ v \notin X /\ ValueIn(old, v) # ValueIn(new, v)
    BY <1>3 DEF Changed
  <2>2. CASE v \in DOMAIN old /\ v \in DOMAIN new
    <3>1. old[v] # new[v]
      BY <2>1, <2>2 DEF ValueIn
    <3>q. QED
      BY <3>1, <2>1, <2>2, <1>a, <1>b
  <2>3. CASE ~(v \in DOMAIN old <=> v \in DOMAIN new)
    <3>1. v \in DOMAIN A <=> v \in DOMAIN old
      BY <2>1, <1>a, <1>b
    <3>2. v \in DOMAIN B <=> v \in DOMAIN new
      BY <2>1, <1>a, <1>b
    <3>q. QED
      BY <3>1, <3>2, <2>3
  <2>q. QED
    BY <2>1, <2>2, <2>3 DEF Changed
<1>4. ASSUME (Changed(old, new) \ X) \intersect P = {}, Id \in P => a = b
      PROVE  A = B
  <2>1. ASSUME NEW v \in P, v \notin X
        PROVE  /\ v \in DOMAIN old <=> v \in DOMAIN new
               /\ v \in DOMAIN old => old[v] = new[v]
    <3>1. ValueIn(old, v) = ValueIn(new, v)
      <4>1. CASE v \in DOMAIN old \union DOMAIN new
        BY <1>4, <2>1, <4>1 DEF Changed
      <4>2. CASE v \notin DOMAIN old \union DOMAIN new
        BY <4>2 DEF ValueIn
      <4>q. QED
        BY <4>1, <4>2
    <3>q. QED
      BY <3>1 DEF ValueIn
  <2>2. DOMAIN A = DOMAIN B
    <3>1. ((DOMAIN old \ X) \union {Id}) \intersect P = ((DOMAIN new \ X) \union {Id}) \intersect P
      BY <2>1
    <3>q. QED
      BY <3>1, <1>a, <1>b
  <2>3. ASSUME NEW v \in DOMAIN A PROVE A[v] = B[v]
    <3>1. v \in P /\ (v = Id \/ v \in DOMAIN old \ X)
      BY <1>a, <1>b
    <3>2. CASE v = Id
      BY <3>1, <3>2, <1>a, <1>b, <1>4
    <3>3. CASE v \in DOMAIN old \ X
      BY <3>1, <3>3, <2>1, <1>a, <1>b
    <3>q. QED
      BY <3>1, <3>2, <3>3
  <2>4. A = [v \in DOMAIN A |-> A[v]]
    BY <1>a, <1>b
  <2>5. B = [v \in DOMAIN B |-> B[v]]
    BY <1>a, <1>b
  <2>q. QED
    BY <2>2, <2>3, <2>4, <2>5
<1>5. A # B <=> ((Changed(old, new) \ X) \intersect P # {} \/ (a # b /\ Id \in P))
  BY <1>2, <1>3, <1>4
<1>q. QED
  BY <1>5 DEF A, B

\* What the id of a part depends on.
IdDependsOn(part, changed) ==
  LET seen == changed \ Given(part.exclude, {})
      prints == Prints[part.template.text]
  IN  IF part.template = None THEN seen # {}
      ELSE \/ seen \intersect prints # {}
           \/ changed # {} /\ Id \in prints

LEMMA PartIdChanges ==
  ASSUME NEW s, NEW t, MadeAlike(s, t), Id \notin DOMAIN s.config, Id \notin DOMAIN t.config, NEW part
  PROVE  PartId(s, part) # PartId(t, part) <=> IdDependsOn(part, Changed(s.config, t.config))
<1> DEFINE X == Given(part.exclude, {})
           P == Prints[part.template.text]
<1>1. CASE part.template = None
  <2>1. PartId(s, part) = ComputeId(s, part.name, X) /\ PartId(t, part) = ComputeId(t, part.name, X)
    BY <1>1 DEF PartId
  <2>q. QED
    BY <1>1, <2>1, IdSame DEF IdDependsOn
<1>2. CASE part.template # None
  <2> DEFINE a == ComputeId(s, "", {})
             b == ComputeId(t, "", {})
  <2>1. /\ PartId(s, part) = <<PrintedOf(s.config, a, X, P), part.name>>
        /\ PartId(t, part) = <<PrintedOf(t.config, b, X, P), part.name>>
    BY <1>2 DEF PartId, PrintedOf, Id
  <2>2. a = b <=> Changed(s.config, t.config) = {}
    <3>1. a = b <=> Changed(s.config, t.config) \ {} = {}
      BY IdSame
    <3>q. QED
      BY <3>1
  <2> HIDE DEF a, b, X, P
  <2>3. PartId(s, part) # PartId(t, part) <=> PrintedOf(s.config, a, X, P) # PrintedOf(t.config, b, X, P)
    BY <2>1
  <2>4. PartId(s, part) # PartId(t, part) <=>
          \/ (Changed(s.config, t.config) \ X) \intersect P # {}
          \/ a # b /\ Id \in P
    BY <2>3, PrintedSame
  <2>q. QED
    BY <1>2, <2>2, <2>4 DEF X, P, IdDependsOn
<1>q. QED
  BY <1>1, <1>2
(***************************************************************************)
(* The system                                                              *)
(***************************************************************************)
DirsState(ds) ==
  /\ DOMAIN ds = 1..Len(ds) /\ Len(ds) \in Nat
  /\ \A i \in DOMAIN ds : \A n \in DOMAIN ds[i] : ds[i][n] \in DOMAIN DirOf \union {None}

\* A service that is loaded comes from files that said what those say now, but of variables.
LoadedFrom(F, p) ==
  /\ FileState(F) /\ FilesAlike(F, files) /\ (OwnVariables => OwnId(F))
  /\ p \in DOMAIN DirOf /\ LoadServiceFile(F, dirs, p).ok
  /\ loaded = Computed(LoadServiceFile(F, dirs, p))

LoadInv ==
  /\ FileState(files) /\ (OwnVariables => OwnId(files))
  /\ DirsState(dirs)
  /\ loaded.ok => \E F, p : LoadedFrom(F, p)

LEMMA LoadInvInit == Init => LoadInv
<1> SUFFICES ASSUME Init PROVE LoadInv
  OBVIOUS
<1>1. PICK l \in Layouts : files = l.files /\ dirs = l.dirs
  BY DEF Init
<1>2. FileState(files)
  BY <1>1, LayoutsAssumption DEF FileState
<1>3. OwnVariables => OwnId(files)
  BY <1>1 DEF OwnVariables, OwnId
<1>4. DirsState(dirs)
  <2>1. dirs \in Seq(Range(dirs))
    BY <1>1, LayoutsAssumption
  <2>2. ASSUME NEW i \in DOMAIN dirs, NEW n \in DOMAIN dirs[i]
        PROVE  dirs[i][n] \in DOMAIN DirOf \union {None}
    <3>1. Range(dirs[i]) \subseteq DOMAIN DirOf \union {None}
      BY <1>1, LayoutsAssumption
    <3>q. QED
      BY <3>1 DEF Range
  <2>q. QED
    BY <2>1, <2>2 DEF DirsState
<1>5. ~loaded.ok
  BY DEF Init, Error
<1>q. QED
  BY <1>2, <1>3, <1>4, <1>5 DEF LoadInv

LEMMA FoundIsFile ==
  ASSUME NEW ds, DirsState(ds), NEW name, ServiceFileByName(ds, name) # None
  PROVE  ServiceFileByName(ds, name) \in DOMAIN DirOf
<1> DEFINE has == {i \in DOMAIN ds : name \in DOMAIN ds[i] /\ ds[i][name] # None}
<1>1. has # {} /\ ServiceFileByName(ds, name) = ds[First(has)][name]
  BY DEF ServiceFileByName
<1>2. has \subseteq Nat
  BY DEF DirsState
<1>3. First(has) \in has
  BY <1>1, <1>2, FirstIsLeast
<1>q. QED
  BY <1>1, <1>3 DEF DirsState

LEMMA LoadInvLoad ==
  ASSUME LoadInv, NEW name, Load(name)
  PROVE  LoadInv'
<1>1. UNCHANGED <<files, dirs>>
  BY DEF Load
<1>2. FileState(files)' /\ (OwnVariables => OwnId(files))' /\ DirsState(dirs)'
  BY <1>1 DEF LoadInv, FileState, WellFormed, InheritFile, OwnId, OwnVariables, DirsState
<1> DEFINE path == ServiceFileByName(dirs, name)
           s == LoadServiceByName(files, dirs, name)
<1>3. CASE s.ok
  <2>1. path # None /\ s = LoadServiceFile(files, dirs, path)
    BY <1>3 DEF LoadServiceByName, Error
  <2>2. path \in DOMAIN DirOf
    BY <2>1, FoundIsFile DEF LoadInv
  <2>3. loaded' = Computed(s)
    BY <1>3 DEF Load
  <2>4. FilesAlike(files, files)
    BY DEF FilesAlike, SaysAlike
  <2>5. PICK F, p : F = files /\ p = path
    OBVIOUS
  <2> HIDE DEF path, s
  <2>6. LoadedFrom(F, p)'
    BY <1>1, <1>3, <2>1, <2>2, <2>3, <2>4, <2>5 DEF LoadedFrom, LoadInv
  <2>q. QED
    BY <1>2, <2>6 DEF LoadInv
<1>4. CASE ~s.ok
  <2>1. ~loaded'.ok
    BY <1>4 DEF Load, Error
  <2>q. QED
    BY <1>2, <2>1 DEF LoadInv
<1>q. QED
  BY <1>3, <1>4

EditedBy(F, e) == [F EXCEPT ![e.file].config = MergeConfig([v \in {e.var} |-> e.value], @)]

\* An edit changes what one file says of a variable.
LEMMA EditIsAlike ==
  ASSUME NEW F, FileState(F), NEW G, NEW e, e.file \in DOMAIN DirOf, F[e.file].json = "valid",
         G = EditedBy(F, e)
  PROVE  /\ FileState(G) /\ FilesAlike(F, G)
         /\ OwnId(F) /\ e.var # "CONDUCTOR_SERVICE_ID" => OwnId(G)
<1> DEFINE c == F[e.file]
           new == MergeConfig([v \in {e.var} |-> e.value], c.config)
           d == [c EXCEPT !.config = new]
<1>1. DOMAIN G = DOMAIN DirOf /\ G[e.file] = d /\ \A f \in DOMAIN DirOf : f # e.file => G[f] = F[f]
  BY DEF FileState, EditedBy
<1>2. DOMAIN c = DOMAIN NoContent /\ c.inherit \in Seq(InheritFile(F)) /\ c.json = "valid"
  BY DEF FileState, WellFormed
<1> HIDE DEF c, new
<1>3. /\ DOMAIN d = DOMAIN NoContent /\ d.json = "valid" /\ d.config = new
      /\ d.inherit = c.inherit /\ d.disable = c.disable /\ d.autoRestart = c.autoRestart
      /\ d.conditions = c.conditions /\ d.template = c.template
      /\ d.parts = c.parts /\ d.hooks = c.hooks
  BY <1>2 DEF NoContent
<1> HIDE DEF d
<1>4. FilesAlike(F, G)
  <2>1. SaysAlike(c, d)
    BY <1>2, <1>3 DEF SaysAlike
  <2>q. QED
    BY <2>1, <1>1 DEF FilesAlike, SaysAlike, c
<1>5. FileState(G)
  <2>1. InheritFile(G) = InheritFile(F)
    BY <1>1 DEF InheritFile, FileState
  <2>2. ASSUME NEW f \in DOMAIN G
        PROVE  /\ G[f].json \in {"missing", "broken", "valid"}
               /\ G[f].json = "valid" => /\ DOMAIN G[f] = DOMAIN NoContent
                                        /\ G[f].inherit \in Seq(InheritFile(G))
    <3>1. CASE f = e.file
      BY <3>1, <1>1, <1>2, <1>3, <2>1
    <3>2. CASE f # e.file
      BY <3>2, <1>1, <2>1 DEF FileState, WellFormed
    <3>q. QED
      BY <3>1, <3>2
  <2>q. QED
    BY <1>1, <2>2 DEF FileState, WellFormed
<1>6. ASSUME OwnId(F), e.var # "CONDUCTOR_SERVICE_ID" PROVE OwnId(G)
  <2>1. "CONDUCTOR_SERVICE_ID" \notin DOMAIN c.config
    BY <1>2, <1>6 DEF OwnId, FileState, c
  <2>2. "CONDUCTOR_SERVICE_ID" \notin DOMAIN new
    BY <2>1, <1>6 DEF MergeConfig, new
  <2>3. ASSUME NEW f \in DOMAIN G, G[f].json = "valid"
        PROVE  "CONDUCTOR_SERVICE_ID" \notin DOMAIN G[f].config
    <3>1. CASE f = e.file
      BY <3>1, <1>1, <1>3, <2>2
    <3>2. CASE f # e.file
      BY <3>2, <1>1, <1>6, <2>3 DEF OwnId, FileState
    <3>q. QED
      BY <3>1, <3>2
  <2>q. QED
    BY <2>3 DEF OwnId
<1>q. QED
  BY <1>4, <1>5, <1>6

LEMMA AlikeTransitive ==
  ASSUME NEW F, NEW G, NEW H, FilesAlike(F, G), FilesAlike(G, H)
  PROVE  FilesAlike(F, H)
BY DEF FilesAlike, SaysAlike

LEMMA LoadInvEdit ==
  ASSUME LoadInv, NEW e \in Edits, Edit(e)
  PROVE  LoadInv'
<1>1. UNCHANGED <<dirs, loaded>>
  BY DEF Edit
<1>2. /\ e.file \in DOMAIN DirOf /\ FileState(files) /\ files[e.file].json = "valid"
      /\ files' = [files EXCEPT ![e.file].config = MergeConfig([v \in {e.var} |-> e.value], @)]
      /\ OwnVariables => OwnId(files) /\ e.var # "CONDUCTOR_SERVICE_ID"
  BY EditsAssumption DEF Edit, LoadInv, OwnVariables
<1>3. PICK F0, G : F0 = files /\ G = files'
  OBVIOUS
<1>4. FileState(G) /\ FilesAlike(files, G) /\ (OwnVariables => OwnId(G))
  <2>1. /\ e.file \in DOMAIN DirOf /\ FileState(F0) /\ F0[e.file].json = "valid"
        /\ G = EditedBy(F0, e)
    BY <1>2, <1>3 DEF EditedBy
  <2>2. FileState(G) /\ FilesAlike(F0, G) /\ (OwnId(F0) /\ e.var # "CONDUCTOR_SERVICE_ID" => OwnId(G))
    BY <2>1, EditIsAlike
  <2>q. QED
    BY <1>2, <1>3, <2>2
<1>5. ASSUME loaded'.ok PROVE (\E F, p : LoadedFrom(F, p))'
  <2>1. PICK F, p : LoadedFrom(F, p)
    BY <1>1, <1>5 DEF LoadInv
  <2>2. FilesAlike(F, G)
    BY <1>4, <2>1, AlikeTransitive DEF LoadedFrom
  <2>3. LoadedFrom(F, p)'
    BY <1>1, <1>3, <2>1, <2>2 DEF LoadedFrom
  <2>q. QED
    BY <2>3
<1>q. QED
  BY <1>1, <1>3, <1>4, <1>5 DEF LoadInv

LEMMA LoadInvInductive == LoadInv /\ [Next]_vars => LoadInv'
<1> SUFFICES ASSUME LoadInv, [Next]_vars PROVE LoadInv'
  OBVIOUS
<1>1. CASE UNCHANGED vars
  BY <1>1 DEF vars, LoadInv, LoadedFrom
<1>2. CASE Next
  BY <1>2, LoadInvLoad, LoadInvEdit DEF Next
<1>q. QED
  BY <1>1, <1>2

\* Loading, editing, and loading again: all that is loaded comes from the files.
LEMMA LoadInvHolds == Spec => []LoadInv
BY LoadInvInit, LoadInvInductive, PTL DEF Spec
(***************************************************************************)
(* Names                                                                   *)
(***************************************************************************)
HasName(name) == name # ""

\* The name of a file is one by which the file is found: of the directories that have the
\* name, the first is the one that gave it.
LEMMA NameFindsFile ==
  ASSUME NEW ds, DirsState(ds), NEW path, path # None, HasName(ServiceNameFromFile(ds, path))
  PROVE  ServiceFileByName(ds, ServiceNameFromFile(ds, path)) = path
<1> DEFINE shown(i) == {n \in DOMAIN ds[i] :
                          ds[i][n] = path /\ \A j \in 1..(i - 1) : n \notin DOMAIN ds[j]}
           at == {i \in DOMAIN ds : shown(i) # {}}
           name == ServiceNameFromFile(ds, path)
           has == {i \in DOMAIN ds : name \in DOMAIN ds[i] /\ ds[i][name] # None}
<1>1. name = IF at = {} THEN "" ELSE CHOOSE n \in shown(First(at)) : TRUE
  BY Zenon DEF ServiceNameFromFile
<1>2. at # {} /\ name = CHOOSE n \in shown(First(at)) : TRUE
  BY <1>1, Zenon DEF HasName
<1>3. at \subseteq Nat /\ has \subseteq Nat /\ DOMAIN ds \subseteq 1..Len(ds) /\ Len(ds) \in Nat
  <2>1. DOMAIN ds \subseteq Nat /\ DOMAIN ds \subseteq 1..Len(ds) /\ Len(ds) \in Nat
    BY DEF DirsState
  <2> HIDE DEF shown, name
  <2>q. QED
    BY <2>1
<1> DEFINE i == First(at)
<1>4. i \in at
  BY <1>2, <1>3, FirstIsLeast
<1>5. name \in shown(i)
  BY <1>2, <1>4
<1> HIDE DEF name, i
<1>6. /\ i \in DOMAIN ds /\ name \in DOMAIN ds[i] /\ ds[i][name] = path
      /\ \A j \in 1..(i - 1) : name \notin DOMAIN ds[j]
  BY <1>4, <1>5
<1>7. i \in has /\ \A j \in has : i <= j
  <2>1. ASSUME NEW j \in has, j < i PROVE FALSE
    <3>1. j \in Nat \ {0} /\ i \in Nat
      BY <1>3, <1>6
    <3>2. j \in 1..(i - 1) /\ name \in DOMAIN ds[j]
      BY <2>1, <3>1
    <3>q. QED
      BY <3>2, <1>6
  <2>2. i \in has
    BY <1>6
  <2> HIDE DEF has
  <2>3. ASSUME NEW j \in has PROVE i <= j
    <3>1. j \in Nat /\ i \in Nat
      BY <1>3, <2>2
    <3>q. QED
      BY <3>1, <2>1
  <2>q. QED
    BY <2>2, <2>3
<1>8. First(has) = i
  <2>1. First(has) \in has /\ \A j \in has : First(has) <= j
    BY <1>3, <1>7, FirstIsLeast
  <2> HIDE DEF has
  <2>2. First(has) \in Nat /\ i \in Nat /\ First(has) <= i /\ i <= First(has)
    BY <1>3, <1>7, <2>1
  <2>q. QED
    BY <2>2
<1>9. ServiceFileByName(ds, name) = IF has = {} THEN None ELSE ds[First(has)][name]
  BY DEF ServiceFileByName
<1>q. QED
  BY <1>6, <1>7, <1>8, <1>9 DEF name

\* Every service that is loaded is found again by the name it gives itself, for all
\* directories: ServiceNameFromFile and ServiceFileByName agree (config.go:172).
THEOREM LoadedNameIsFound == Spec => []NameIsFound
<1>1. LoadInv => NameIsFound
  <2>1. SUFFICES ASSUME LoadInv, loaded.ok, HasName(loaded.service.name)
                 PROVE  ServiceFileByName(dirs, loaded.service.name) = loaded.service.fileName
    BY Zenon DEF NameIsFound, HasName
  <2>2. PICK F, p : LoadedFrom(F, p)
    BY <2>1 DEF LoadInv
  <2> DEFINE s == LoadServiceFile(F, dirs, p)
  <2>3. loaded.service = s
    BY <2>2 DEF LoadedFrom, Computed
  <2>4. s.fileName = p /\ s.name = ServiceNameFromFile(dirs, p)
    <3>1. None \notin DOMAIN DirOf /\ FuelOfLoad \in Nat
      BY FilesAssumption, FuelAssumption
    <3>2. /\ WellFormed(F) /\ Closed(F, DOMAIN F) /\ p \in DOMAIN F /\ None \notin DOMAIN F
          /\ None \notin Range(Chain(F, p))
      BY <2>2, <3>1, DomainClosed, LoadMakes DEF LoadedFrom, FileState
    <3>3. s.fileName = p
      BY <3>1, <3>2, LoadValue
    <3>4. s = Finished(Made(F, p), SetFile(F)[FuelOfLoad][p][None], ServiceNameFromFile(dirs, p))
      BY <2>2, <3>1, LoadMakes DEF LoadedFrom
    <3>5. DOMAIN Made(F, p) = DOMAIN NewService
      BY <3>1, <3>2, ChainEnds, OverlaidFields DEF Made
    <3>6. FieldsOf(Made(F, p), SetFile(F)[FuelOfLoad][p][None], ServiceNameFromFile(dirs, p))
      BY <3>5, FieldsLoaded
    <3>7. s.name = ServiceNameFromFile(dirs, p)
      BY <3>4, <3>6 DEF FieldsOf
    <3>q. QED
      BY <3>3, <3>7
  <2>5. DirsState(dirs) /\ p # None
    BY <2>1, <2>2, FilesAssumption DEF LoadInv, LoadedFrom
  <2> HIDE DEF s
  <2>q. QED
    BY <2>1, <2>3, <2>4, <2>5, NameFindsFile
<1>q. QED
  BY <1>1, LoadInvHolds, PTL

(***************************************************************************)
(* Ids                                                                     *)
(***************************************************************************)
\* The part ids of two services are about the same parts, if both have some.
LEMMA IdsOf ==
  ASSUME NEW s, PartIds(s).outcome = "ok"
  PROVE  \A i \in DOMAIN s.parts : PartIds(s).items[i] = PartId(s, s.parts[i])
BY DEF PartIds, Outcome

\* What an edit changes of the ids is the same for all files: the ids of the parts that
\* leave the variable in, and are no template's or one's that prints it or the id of the
\* service; that no file has a variable with the name of that id is needed.
THEOREM LoadedEditsChangeIds ==
  ASSUME OwnVariables
  PROVE  Spec => EditsChangeIds
<1> DEFINE Step ==
      loaded.ok /\ loaded'.ok /\ loaded.service.fileName = loaded'.service.fileName
     /\ {loaded.ids.outcome, loaded'.ids.outcome} = {"ok"} =>
       LET old == loaded.service.config
           new == loaded'.service.config
           changed == {v \in DOMAIN old \union DOMAIN new : ValueIn(old, v) # ValueIn(new, v)}
       IN \A i \in DOMAIN loaded.service.parts :
            LET p == loaded.service.parts[i]
                seen == changed \ Given(p.exclude, {})
                prints == Prints[p.template.text]
            IN (loaded.ids.items[i] # loaded'.ids.items[i]) <=>
                 IF p.template = None THEN seen # {}
                 ELSE \/ seen \intersect prints # {}
                      \/ changed # {} /\ "CONDUCTOR_SERVICE_ID" \in prints
<1>1. ASSUME LoadInv, LoadInv', [Next]_vars PROVE Step
  <2>1. SUFFICES ASSUME loaded.ok, loaded'.ok, loaded.service.fileName = loaded'.service.fileName,
                        loaded.ids.outcome = "ok", loaded'.ids.outcome = "ok",
                        NEW i \in DOMAIN loaded.service.parts
                 PROVE  loaded.ids.items[i] # loaded'.ids.items[i] <=>
                          IdDependsOn(loaded.service.parts[i],
                                      Changed(loaded.service.config, loaded'.service.config))
    BY DEF Changed, Id, IdDependsOn
  <2>2. PICK F, p : LoadedFrom(F, p)
    BY <1>1, <2>1 DEF LoadInv
  <2>3. PICK G, q : LoadedFrom(G, q)'
    BY <1>1, <2>1 DEF LoadInv
  <2>4. dirs' = dirs
    BY <1>1 DEF Next, Load, Edit, vars
  <2>5. PICK ds : ds = dirs
    OBVIOUS
  <2> DEFINE s == LoadServiceFile(F, ds, p)
             t == LoadServiceFile(G, ds, q)
  <2>6. /\ FileState(F) /\ OwnId(F) /\ p \in DOMAIN DirOf /\ s.ok /\ loaded = Computed(s)
        /\ FilesAlike(F, files)
    BY <2>2, <2>5 DEF LoadedFrom
  <2>7. /\ FileState(G) /\ OwnId(G) /\ q \in DOMAIN DirOf /\ t.ok /\ loaded' = Computed(t)
        /\ FilesAlike(G, files')
    BY <2>3, <2>4, <2>5 DEF LoadedFrom
  <2>8. None \notin DOMAIN DirOf /\ FuelOfLoad \in Nat
    BY FilesAssumption, FuelAssumption
  <2>9. FilesAlike(F, G)
    <3>1. FilesAlike(files, files')
      <4>1. CASE files' = files
        BY <4>1 DEF FilesAlike, SaysAlike
      <4>2. ASSUME NEW e \in Edits, Edit(e) PROVE FilesAlike(files, files')
        <5>1. PICK F0, G0 : F0 = files /\ G0 = files'
          OBVIOUS
        <5>2. /\ e.file \in DOMAIN DirOf /\ FileState(F0) /\ F0[e.file].json = "valid"
              /\ G0 = EditedBy(F0, e)
          BY <1>1, <4>2, <5>1, EditsAssumption DEF Edit, EditedBy, LoadInv
        <5>3. FilesAlike(F0, G0)
          BY <5>2, EditIsAlike
        <5>q. QED
          BY <5>1, <5>3
      <4>3. files' = files \/ \E e \in Edits : Edit(e)
        BY <1>1 DEF Next, Load, vars
      <4>q. QED
        BY <4>1, <4>2, <4>3
    <3>q. QED
      BY <2>6, <2>7, <3>1 DEF FilesAlike, SaysAlike
  <2>10. s.fileName = p /\ t.fileName = q
    <3>1. /\ WellFormed(F) /\ Closed(F, DOMAIN F) /\ p \in DOMAIN F /\ None \notin DOMAIN F
          /\ None \notin Range(Chain(F, p))
      BY <2>6, <2>8, DomainClosed, LoadMakes DEF FileState
    <3>2. /\ WellFormed(G) /\ Closed(G, DOMAIN G) /\ q \in DOMAIN G /\ None \notin DOMAIN G
          /\ None \notin Range(Chain(G, q))
      BY <2>7, <2>8, DomainClosed, LoadMakes DEF FileState
    <3>q. QED
      BY <2>8, <3>1, <3>2, LoadValue
  <2>11. /\ loaded.service = s /\ loaded.ids = PartIds(s)
         /\ loaded'.service = t /\ loaded'.ids = PartIds(t)
    BY <2>6, <2>7 DEF Computed
  <2>12. p = q
    BY <2>1, <2>10, <2>11
  <2>13. MadeAlike(s, t) /\ Id \notin DOMAIN s.config /\ Id \notin DOMAIN t.config
    BY <2>6, <2>7, <2>8, <2>9, <2>12, LoadsAlike, LoadsOwnId DEF Id
  <2> HIDE DEF s, t
  <2>14. i \in DOMAIN s.parts /\ t.parts = s.parts
    BY <2>1, <2>11, <2>13 DEF MadeAlike
  <2>15. /\ loaded.ids.items[i] = PartId(s, s.parts[i])
         /\ loaded'.ids.items[i] = PartId(t, s.parts[i])
    BY <2>1, <2>11, <2>14, IdsOf
  <2>q. QED
    BY <2>11, <2>13, <2>15, PartIdChanges
<1>2. LoadInv /\ LoadInv' /\ [Next]_vars => [Step]_vars
  BY <1>1
<1>3. Spec => [][Step]_vars
  <2> HIDE DEF Step
  <2>q. QED
    BY <1>2, LoadInvHolds, PTL DEF Spec
<1>q. QED
  BY <1>3 DEF EditsChangeIds
=============================================================================
