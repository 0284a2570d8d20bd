------------------------ MODULE ServiceConfig_proofs ------------------------
(***************************************************************************)
(* What loading the configuration of a service depends on.                 *)
(*                                                                         *)
(* Loading is defined by functions that are recursive on the depth of the  *)
(* inheritance or on a position.  The first lemmas give induction on the   *)
(* natural numbers and say that these functions are what their definitions *)
(* say they are; the others are about two states of the files.             *)
(***************************************************************************)
EXTENDS ServiceConfig, WellFoundedInduction, TLAPS

(***************************************************************************)
(* Induction                                                               *)
(***************************************************************************)
\* Each set of natural numbers has a least one.
LEMMA LeastExists ==
  ASSUME NEW T, T \subseteq Nat, T # {}
  PROVE  \E x \in T : \A y \in T : x <= y
<1> DEFINE R == {ss \in Nat \X Nat : ss[1] < ss[2]}
<1>1. IsWellFoundedOn(R, Nat)
  BY NatLessThanWellFounded, Zenon DEF OpToRel
<1>2. \A x, y \in Nat : y < x => <<y, x>> \in R
  OBVIOUS
<1> HIDE DEF R
<1>3. \E x \in T : \A y \in T : ~(<<y, x>> \in R)
  BY <1>1, WFMin
<1>4. PICK x \in T : \A y \in T : ~(<<y, x>> \in R)
  BY <1>3
<1>5. ASSUME NEW y \in T PROVE x <= y
  <2>1. ~(y < x)
    BY <1>2, <1>4
  <2>q. QED
    BY <2>1
<1>q. QED
  BY <1>5

\* A set that has 0 and is closed under the successor has all natural numbers.
LEMMA NatSet ==
  ASSUME NEW S, 0 \in S, \A n \in Nat : n \in S => n + 1 \in S
  PROVE  \A n \in Nat : n \in S
<1>1. SUFFICES ASSUME NEW n \in Nat, n \notin S PROVE FALSE
  OBVIOUS
<1> DEFINE T == {m \in Nat : m \notin S}
<1>2. PICK x \in T : \A y \in T : x <= y
  BY <1>1, LeastExists
<1>3. x - 1 \in Nat /\ x - 1 \in S
  BY <1>2
<1>q. QED
  BY <1>2, <1>3

\* And the greatest one if it has no greater ones than some number.
LEMMA GreatestExists ==
  ASSUME NEW n \in Nat, NEW T, T \subseteq 1..n, T # {}
  PROVE  \E x \in T : \A y \in T : x >= y
<1> DEFINE U == {n - x : x \in T}
<1>1. U \subseteq Nat /\ U # {}
  <2>1. ASSUME NEW x \in T PROVE n - x \in Nat
    OBVIOUS
  <2>q. QED
    BY <2>1
<1>2. PICK u \in U : \A w \in U : u <= w
  BY <1>1, LeastExists
<1>3. PICK x \in T : u = n - x
  BY <1>2
<1>4. ASSUME NEW y \in T PROVE x >= y
  <2>1. n - y \in U
    OBVIOUS
  <2>q. QED
    BY <2>1, <1>2, <1>3
<1>q. QED
  BY <1>4

LEMMA FirstIsLeast ==
  ASSUME NEW S, S \subseteq Nat, S # {}
  PROVE  First(S) \in S /\ \A j \in S : First(S) <= j
BY LeastExists DEF First

(***************************************************************************)
(* The recursive functions                                                 *)
(***************************************************************************)
OverlaidStep(files, paths, s, i) ==
  IF Exists(files[paths[i]]) THEN Overlay(s, paths[i], files[paths[i]]) ELSE s

\* What has been overlaid up to a position is what the definition says.
LEMMA OverlaidUnfolds ==
  ASSUME NEW files, NEW paths, Len(paths) \in Nat
  PROVE  Overlaid(files, paths) =
           [i \in 0..Len(paths) |->
              IF i = 0 THEN NewService
              ELSE OverlaidStep(files, paths, Overlaid(files, paths)[i - 1], i)]
<1> DEFINE Def(g, i) == IF i = 0 THEN NewService ELSE OverlaidStep(files, paths, g[i - 1], i)
           S == {n \in Nat : \E g : g = [i \in 0..n |-> Def(g, i)]}
<1>1. 0 \in S
  <2> DEFINE g == [i \in 0..0 |-> NewService]
  <2>1. g = [i \in 0..0 |-> Def(g, i)]
    OBVIOUS
  <2>q. QED
    BY <2>1
<1>2. ASSUME NEW n \in Nat, n \in S PROVE n + 1 \in S
  <2>1. PICK g : g = [i \in 0..n |-> Def(g, i)]
    BY <1>2
  <2> DEFINE h == [i \in 0..(n + 1) |-> IF i = n + 1 THEN OverlaidStep(files, paths, g[n], n + 1) ELSE g[i]]
  <2>2. ASSUME NEW i \in 0..(n + 1) PROVE h[i] = Def(h, i)
    <3>1. CASE i = 0
      BY <2>1, <3>1
    <3>2. CASE i # 0 /\ i # n + 1
      <4>1. i \in 0..n /\ i - 1 \in 0..(n + 1) /\ i - 1 # n + 1
        BY <3>2
      <4>2. h[i] = g[i] /\ h[i - 1] = g[i - 1]
        BY <4>1, <3>2
      <4>3. g[i] = Def(g, i)
        BY <2>1, <4>1
      <4>q. QED
        BY <4>2, <4>3, <3>2
    <3>3. CASE i = n + 1
      <4>1. h[n] = g[n] /\ i - 1 = n
        BY <3>3
      <4>q. QED
        BY <4>1, <3>3
    <3>q. QED
      BY <3>1, <3>2, <3>3
  <2>3. h = [i \in 0..(n + 1) |-> Def(h, i)]
    BY <2>2
  <2> HIDE DEF h, Def
  <2>q. QED
    BY <2>3
<1> HIDE DEF Def
<1>3. \E g : g = [i \in 0..Len(paths) |-> Def(g, i)]
  <2>1. Len(paths) \in S
    BY <1>1, <1>2, NatSet
  <2>q. QED
    BY <2>1
<1>4. Overlaid(files, paths) = CHOOSE g : g = [i \in 0..Len(paths) |-> Def(g, i)]
  BY DEF Overlaid, OverlaidStep, Def
<1>q. QED
  BY <1>3, <1>4 DEF Def

FlattenedStep(seqs, lower, i) == IF i = 1 THEN seqs[i] ELSE lower \o seqs[i]

\* FlattenSeq of a sequence that is not empty.
LEMMA FlattenUnfolds ==
  ASSUME NEW seqs, Len(seqs) \in Nat \ {0}
  PROVE  \E g : /\ g = [i \in 1..Len(seqs) |-> FlattenedStep(seqs, g[i - 1], i)]
                /\ FlattenSeq(seqs) = g[Len(seqs)]
<1> DEFINE Def(g, i) == FlattenedStep(seqs, g[i - 1], i)
           S == {n \in Nat : \E g : g = [i \in 1..n |-> Def(g, i)]}
<1>1. 0 \in S
  <2> DEFINE g == [i \in 1..0 |-> seqs[i]]
  <2>1. g = [i \in 1..0 |-> Def(g, i)]
    OBVIOUS
  <2>q. QED
    BY <2>1
<1>2. ASSUME NEW n \in Nat, n \in S PROVE n + 1 \in S
  <2>1. PICK g : g = [i \in 1..n |-> Def(g, i)]
    BY <1>2
  <2> DEFINE h == [i \in 1..(n + 1) |-> IF i = n + 1 THEN FlattenedStep(seqs, g[n], n + 1) ELSE g[i]]
  <2>2. ASSUME NEW i \in 1..(n + 1) PROVE h[i] = Def(h, i)
    <3>1. CASE i # n + 1 /\ i # 1
      <4>1. i \in 1..n /\ i - 1 \in 1..(n + 1) /\ i - 1 # n + 1
        BY <3>1
      <4>2. h[i] = g[i] /\ h[i - 1] = g[i - 1]
        BY <4>1, <3>1
      <4>3. g[i] = Def(g, i)
        BY <2>1, <4>1
      <4>q. QED
        BY <4>2, <4>3
    <3>2. CASE i # n + 1 /\ i = 1
      <4>1. i \in 1..n
        BY <3>2
      <4>2. h[i] = g[i] /\ g[i] = Def(g, i)
        BY <2>1, <4>1, <3>2
      <4>q. QED
        BY <4>2, <3>2 DEF FlattenedStep
    <3>3. CASE i = n + 1 /\ i # 1
      <4>1. n \in 1..(n + 1) /\ n # n + 1
        BY <3>3
      <4>2. h[n] = g[n] /\ i - 1 = n
        BY <4>1, <3>3
      <4>q. QED
        BY <4>2, <3>3
    <3>4. CASE i = n + 1 /\ i = 1
      BY <3>4 DEF FlattenedStep
    <3>q. QED
      BY <3>1, <3>2, <3>3, <3>4
  <2>3. h = [i \in 1..(n + 1) |-> Def(h, i)]
    BY <2>2
  <2> HIDE DEF h, Def
  <2>q. QED
    BY <2>3
<1> HIDE DEF Def
<1>3. \E g : g = [i \in 1..Len(seqs) |-> Def(g, i)]
  <2>1. Len(seqs) \in S
    BY <1>1, <1>2, NatSet
  <2>q. QED
    BY <2>1
<1> DEFINE flatten == CHOOSE g : g = [i \in 1..Len(seqs) |-> Def(g, i)]
<1>4. flatten = [i \in 1..Len(seqs) |-> Def(flatten, i)]
  BY <1>3
<1>5. FlattenSeq(seqs) = flatten[Len(seqs)]
  BY DEF FlattenSeq, FlattenedStep, Def
<1> HIDE DEF flatten
<1>q. QED
  BY <1>4, <1>5 DEF Def

LEMMA RangeOfConcat ==
  ASSUME NEW T, NEW s \in Seq(T), NEW t \in Seq(T)
  PROVE  Range(s \o t) = Range(s) \union Range(t)
<1>1. DOMAIN (s \o t) = 1..(Len(s) + Len(t))
  OBVIOUS
<1>2. ASSUME NEW x \in Range(s \o t) PROVE x \in Range(s) \union Range(t)
  <2>1. PICK i \in 1..(Len(s) + Len(t)) : x = (s \o t)[i]
    BY <1>1, <1>2 DEF Range
  <2>2. CASE i <= Len(s)
    <3>1. x = s[i] /\ i \in DOMAIN s
      BY <2>1, <2>2
    <3>q. QED
      BY <3>1 DEF Range
  <2>3. CASE i > Len(s)
    <3>1. x = t[i - Len(s)] /\ i - Len(s) \in DOMAIN t
      BY <2>1, <2>3
    <3>q. QED
      BY <3>1 DEF Range
  <2>q. QED
    BY <2>1, <2>2, <2>3
<1>3. ASSUME NEW i \in DOMAIN s PROVE s[i] \in Range(s \o t)
  <2>1. s[i] = (s \o t)[i] /\ i \in 1..(Len(s) + Len(t))
    OBVIOUS
  <2>q. QED
    BY <1>1, <2>1 DEF Range
<1>4. ASSUME NEW i \in DOMAIN t PROVE t[i] \in Range(s \o t)
  <2>1. t[i] = (s \o t)[Len(s) + i] /\ Len(s) + i \in 1..(Len(s) + Len(t))
    OBVIOUS
  <2>q. QED
    BY <1>1, <2>1 DEF Range
<1>q. QED
  BY <1>2, <1>3, <1>4 DEF Range

\* What is in a sequence of sequences laid end to end.
LEMMA Flattened ==
  ASSUME NEW T, NEW seqs \in Seq(Seq(T))
  PROVE  /\ FlattenSeq(seqs) \in Seq(T)
         /\ Range(FlattenSeq(seqs)) = UNION {Range(seqs[i]) : i \in DOMAIN seqs}
<1>1. CASE Len(seqs) = 0
  <2>1. seqs = <<>> /\ FlattenSeq(seqs) = <<>>
    BY <1>1 DEF FlattenSeq
  <2>2. FlattenSeq(seqs) \in Seq(T)
    <3>1. <<>> \in Seq(T)
      OBVIOUS
    <3>q. QED
      BY <2>1, <3>1, Zenon
  <2>3. Range(<<>>) = {}
    BY DEF Range
  <2>4. UNION {Range(seqs[i]) : i \in DOMAIN seqs} = {}
    BY <2>1
  <2>q. QED
    BY <2>1, <2>2, <2>3, <2>4
<1>2. CASE Len(seqs) # 0
  <2>1. PICK g : /\ g = [i \in 1..Len(seqs) |-> FlattenedStep(seqs, g[i - 1], i)]
                 /\ FlattenSeq(seqs) = g[Len(seqs)]
    BY <1>2, FlattenUnfolds
  <2> DEFINE Good(i) == /\ g[i] \in Seq(T)
                        /\ Range(g[i]) = UNION {Range(seqs[j]) : j \in 1..i}
             S == {n \in Nat : n \in 1..Len(seqs) => Good(n)}
  <2>2. 0 \in S
    OBVIOUS
  <2>3. ASSUME NEW n \in Nat, n \in S PROVE n + 1 \in S
    <3>1. SUFFICES ASSUME n + 1 \in 1..Len(seqs) PROVE Good(n + 1)
      OBVIOUS
    <3>2. seqs[n + 1] \in Seq(T)
      BY <3>1
    <3>3. CASE n = 0
      <4>1. g[n + 1] = seqs[n + 1]
        BY <2>1, <3>1, <3>3 DEF FlattenedStep
      <4>2. 1..(n + 1) = {1}
        BY <3>3
      <4>q. QED
        BY <4>1, <4>2, <3>2, <3>3
    <3>4. CASE n # 0
      <4>1. Good(n)
        BY <2>3, <3>1, <3>4
      <4>2. g[n + 1] = g[n] \o seqs[n + 1]
        <5>1. g[n + 1] = FlattenedStep(seqs, g[(n + 1) - 1], n + 1)
          BY <2>1, <3>1
        <5>2. (n + 1) - 1 = n /\ n + 1 # 1
          BY <3>4
        <5>q. QED
          BY <5>1, <5>2 DEF FlattenedStep
      <4>3. g[n + 1] \in Seq(T)
        BY <4>1, <4>2, <3>2
      <4>4. Range(g[n + 1]) = Range(g[n]) \union Range(seqs[n + 1])
        BY <4>1, <4>2, <3>2, RangeOfConcat
      <4>5. 1..(n + 1) = 1..n \union {n + 1}
        OBVIOUS
      <4>q. QED
        BY <4>1, <4>3, <4>4, <4>5
    <3>q. QED
      BY <3>3, <3>4
  <2> HIDE DEF Good
  <2> HIDE DEF S
  <2>4. Len(seqs) \in S
    <3>1. \A n \in Nat : n \in S
      BY <2>2, <2>3, NatSet
    <3>q. QED
      BY <3>1
  <2>5. Good(Len(seqs))
    BY <2>4, <1>2 DEF S
  <2>6. DOMAIN seqs = 1..Len(seqs)
    OBVIOUS
  <2>q. QED
    BY <2>1, <2>5, <2>6 DEF Good
<1>q. QED
  BY <1>1, <1>2

VisitedStep(files, lower, depth) ==
  IF depth = 0
  THEN [path \in DOMAIN files |->
          IF files[path].json = "valid" /\ files[path].inherit = <<>> THEN <<path>> ELSE <<None>>]
  ELSE [path \in DOMAIN files |-> VisitedFrom(files, path, lower)]

LEMMA VisitedUnfolds ==
  ASSUME NEW files, FuelOfLoad \in Nat
  PROVE  Visited(files) =
           [depth \in 0..FuelOfLoad |-> VisitedStep(files, Visited(files)[depth - 1], depth)]
<1> DEFINE Def(g, i) == VisitedStep(files, g[i - 1], i)
           S == {n \in Nat : \E g : g = [i \in 0..n |-> Def(g, i)]}
<1>1. 0 \in S
  <2> DEFINE g == [i \in 0..0 |-> VisitedStep(files, None, 0)]
  <2>1. g = [i \in 0..0 |-> Def(g, i)]
    BY DEF VisitedStep
  <2>q. QED
    BY <2>1
<1>2. ASSUME NEW n \in Nat, n \in S PROVE n + 1 \in S
  <2>1. PICK g : g = [i \in 0..n |-> Def(g, i)]
    BY <1>2
  <2> DEFINE h == [i \in 0..(n + 1) |-> IF i = n + 1 THEN VisitedStep(files, g[n], n + 1) ELSE g[i]]
  <2>2. ASSUME NEW i \in 0..(n + 1) PROVE h[i] = Def(h, i)
    <3>1. CASE i = 0
      <4>1. h[i] = g[i] /\ g[i] = VisitedStep(files, g[0 - 1], 0)
        BY <2>1, <3>1
      <4>q. QED
        BY <4>1, <3>1 DEF VisitedStep
    <3>2. CASE i # 0 /\ i # n + 1
      <4>1. i \in 0..n /\ i - 1 \in 0..(n + 1) /\ i - 1 # n + 1
        BY <3>2
      <4>2. h[i] = g[i] /\ h[i - 1] = g[i - 1]
        BY <4>1, <3>2
      <4>3. g[i] = Def(g, i)
        BY <2>1, <4>1
      <4>q. QED
        BY <4>2, <4>3, <3>2
    <3>3. CASE i = n + 1
      <4>1. h[n] = g[n] /\ i - 1 = n
        BY <3>3
      <4>q. QED
        BY <4>1, <3>3
    <3>q. QED
      BY <3>1, <3>2, <3>3
  <2>3. h = [i \in 0..(n + 1) |-> Def(h, i)]
    BY <2>2
  <2> HIDE DEF h, Def
  <2>q. QED
    BY <2>3
<1> HIDE DEF Def
<1>3. \E g : g = [i \in 0..FuelOfLoad |-> Def(g, i)]
  <2>1. FuelOfLoad \in S
    BY <1>1, <1>2, NatSet
  <2>q. QED
    BY <2>1
<1>4. Visited(files) = CHOOSE g : g = [i \in 0..FuelOfLoad |-> Def(g, i)]
  BY DEF Visited, VisitedStep, Def
<1>q. QED
  BY <1>3, <1>4 DEF Def

SetFileStep(files, lower, depth) ==
  IF depth = 0 THEN [path \in DOMAIN files |-> Keep(files)]
  ELSE [path \in DOMAIN files |-> SetFileFrom(files, path, lower)]

LEMMA SetFileUnfolds ==
  ASSUME NEW files, FuelOfLoad \in Nat
  PROVE  SetFile(files) =
           [depth \in 0..FuelOfLoad |-> SetFileStep(files, SetFile(files)[depth - 1], depth)]
<1> DEFINE Def(g, i) == SetFileStep(files, g[i - 1], i)
           S == {n \in Nat : \E g : g = [i \in 0..n |-> Def(g, i)]}
<1>1. 0 \in S
  <2> DEFINE g == [i \in 0..0 |-> SetFileStep(files, None, 0)]
  <2>1. g = [i \in 0..0 |-> Def(g, i)]
    BY DEF SetFileStep
  <2>q. QED
    BY <2>1
<1>2. ASSUME NEW n \in Nat, n \in S PROVE n + 1 \in S
  <2>1. PICK g : g = [i \in 0..n |-> Def(g, i)]
    BY <1>2
  <2> DEFINE h == [i \in 0..(n + 1) |-> IF i = n + 1 THEN SetFileStep(files, g[n], n + 1) ELSE g[i]]
  <2>2. ASSUME NEW i \in 0..(n + 1) PROVE h[i] = Def(h, i)
    <3>1. CASE i = 0
      <4>1. h[i] = g[i] /\ g[i] = SetFileStep(files, g[0 - 1], 0)
        BY <2>1, <3>1
      <4>q. QED
        BY <4>1, <3>1 DEF SetFileStep
    <3>2. CASE i # 0 /\ i # n + 1
      <4>1. i \in 0..n /\ i - 1 \in 0..(n + 1) /\ i - 1 # n + 1
        BY <3>2
      <4>2. h[i] = g[i] /\ h[i - 1] = g[i - 1]
        BY <4>1, <3>2
      <4>3. g[i] = Def(g, i)
        BY <2>1, <4>1
      <4>q. QED
        BY <4>2, <4>3, <3>2
    <3>3. CASE i = n + 1
      <4>1. h[n] = g[n] /\ i - 1 = n
        BY <3>3
      <4>q. QED
        BY <4>1, <3>3
    <3>q. QED
      BY <3>1, <3>2, <3>3
  <2>3. h = [i \in 0..(n + 1) |-> Def(h, i)]
    BY <2>2
  <2> HIDE DEF h, Def
  <2>q. QED
    BY <2>3
<1> HIDE DEF Def
<1>3. \E g : g = [i \in 0..FuelOfLoad |-> Def(g, i)]
  <2>1. FuelOfLoad \in S
    BY <1>1, <1>2, NatSet
  <2>q. QED
    BY <2>1
<1>4. SetFile(files) = CHOOSE g : g = [i \in 0..FuelOfLoad |-> Def(g, i)]
  BY DEF SetFile, SetFileStep, Def
<1>q. QED
  BY <1>3, <1>4 DEF Def

(***************************************************************************)
(* The files that loading visits                                           *)
(***************************************************************************)
Entry(files, e, lower) == IF MayBeMissing(files, e) THEN <<e.path>> ELSE lower[e.path]
Below(files, path, lower) ==
  [i \in DOMAIN files[path].inherit |-> Entry(files, files[path].inherit[i], lower)]

LEMMA VisitedValue ==
  ASSUME FuelOfLoad \in Nat, NEW files, NEW n \in 0..FuelOfLoad, NEW p \in DOMAIN files
  PROVE  /\ files[p].json # "valid" => Visited(files)[n][p] = <<None>>
         /\ files[p].json = "valid" /\ n = 0 =>
              Visited(files)[n][p] = IF files[p].inherit = <<>> THEN <<p>> ELSE <<None>>
         /\ files[p].json = "valid" /\ n # 0 =>
              Visited(files)[n][p] = Append(FlattenSeq(Below(files, p, Visited(files)[n - 1])), p)
<1>1. Visited(files)[n] = VisitedStep(files, Visited(files)[n - 1], n)
  BY VisitedUnfolds
<1>2. CASE n = 0
  BY <1>1, <1>2 DEF VisitedStep
<1>3. CASE n # 0
  <2>1. Visited(files)[n][p] = VisitedFrom(files, p, Visited(files)[n - 1])
    BY <1>1, <1>3 DEF VisitedStep
  <2>q. QED
    BY <2>1, <1>3 DEF VisitedFrom, Below, Entry
<1>q. QED
  BY <1>2, <1>3

LEMMA VisitedIn ==
  ASSUME FuelOfLoad \in Nat, NEW files, WellFormed(files), NEW S, Closed(files, S),
         NEW n \in 0..FuelOfLoad, NEW p \in S
  PROVE  Visited(files)[n][p] \in Seq(S \union {None})
<1> DEFINE T == S \union {None}
           Good(m) == \A q \in S : Visited(files)[m][q] \in Seq(T)
           N == {m \in Nat : m <= FuelOfLoad => Good(m)}
<1>1. ASSUME NEW q \in S PROVE <<q>> \in Seq(T) /\ <<None>> \in Seq(T)
  OBVIOUS
<1>2. S \subseteq DOMAIN files
  BY DEF Closed
<1>3. 0 \in N
  <2>1. ASSUME NEW q \in S PROVE Visited(files)[0][q] \in {<<q>>, <<None>>}
    <3>1. 0 \in 0..FuelOfLoad /\ q \in DOMAIN files
      BY <1>2
    <3>q. QED
      BY <3>1, VisitedValue
  <2>q. QED
    BY <2>1, <1>1
<1>4. ASSUME NEW m \in Nat, m \in N PROVE m + 1 \in N
  <2>1. SUFFICES ASSUME m + 1 <= FuelOfLoad, NEW q \in S
                 PROVE  Visited(files)[m + 1][q] \in Seq(T)
    OBVIOUS
  <2>2. Good(m) /\ m + 1 \in 0..FuelOfLoad /\ (m + 1) - 1 = m /\ m + 1 # 0
    BY <1>4, <2>1
  <2>3. CASE files[q].json # "valid"
    BY <2>2, <2>3, <1>1, <1>2, VisitedValue
  <2>4. CASE files[q].json = "valid"
    <3> DEFINE below == Below(files, q, Visited(files)[m])
    <3>1. files[q].inherit \in Seq(InheritFile(files))
      BY <1>2, <2>4 DEF WellFormed
    <3>2. ASSUME NEW i \in DOMAIN files[q].inherit
          PROVE  Entry(files, files[q].inherit[i], Visited(files)[m]) \in Seq(T)
      <4>1. files[q].inherit[i].path \in S
        BY <2>4 DEF Closed
      <4>q. QED
        BY <4>1, <1>1, <2>2 DEF Entry
    <3>3. below \in Seq(Seq(T))
      <4>1. DOMAIN files[q].inherit = 1..Len(files[q].inherit) /\ Len(files[q].inherit) \in Nat
        BY <3>1
      <4>q. QED
        BY <4>1, <3>2 DEF Below
    <3>4. FlattenSeq(below) \in Seq(T)
      BY <3>3, Flattened
    <3>5. Visited(files)[m + 1][q] = Append(FlattenSeq(below), q)
      BY <2>2, <2>4, <1>2, VisitedValue
    <3> HIDE DEF below
    <3>q. QED
      BY <3>4, <3>5
  <2>q. QED
    BY <2>3, <2>4
<1> HIDE DEF N
<1>5. n \in N
  <2>1. \A m \in Nat : m \in N
    BY <1>3, <1>4, NatSet
  <2>q. QED
    BY <2>1
<1>q. QED
  BY <1>5 DEF N

LEMMA RangeOfAppend ==
  ASSUME NEW T, NEW s \in Seq(T), NEW x
  PROVE  Range(Append(s, x)) = Range(s) \union {x}
<1>1. DOMAIN Append(s, x) = 1..(Len(s) + 1) /\ DOMAIN s = 1..Len(s) /\ Len(s) \in Nat
  OBVIOUS
<1>2. \A i \in 1..(Len(s) + 1) : Append(s, x)[i] = IF i = Len(s) + 1 THEN x ELSE s[i]
  OBVIOUS
<1>3. Range(Append(s, x)) \subseteq Range(s) \union {x}
  BY <1>1, <1>2 DEF Range
<1>4. ASSUME NEW i \in 1..Len(s) PROVE s[i] \in Range(Append(s, x))
  <2>1. i \in 1..(Len(s) + 1) /\ i # Len(s) + 1
    BY <1>1
  <2>2. Append(s, x)[i] = s[i]
    BY <1>2, <2>1
  <2>q. QED
    BY <1>1, <2>1, <2>2 DEF Range
<1>5. x \in Range(Append(s, x))
  <2>1. Len(s) + 1 \in 1..(Len(s) + 1)
    BY <1>1
  <2>2. Append(s, x)[Len(s) + 1] = x
    BY <1>2, <2>1
  <2>q. QED
    BY <1>1, <2>1, <2>2 DEF Range
<1>q. QED
  BY <1>1, <1>3, <1>4, <1>5 DEF Range

SetBelow(files, path, lower) ==
  [i \in DOMAIN files[path].inherit |->
     IF MayBeMissing(files, files[path].inherit[i]) THEN Keep(files)
     ELSE lower[files[path].inherit[i].path]]

SetByAll(files, path, lower) ==
  [set \in Places(files) |-> SetByEntries(files[path].inherit, SetBelow(files, path, lower), set)]

LEMMA SetFileValue ==
  ASSUME FuelOfLoad \in Nat, NEW files, NEW n \in 0..FuelOfLoad, NEW p \in DOMAIN files
  PROVE  /\ files[p].json # "valid" \/ n = 0 => SetFile(files)[n][p] = Keep(files)
         /\ files[p].json = "valid" /\ n # 0 =>
              SetFile(files)[n][p] = SetByAll(files, p, SetFile(files)[n - 1])
<1>1. SetFile(files)[n] = SetFileStep(files, SetFile(files)[n - 1], n)
  BY SetFileUnfolds
<1>2. CASE n = 0
  BY <1>1, <1>2 DEF SetFileStep
<1>3. CASE n # 0
  <2>1. SetFile(files)[n][p] = SetFileFrom(files, p, SetFile(files)[n - 1])
    BY <1>1, <1>3 DEF SetFileStep
  <2>q. QED
    BY <2>1, <1>3 DEF SetFileFrom, SetByAll, SetBelow
<1>q. QED
  BY <1>2, <1>3

PlaceFor(inherit, set, i, place) == IF set = None /\ inherit[i].setConfig THEN inherit[i].path ELSE place

LEMMA SetByUnfolds ==
  ASSUME NEW inherit, Len(inherit) \in Nat, NEW below, NEW set
  PROVE  \E g : /\ g = [i \in 0..Len(inherit) |->
                          IF i = 0 THEN set ELSE below[i][PlaceFor(inherit, set, i, g[i - 1])]]
                /\ SetByEntries(inherit, below, set) = g[Len(inherit)]
<1> DEFINE Def(g, i) == IF i = 0 THEN set ELSE below[i][PlaceFor(inherit, set, i, g[i - 1])]
           S == {n \in Nat : \E g : g = [i \in 0..n |-> Def(g, i)]}
<1>1. 0 \in S
  <2> DEFINE g == [i \in 0..0 |-> set]
  <2>1. g = [i \in 0..0 |-> Def(g, i)]
    OBVIOUS
  <2>q. QED
    BY <2>1
<1>2. ASSUME NEW n \in Nat, n \in S PROVE n + 1 \in S
  <2>1. PICK g : g = [i \in 0..n |-> Def(g, i)]
    BY <1>2
  <2> DEFINE h == [i \in 0..(n + 1) |->
                     IF i = n + 1 THEN below[i][PlaceFor(inherit, set, i, g[n])] ELSE g[i]]
  <2>2. ASSUME NEW i \in 0..(n + 1) PROVE h[i] = Def(h, i)
    <3>1. CASE i = 0
      BY <2>1, <3>1
    <3>2. CASE i # 0 /\ i # n + 1
      <4>1. i \in 0..n /\ i - 1 \in 0..(n + 1) /\ i - 1 # n + 1
        BY <3>2
      <4>2. h[i] = g[i] /\ h[i - 1] = g[i - 1]
        BY <4>1, <3>2
      <4>3. g[i] = Def(g, i)
        BY <2>1, <4>1
      <4>q. QED
        BY <4>2, <4>3, <3>2
    <3>3. CASE i = n + 1
      <4>1. h[n] = g[n] /\ i - 1 = n
        BY <3>3
      <4>q. QED
        BY <4>1, <3>3
    <3>q. QED
      BY <3>1, <3>2, <3>3
  <2>3. h = [i \in 0..(n + 1) |-> Def(h, i)]
    BY <2>2
  <2> HIDE DEF h, Def
  <2>q. QED
    BY <2>3
<1> HIDE DEF Def
<1>3. \E g : g = [i \in 0..Len(inherit) |-> Def(g, i)]
  <2>1. Len(inherit) \in S
    BY <1>1, <1>2, NatSet
  <2>q. QED
    BY <2>1
<1> DEFINE at == CHOOSE g : g = [i \in 0..Len(inherit) |-> Def(g, i)]
<1>4. SetByEntries(inherit, below, set) = at[Len(inherit)]
  BY DEF SetByEntries, Def, PlaceFor
<1>5. at = [i \in 0..Len(inherit) |-> Def(at, i)]
  BY <1>3
<1> HIDE DEF at
<1>q. QED
  BY <1>4, <1>5 DEF Def

LEMMA SetByNoEntries ==
  ASSUME NEW inherit, NEW below, NEW set, inherit = <<>>
  PROVE  SetByEntries(inherit, below, set) = set
<1>1. Len(inherit) = 0
  OBVIOUS
<1>q. QED
  BY <1>1, SetByUnfolds

LEMMA SetByIsEntry ==
  ASSUME NEW T, NEW inherit, Len(inherit) \in Nat, NEW set \in T,
         \A i \in 1..Len(inherit) : inherit[i].path \in T,
         NEW below, \A i \in 1..Len(inherit) : \A v \in T : below[i][v] \in T
  PROVE  SetByEntries(inherit, below, set) \in T
<1>1. PICK g : /\ g = [i \in 0..Len(inherit) |->
                         IF i = 0 THEN set ELSE below[i][PlaceFor(inherit, set, i, g[i - 1])]]
               /\ SetByEntries(inherit, below, set) = g[Len(inherit)]
  BY SetByUnfolds
<1> DEFINE N == {n \in Nat : n <= Len(inherit) => g[n] \in T}
<1>2. 0 \in N
  BY <1>1
<1>3. ASSUME NEW n \in Nat, n \in N PROVE n + 1 \in N
  <2>1. SUFFICES ASSUME n + 1 <= Len(inherit) PROVE g[n + 1] \in T
    OBVIOUS
  <2>2. g[n] \in T
    BY <1>3, <2>1
  <2>3. g[n + 1] = below[n + 1][PlaceFor(inherit, set, n + 1, g[n])]
    BY <1>1, <2>1
  <2>4. PlaceFor(inherit, set, n + 1, g[n]) \in T
    BY <2>1, <2>2 DEF PlaceFor
  <2>q. QED
    BY <2>1, <2>3, <2>4
<1> HIDE DEF N
<1>4. Len(inherit) \in N
  <2>1. \A n \in Nat : n \in N
    BY <1>2, <1>3, NatSet
  <2>q. QED
    BY <2>1
<1>q. QED
  BY <1>1, <1>4 DEF N

\* A file that inherits from none.
LEMMA VisitedAlone ==
  ASSUME FuelOfLoad \in Nat, NEW files, NEW n \in 0..FuelOfLoad, NEW p \in DOMAIN files,
         files[p].json = "valid", files[p].inherit = <<>>
  PROVE  Visited(files)[n][p] = <<p>> /\ SetFile(files)[n][p] = Keep(files)
<1>1. CASE n = 0
  BY <1>1, VisitedValue, SetFileValue
<1>2. CASE n # 0
  <2> DEFINE below == Below(files, p, Visited(files)[n - 1])
  <2>1. below = <<>>
    BY DEF Below
  <2>2. FlattenSeq(below) = <<>>
    BY <2>1 DEF FlattenSeq
  <2>3. Visited(files)[n][p] = Append(FlattenSeq(below), p)
    BY <1>2, VisitedValue
  <2>4. SetFile(files)[n][p] = Keep(files)
    BY <1>2, SetFileValue, SetByNoEntries DEF SetByAll, Keep
  <2> HIDE DEF below
  <2>q. QED
    BY <2>2, <2>3, <2>4
<1>q. QED
  BY <1>1, <1>2

SameShape(c, d) == d.json = c.json /\ (c.json = "valid" => d.inherit = c.inherit)
\* A file that was missing has been written, or a file has been truncated.
Filled(c, d) == c.json = "missing" /\ d.json = "valid" /\ d.inherit = <<>>
Alike(F, G, S) ==
  /\ DOMAIN G = DOMAIN F
  /\ \A f \in S : SameShape(F[f], G[f]) \/ Filled(F[f], G[f]) \/ G[f].json = "broken"

\* Loading visits the same files, and finds the same place to write to, whatever has been
\* written to them, or comes to one that is truncated.
LEMMA VisitedAlike ==
  ASSUME FuelOfLoad \in Nat, NEW F, NEW G, WellFormed(F), WellFormed(G), None \notin DOMAIN F,
         NEW S, Closed(F, S), Closed(G, S), Alike(F, G, S), NEW n \in 0..FuelOfLoad, NEW p \in S,
         None \notin Range(Visited(F)[n][p])
  PROVE  \/ /\ Visited(G)[n][p] = Visited(F)[n][p]
            /\ SetFile(G)[n][p] = SetFile(F)[n][p]
         \/ /\ \E f \in S : G[f].json = "broken" /\ F[f].json # "broken"
            /\ None \in Range(Visited(G)[n][p])
<1> DEFINE Same(m, q) == /\ Visited(G)[m][q] = Visited(F)[m][q]
                         /\ SetFile(G)[m][q] = SetFile(F)[m][q]
           broken == \E f \in S : G[f].json = "broken" /\ F[f].json # "broken"
           Fails(m, q) == broken /\ None \in Range(Visited(G)[m][q])
           Good(m) == \A q \in S : None \notin Range(Visited(F)[m][q]) => Same(m, q) \/ Fails(m, q)
           N == {m \in Nat : m <= FuelOfLoad => Good(m)}
           T == S \union {None}
<1>0. Places(G) = Places(F) /\ Keep(G) = Keep(F)
  BY DEF Alike, Places, Keep
<1>1. S \subseteq DOMAIN F /\ S \subseteq DOMAIN G
  BY DEF Closed
<1>2. Range(<<None>>) = {None}
  BY DEF Range
<1>3. ASSUME NEW m \in 0..FuelOfLoad, NEW q \in S, F[q].json # "valid"
      PROVE  None \in Range(Visited(F)[m][q])
  BY <1>1, <1>2, <1>3, VisitedValue
<1>4. ASSUME NEW m \in 0..FuelOfLoad, NEW q \in S, G[q].json = "broken", F[q].json # "broken"
      PROVE  Fails(m, q)
  BY <1>1, <1>2, <1>4, VisitedValue
<1>5. 0 \in N
  <2>1. SUFFICES ASSUME NEW q \in S, None \notin Range(Visited(F)[0][q])
                 PROVE  Same(0, q) \/ Fails(0, q)
    OBVIOUS
  <2>2. 0 \in 0..FuelOfLoad
    OBVIOUS
  <2>3. F[q].json = "valid"
    BY <2>1, <2>2, <1>3
  <2>4. CASE SameShape(F[q], G[q])
    <3>1. G[q].json = "valid" /\ G[q].inherit = F[q].inherit
      BY <2>3, <2>4 DEF SameShape
    <3>a. q \in DOMAIN F /\ q \in DOMAIN G
      BY <1>1
    <3>b. Visited(F)[0][q] = IF F[q].inherit = <<>> THEN <<q>> ELSE <<None>>
      BY <3>a, <2>2, <2>3, VisitedValue
    <3>c. Visited(G)[0][q] = IF G[q].inherit = <<>> THEN <<q>> ELSE <<None>>
      BY <3>a, <3>1, <2>2, VisitedValue
    <3>2. Visited(G)[0][q] = Visited(F)[0][q]
      BY <3>1, <3>b, <3>c
    <3>3. SetFile(G)[0][q] = Keep(G) /\ SetFile(F)[0][q] = Keep(F)
      BY <2>2, <1>1, SetFileValue
    <3>q. QED
      BY <1>0, <3>2, <3>3
  <2>5. CASE G[q].json = "broken"
    BY <2>2, <2>3, <2>5, <1>4
  <2>q. QED
    BY <2>3, <2>4, <2>5 DEF Alike, Filled
<1>6. ASSUME NEW m \in Nat, m \in N PROVE m + 1 \in N
  <2>1. SUFFICES ASSUME m + 1 <= FuelOfLoad, NEW q \in S, None \notin Range(Visited(F)[m + 1][q])
                 PROVE  Same(m + 1, q) \/ Fails(m + 1, q)
    OBVIOUS
  <2>2. Good(m) /\ m \in 0..FuelOfLoad /\ m + 1 \in 0..FuelOfLoad /\ (m + 1) - 1 = m /\ m + 1 # 0
    BY <1>6, <2>1
  <2>3. F[q].json = "valid"
    BY <2>1, <2>2, <1>3
  <2>4. CASE G[q].json = "broken"
    BY <2>2, <2>3, <2>4, <1>4
  <2>5. CASE SameShape(F[q], G[q])
    <3> DEFINE inherit == F[q].inherit
               belowF == Below(F, q, Visited(F)[m])
               belowG == Below(G, q, Visited(G)[m])
               setF == SetBelow(F, q, SetFile(F)[m])
               setG == SetBelow(G, q, SetFile(G)[m])
    <3>1. G[q].json = "valid" /\ G[q].inherit = inherit
      BY <2>3, <2>5 DEF SameShape
    <3>2. inherit \in Seq(InheritFile(F)) /\ DOMAIN inherit = 1..Len(inherit) /\ Len(inherit) \in Nat
      BY <1>1, <2>3 DEF WellFormed
    <3>a. q \in DOMAIN F /\ q \in DOMAIN G
      BY <1>1
    <3>d. m + 1 \in 0..FuelOfLoad /\ m + 1 # 0
      BY <2>2
    <3>b. /\ Visited(F)[m + 1][q] = Append(FlattenSeq(Below(F, q, Visited(F)[(m + 1) - 1])), q)
          /\ SetFile(F)[m + 1][q] = SetByAll(F, q, SetFile(F)[(m + 1) - 1])
      <4>1. Visited(F)[m + 1][q] = Append(FlattenSeq(Below(F, q, Visited(F)[(m + 1) - 1])), q)
        BY <3>d, <2>3, <3>a, VisitedValue
      <4>2. SetFile(F)[m + 1][q] = SetByAll(F, q, SetFile(F)[(m + 1) - 1])
        BY <3>d, <2>3, <3>a, SetFileValue
      <4>q. QED
        BY <4>1, <4>2
    <3>c. /\ Visited(G)[m + 1][q] = Append(FlattenSeq(Below(G, q, Visited(G)[(m + 1) - 1])), q)
          /\ SetFile(G)[m + 1][q] = SetByAll(G, q, SetFile(G)[(m + 1) - 1])
      <4>1. Visited(G)[m + 1][q] = Append(FlattenSeq(Below(G, q, Visited(G)[(m + 1) - 1])), q)
        BY <3>d, <3>1, <3>a, VisitedValue
      <4>2. SetFile(G)[m + 1][q] = SetByAll(G, q, SetFile(G)[(m + 1) - 1])
        BY <3>d, <3>1, <3>a, SetFileValue
      <4>q. QED
        BY <4>1, <4>2
    <3>3. /\ Visited(F)[m + 1][q] = Append(FlattenSeq(belowF), q)
          /\ Visited(G)[m + 1][q] = Append(FlattenSeq(belowG), q)
      BY <3>b, <3>c, <2>2
    <3>4. /\ SetFile(F)[m + 1][q] = [set \in Places(F) |-> SetByEntries(inherit, setF, set)]
          /\ SetFile(G)[m + 1][q] = [set \in Places(F) |-> SetByEntries(inherit, setG, set)]
      BY <1>0, <3>b, <3>c, <3>1, <2>2 DEF SetByAll
    <3>5. \A i \in DOMAIN inherit : inherit[i].path \in S
      BY <2>3 DEF Closed
    <3>6. belowF \in Seq(Seq(T)) /\ belowG \in Seq(Seq(T))
      <4>1. ASSUME NEW i \in DOMAIN inherit
            PROVE  /\ Entry(F, inherit[i], Visited(F)[m]) \in Seq(T)
                   /\ Entry(G, inherit[i], Visited(G)[m]) \in Seq(T)
        <5>1. inherit[i].path \in S /\ <<inherit[i].path>> \in Seq(T)
          BY <3>5
        <5>2. Visited(F)[m][inherit[i].path] \in Seq(T) /\ Visited(G)[m][inherit[i].path] \in Seq(T)
          BY <5>1, <2>2, VisitedIn
        <5>q. QED
          BY <5>1, <5>2 DEF Entry
      <4>q. QED
        BY <4>1, <3>1, <3>2 DEF Below
    <3>7. /\ FlattenSeq(belowF) \in Seq(T) /\ FlattenSeq(belowG) \in Seq(T)
          /\ Range(FlattenSeq(belowF)) = UNION {Range(belowF[i]) : i \in DOMAIN belowF}
          /\ Range(FlattenSeq(belowG)) = UNION {Range(belowG[i]) : i \in DOMAIN belowG}
      BY <3>6, Flattened
    <3>8. /\ Range(Visited(F)[m + 1][q]) = Range(FlattenSeq(belowF)) \union {q}
          /\ Range(Visited(G)[m + 1][q]) = Range(FlattenSeq(belowG)) \union {q}
      BY <3>3, <3>7, RangeOfAppend
    <3>9. DOMAIN belowF = DOMAIN inherit /\ DOMAIN belowG = DOMAIN inherit
      BY <3>1 DEF Below
    <3>10. ASSUME NEW i \in DOMAIN inherit
           PROVE  \/ belowG[i] = belowF[i] /\ setG[i] = setF[i]
                  \/ broken /\ None \in Range(belowG[i])
      <4> DEFINE e == inherit[i]
      <4>1. /\ belowF[i] = Entry(F, e, Visited(F)[m])
            /\ belowG[i] = Entry(G, e, Visited(G)[m])
            /\ setF[i] = IF MayBeMissing(F, e) THEN Keep(F) ELSE SetFile(F)[m][e.path]
            /\ setG[i] = IF MayBeMissing(G, e) THEN Keep(F) ELSE SetFile(G)[m][e.path]
        BY <1>0, <3>1 DEF Below, SetBelow
      <4>2. None \notin Range(belowF[i])
        BY <2>1, <3>7, <3>8, <3>9
      <4>3. e.path \in S
        BY <3>5
      <4> HIDE DEF e, belowF, belowG, setF, setG
      <4>4. CASE G[e.path].json = "broken"
        <5>1. ~MayBeMissing(G, e)
          BY <4>4 DEF MayBeMissing, Exists
        <5>3. F[e.path].json # "broken"
          <6>1. SUFFICES ASSUME F[e.path].json = "broken" PROVE FALSE
            OBVIOUS
          <6>2. belowF[i] = Visited(F)[m][e.path]
            BY <4>1, <6>1 DEF Entry, MayBeMissing, Exists
          <6>3. None \in Range(Visited(F)[m][e.path])
            BY <2>2, <4>3, <6>1, <1>3
          <6>q. QED
            BY <4>2, <6>2, <6>3
        <5>2. broken /\ None \in Range(Visited(G)[m][e.path])
          BY <2>2, <4>3, <4>4, <5>3, <1>4
        <5>q. QED
          BY <4>1, <5>1, <5>2 DEF Entry
      <4>5. CASE MayBeMissing(F, e) /\ G[e.path].json # "broken"
        <5>1. F[e.path].json = "missing" /\ e.ignoreError /\ belowF[i] = <<e.path>> /\ setF[i] = Keep(F)
          BY <4>1, <4>5 DEF MayBeMissing, Exists, Entry
        <5>2. CASE SameShape(F[e.path], G[e.path])
          <6>1. MayBeMissing(G, e)
            BY <5>1, <5>2 DEF SameShape, MayBeMissing, Exists
          <6>q. QED
            BY <4>1, <5>1, <6>1 DEF Entry
        <5>3. CASE Filled(F[e.path], G[e.path])
          <6>1. ~MayBeMissing(G, e)
            BY <5>3 DEF Filled, MayBeMissing, Exists
          <6>2. Visited(G)[m][e.path] = <<e.path>> /\ SetFile(G)[m][e.path] = Keep(F)
            <7>1. G[e.path].json = "valid" /\ G[e.path].inherit = <<>> /\ e.path \in DOMAIN G
              BY <5>3, <4>3, <1>1 DEF Filled
            <7>2. m \in 0..FuelOfLoad
              BY <2>2
            <7>q. QED
              BY <1>0, <7>1, <7>2, VisitedAlone
          <6>q. QED
            BY <4>1, <5>1, <6>1, <6>2 DEF Entry
        <5>q. QED
          BY <4>3, <4>5, <5>2, <5>3 DEF Alike
      <4>6. CASE ~MayBeMissing(F, e) /\ G[e.path].json # "broken"
        <5>1. belowF[i] = Visited(F)[m][e.path] /\ setF[i] = SetFile(F)[m][e.path]
          BY <4>1, <4>6 DEF Entry
        <5>2. F[e.path].json = "valid"
          BY <4>2, <4>3, <5>1, <2>2, <1>3
        <5>3. ~MayBeMissing(G, e)
          BY <4>3, <4>6, <5>2 DEF Alike, SameShape, Filled, MayBeMissing, Exists
        <5>4. Same(m, e.path) \/ Fails(m, e.path)
          BY <2>2, <4>2, <4>3, <5>1
        <5>q. QED
          BY <4>1, <5>1, <5>3, <5>4 DEF Entry
      <4>q. QED
        BY <4>4, <4>5, <4>6
    <3>11. CASE \A i \in DOMAIN inherit : belowG[i] = belowF[i] /\ setG[i] = setF[i]
      <4>1. belowG = belowF
        BY <3>1, <3>11 DEF Below
      <4>2. setG = setF
        BY <3>1, <3>11 DEF SetBelow
      <4> HIDE DEF belowF, belowG, setF, setG
      <4>q. QED
        BY <3>3, <3>4, <4>1, <4>2
    <3>12. CASE \E i \in DOMAIN inherit : broken /\ None \in Range(belowG[i])
      <4> HIDE DEF belowF, belowG, setF, setG
      <4>q. QED
        BY <3>12, <3>7, <3>8, <3>9
    <3>q. QED
      BY <3>10, <3>11, <3>12
  <2>q. QED
    BY <2>3, <2>4, <2>5 DEF Alike, Filled
<1> HIDE DEF N
<1>7. n \in N
  <2>1. \A m \in Nat : m \in N
    BY <1>5, <1>6, NatSet
  <2>q. QED
    BY <2>1
<1>q. QED
  BY <1>7 DEF N

\* The same, whether the file can be loaded or not, of files that only differ in what they
\* say themselves.
LEMMA VisitedSame ==
  ASSUME FuelOfLoad \in Nat, NEW F, NEW G, WellFormed(F), NEW S, Closed(F, S),
         DOMAIN G = DOMAIN F, \A f \in S : SameShape(F[f], G[f]),
         NEW n \in 0..FuelOfLoad, NEW p \in S
  PROVE  Visited(G)[n][p] = Visited(F)[n][p] /\ SetFile(G)[n][p] = SetFile(F)[n][p]
<1> DEFINE Same(m, q) == /\ Visited(G)[m][q] = Visited(F)[m][q]
                         /\ SetFile(G)[m][q] = SetFile(F)[m][q]
           N == {m \in Nat : m <= FuelOfLoad => \A q \in S : Same(m, q)}
<1>0. Places(G) = Places(F) /\ Keep(G) = Keep(F)
  BY DEF Places, Keep
<1>1. S \subseteq DOMAIN F /\ S \subseteq DOMAIN G
  BY DEF Closed
<1>2. ASSUME NEW q \in S
      PROVE  /\ F[q].json # "valid" => G[q].json # "valid"
             /\ F[q].json = "valid" => G[q].json = "valid" /\ G[q].inherit = F[q].inherit
  BY DEF SameShape
<1>3. ASSUME NEW m \in 0..FuelOfLoad, NEW q \in S, F[q].json # "valid" PROVE Same(m, q)
  <2>1. q \in DOMAIN F /\ q \in DOMAIN G /\ G[q].json # "valid"
    BY <1>1, <1>2, <1>3
  <2>2. Visited(F)[m][q] = <<None>> /\ SetFile(F)[m][q] = Keep(F)
    BY <2>1, <1>3, VisitedValue, SetFileValue
  <2>3. Visited(G)[m][q] = <<None>> /\ SetFile(G)[m][q] = Keep(F)
    BY <1>0, <2>1, VisitedValue, SetFileValue
  <2>q. QED
    BY <2>2, <2>3
<1>4. 0 \in N
  <2>1. SUFFICES ASSUME NEW q \in S, F[q].json = "valid" PROVE Same(0, q)
    BY <1>3
  <2>2. q \in DOMAIN F /\ q \in DOMAIN G /\ G[q].json = "valid" /\ G[q].inherit = F[q].inherit
    BY <1>1, <1>2, <2>1
  <2>3. /\ Visited(F)[0][q] = IF F[q].inherit = <<>> THEN <<q>> ELSE <<None>>
        /\ SetFile(F)[0][q] = Keep(F)
    BY <2>1, <2>2, VisitedValue, SetFileValue
  <2>4. /\ Visited(G)[0][q] = IF G[q].inherit = <<>> THEN <<q>> ELSE <<None>>
        /\ SetFile(G)[0][q] = Keep(F)
    BY <1>0, <2>2, VisitedValue, SetFileValue
  <2>q. QED
    BY <2>2, <2>3, <2>4
<1>5. ASSUME NEW m \in Nat, m \in N PROVE m + 1 \in N
  <2>1. SUFFICES ASSUME m + 1 <= FuelOfLoad, NEW q \in S, F[q].json = "valid"
                 PROVE  Same(m + 1, q)
    BY <1>3
  <2>2. /\ \A r \in S : Same(m, r)
        /\ m + 1 \in 0..FuelOfLoad /\ (m + 1) - 1 = m /\ m + 1 # 0
    BY <1>5, <2>1
  <2>3. q \in DOMAIN F /\ q \in DOMAIN G /\ G[q].json = "valid" /\ G[q].inherit = F[q].inherit
    BY <1>1, <1>2, <2>1
  <2>4. /\ Visited(F)[m + 1][q] = Append(FlattenSeq(Below(F, q, Visited(F)[m])), q)
        /\ SetFile(F)[m + 1][q] = SetByAll(F, q, SetFile(F)[m])
    <3>1. Visited(F)[m + 1][q] = Append(FlattenSeq(Below(F, q, Visited(F)[(m + 1) - 1])), q)
      BY <2>1, <2>2, <2>3, VisitedValue
    <3>2. SetFile(F)[m + 1][q] = SetByAll(F, q, SetFile(F)[(m + 1) - 1])
      BY <2>1, <2>2, <2>3, SetFileValue
    <3>q. QED
      BY <3>1, <3>2, <2>2
  <2>5. /\ Visited(G)[m + 1][q] = Append(FlattenSeq(Below(G, q, Visited(G)[m])), q)
        /\ SetFile(G)[m + 1][q] = SetByAll(G, q, SetFile(G)[m])
    <3>1. Visited(G)[m + 1][q] = Append(FlattenSeq(Below(G, q, Visited(G)[(m + 1) - 1])), q)
      BY <2>2, <2>3, VisitedValue
    <3>2. SetFile(G)[m + 1][q] = SetByAll(G, q, SetFile(G)[(m + 1) - 1])
      BY <2>2, <2>3, SetFileValue
    <3>q. QED
      BY <3>1, <3>2, <2>2
  <2>6. ASSUME NEW i \in DOMAIN F[q].inherit
        PROVE  /\ F[q].inherit[i].path \in S
               /\ MayBeMissing(G, F[q].inherit[i]) = MayBeMissing(F, F[q].inherit[i])
    BY <2>1 DEF Closed, SameShape, MayBeMissing, Exists
  <2>7. Below(G, q, Visited(G)[m]) = Below(F, q, Visited(F)[m])
    BY <2>2, <2>3, <2>6 DEF Below, Entry
  <2>8. SetBelow(G, q, SetFile(G)[m]) = SetBelow(F, q, SetFile(F)[m])
    BY <1>0, <2>2, <2>3, <2>6 DEF SetBelow
  <2>9. SetByAll(G, q, SetFile(G)[m]) = SetByAll(F, q, SetFile(F)[m])
    BY <1>0, <2>3, <2>8 DEF SetByAll
  <2>q. QED
    BY <2>3, <2>4, <2>5, <2>7, <2>9
<1> HIDE DEF N
<1>6. n \in N
  <2>1. \A m \in Nat : m \in N
    BY <1>4, <1>5, NatSet
  <2>q. QED
    BY <2>1
<1>q. QED
  BY <1>6 DEF N

(***************************************************************************)
(* What is overlaid                                                        *)
(***************************************************************************)
LEMMA OverlayValue ==
  ASSUME NEW s, DOMAIN s = DOMAIN NewService, NEW path, NEW c
  PROVE  LET t == Overlay(s, path, c) IN
         /\ DOMAIN t = DOMAIN NewService
         /\ t.ok = s.ok /\ t.fileName = path
         /\ t.disable = Given(c.disable, s.disable)
         /\ t.config = MergeConfig(c.config, s.config)
BY DEF Overlay, NewService

LEMMA OverlaidFields ==
  ASSUME NEW files, NEW paths, Len(paths) \in Nat, NEW i \in 0..Len(paths)
  PROVE  /\ DOMAIN Overlaid(files, paths)[i] = DOMAIN NewService
         /\ Overlaid(files, paths)[i].ok
<1> DEFINE U == Overlaid(files, paths)
           Good(s) == DOMAIN s = DOMAIN NewService /\ s.ok
           N == {n \in Nat : n <= Len(paths) => Good(U[n])}
<1>1. U = [j \in 0..Len(paths) |-> IF j = 0 THEN NewService ELSE OverlaidStep(files, paths, U[j - 1], j)]
  BY OverlaidUnfolds
<1>2. 0 \in N
  <2>1. U[0] = NewService
    BY <1>1
  <2>2. NewService.ok
    BY DEF NewService
  <2>q. QED
    BY <2>1, <2>2
<1>3. ASSUME NEW n \in Nat, n \in N PROVE n + 1 \in N
  <2>1. SUFFICES ASSUME n + 1 <= Len(paths) PROVE Good(U[n + 1])
    OBVIOUS
  <2>2. Good(U[n])
    BY <1>3, <2>1
  <2>3. U[n + 1] = OverlaidStep(files, paths, U[n], n + 1)
    BY <1>1, <2>1
  <2> HIDE DEF U
  <2>q. QED
    BY <2>2, <2>3, OverlayValue DEF OverlaidStep
<1> HIDE DEF N, U
<1>4. \A n \in Nat : n \in N
  BY <1>2, <1>3, NatSet
<1>5. i \in N /\ i <= Len(paths)
  BY <1>4
<1>q. QED
  BY <1>5 DEF N, U

\* What a file, or a configuration, says of being disabled and of a variable.
SaysDisable(c) == IF Exists(c) THEN c.disable ELSE None
SaysOf(c, v) == IF Exists(c) THEN ValueIn(c.config, v) ELSE <<>>

\* Whether a service is disabled depends on what its files say of that.
LEMMA DisableDecided ==
  ASSUME NEW F, NEW G, NEW paths, Len(paths) \in Nat,
         \A j \in 1..Len(paths) : SaysDisable(G[paths[j]]) = SaysDisable(F[paths[j]])
  PROVE  Overlaid(G, paths)[Len(paths)].disable = Overlaid(F, paths)[Len(paths)].disable
<1> DEFINE U == Overlaid(F, paths)
           V == Overlaid(G, paths)
           N == {n \in Nat : n <= Len(paths) => V[n].disable = U[n].disable}
<1>1. U = [j \in 0..Len(paths) |-> IF j = 0 THEN NewService ELSE OverlaidStep(F, paths, U[j - 1], j)]
  BY OverlaidUnfolds
<1>2. V = [j \in 0..Len(paths) |-> IF j = 0 THEN NewService ELSE OverlaidStep(G, paths, V[j - 1], j)]
  BY OverlaidUnfolds
<1>3. 0 \in N
  <2>1. U[0] = NewService /\ V[0] = NewService
    BY <1>1, <1>2
  <2>q. QED
    BY <2>1
<1>4. ASSUME NEW n \in Nat, n \in N PROVE n + 1 \in N
  <2>1. SUFFICES ASSUME n + 1 <= Len(paths) PROVE V[n + 1].disable = U[n + 1].disable
    OBVIOUS
  <2>2. V[n].disable = U[n].disable
    BY <1>4, <2>1
  <2>3. /\ U[n + 1] = OverlaidStep(F, paths, U[n], n + 1)
        /\ V[n + 1] = OverlaidStep(G, paths, V[n], n + 1)
    BY <1>1, <1>2, <2>1
  <2>4. DOMAIN U[n] = DOMAIN NewService /\ DOMAIN V[n] = DOMAIN NewService
    BY <2>1, OverlaidFields
  <2> DEFINE c == F[paths[n + 1]]
             d == G[paths[n + 1]]
  <2>5. SaysDisable(c) = SaysDisable(d)
    BY <2>1
  <2> HIDE DEF U, V, c, d
  <2>6. U[n + 1].disable = Given(SaysDisable(c), U[n].disable)
    BY <2>3, <2>4, OverlayValue DEF OverlaidStep, SaysDisable, Given, c
  <2>7. V[n + 1].disable = Given(SaysDisable(d), V[n].disable)
    BY <2>3, <2>4, OverlayValue DEF OverlaidStep, SaysDisable, Given, d
  <2>q. QED
    BY <2>2, <2>5, <2>6, <2>7
<1> HIDE DEF N, U, V
<1>5. \A n \in Nat : n \in N
  BY <1>3, <1>4, NatSet
<1>6. Len(paths) \in N
  BY <1>5
<1>q. QED
  BY <1>6 DEF N, U, V

\* What a service says of a variable depends on what its files say of it: if some of them
\* say something new, so does the service, or it says what it said.
LEMMA ConfigDecided ==
  ASSUME NEW F, NEW G, NEW paths, Len(paths) \in Nat, NEW v, NEW new,
         <<>> \notin new,
         \A j \in 1..Len(paths) : \/ SaysOf(G[paths[j]], v) = SaysOf(F[paths[j]], v)
                                  \/ SaysOf(G[paths[j]], v) \in new
  PROVE  \/ ValueIn(Overlaid(G, paths)[Len(paths)].config, v) =
              ValueIn(Overlaid(F, paths)[Len(paths)].config, v)
         \/ ValueIn(Overlaid(G, paths)[Len(paths)].config, v) \in new
<1> DEFINE U == Overlaid(F, paths)
           V == Overlaid(G, paths)
           Good(n) == \/ ValueIn(V[n].config, v) = ValueIn(U[n].config, v)
                      \/ ValueIn(V[n].config, v) \in new
           N == {n \in Nat : n <= Len(paths) => Good(n)}
<1>1. U = [j \in 0..Len(paths) |-> IF j = 0 THEN NewService ELSE OverlaidStep(F, paths, U[j - 1], j)]
  BY OverlaidUnfolds
<1>2. V = [j \in 0..Len(paths) |-> IF j = 0 THEN NewService ELSE OverlaidStep(G, paths, V[j - 1], j)]
  BY OverlaidUnfolds
<1>3. 0 \in N
  <2>1. U[0] = NewService /\ V[0] = NewService
    BY <1>1, <1>2
  <2>q. QED
    BY <2>1
<1>a. ASSUME NEW files, NEW s, DOMAIN s = DOMAIN NewService, NEW i
      PROVE  ValueIn(OverlaidStep(files, paths, s, i).config, v) =
               IF SaysOf(files[paths[i]], v) = <<>> THEN ValueIn(s.config, v)
               ELSE SaysOf(files[paths[i]], v)
  <2> DEFINE c == files[paths[i]]
  <2>1. CASE ~Exists(c)
    BY <2>1 DEF OverlaidStep, SaysOf
  <2>2. CASE Exists(c)
    <3>1. OverlaidStep(files, paths, s, i).config = MergeConfig(c.config, s.config)
      BY <1>a, <2>2, OverlayValue DEF OverlaidStep
    <3>2. ASSUME NEW f, NEW g
          PROVE  ValueIn(MergeConfig(f, g), v) =
                   IF ValueIn(f, v) = <<>> THEN ValueIn(g, v) ELSE ValueIn(f, v)
      BY DEF ValueIn, MergeConfig
    <3>q. QED
      BY <3>1, <3>2, <2>2 DEF SaysOf
  <2>q. QED
    BY <2>1, <2>2
<1>4. ASSUME NEW n \in Nat, n \in N PROVE n + 1 \in N
  <2>1. SUFFICES ASSUME n + 1 <= Len(paths) PROVE Good(n + 1)
    OBVIOUS
  <2>2. Good(n)
    BY <1>4, <2>1
  <2>3. /\ U[n + 1] = OverlaidStep(F, paths, U[n], n + 1)
        /\ V[n + 1] = OverlaidStep(G, paths, V[n], n + 1)
    BY <1>1, <1>2, <2>1
  <2>4. DOMAIN U[n] = DOMAIN NewService /\ DOMAIN V[n] = DOMAIN NewService
    BY <2>1, OverlaidFields
  <2> DEFINE c == SaysOf(F[paths[n + 1]], v)
             d == SaysOf(G[paths[n + 1]], v)
  <2>5. d = c \/ d \in new
    BY <2>1
  <2> HIDE DEF U, V
  <2>6. ValueIn(U[n + 1].config, v) = IF c = <<>> THEN ValueIn(U[n].config, v) ELSE c
    BY <2>3, <2>4, <1>a
  <2>7. ValueIn(V[n + 1].config, v) = IF d = <<>> THEN ValueIn(V[n].config, v) ELSE d
    BY <2>3, <2>4, <1>a
  <2> HIDE DEF c, d
  <2>q. QED
    BY <2>2, <2>5, <2>6, <2>7
<1> HIDE DEF N, U, V
<1>5. \A n \in Nat : n \in N
  BY <1>3, <1>4, NatSet
<1>6. Len(paths) \in N
  BY <1>5
<1>q. QED
  BY <1>6 DEF N, U, V

LEMMA OverlaidSame ==
  ASSUME NEW F, NEW G, NEW paths, Len(paths) \in Nat, \A j \in 1..Len(paths) : G[paths[j]] = F[paths[j]]
  PROVE  Overlaid(G, paths)[Len(paths)] = Overlaid(F, paths)[Len(paths)]
<1> DEFINE U == Overlaid(F, paths)
           V == Overlaid(G, paths)
           N == {n \in Nat : n <= Len(paths) => V[n] = U[n]}
<1>1. U = [j \in 0..Len(paths) |-> IF j = 0 THEN NewService ELSE OverlaidStep(F, paths, U[j - 1], j)]
  BY OverlaidUnfolds
<1>2. V = [j \in 0..Len(paths) |-> IF j = 0 THEN NewService ELSE OverlaidStep(G, paths, V[j - 1], j)]
  BY OverlaidUnfolds
<1>3. 0 \in N
  <2>1. U[0] = NewService /\ V[0] = NewService
    BY <1>1, <1>2
  <2>q. QED
    BY <2>1
<1>4. ASSUME NEW n \in Nat, n \in N PROVE n + 1 \in N
  <2>1. SUFFICES ASSUME n + 1 <= Len(paths) PROVE V[n + 1] = U[n + 1]
    OBVIOUS
  <2>2. V[n] = U[n]
    BY <1>4, <2>1
  <2>3. /\ U[n + 1] = OverlaidStep(F, paths, U[n], n + 1)
        /\ V[n + 1] = OverlaidStep(G, paths, V[n], n + 1)
    BY <1>1, <1>2, <2>1
  <2>4. G[paths[n + 1]] = F[paths[n + 1]]
    BY <2>1
  <2> HIDE DEF U, V
  <2>q. QED
    BY <2>2, <2>3, <2>4 DEF OverlaidStep
<1> HIDE DEF N, U, V
<1>5. \A n \in Nat : n \in N
  BY <1>3, <1>4, NatSet
<1>6. Len(paths) \in N
  BY <1>5
<1>q. QED
  BY <1>6 DEF N, U, V

(***************************************************************************)
(* Loading                                                                 *)
(***************************************************************************)
Chain(files, path) == Visited(files)[FuelOfLoad][path]

\* What is loaded ends with the file itself.
LEMMA ChainEnds ==
  ASSUME FuelOfLoad \in Nat, NEW files, WellFormed(files), None \notin DOMAIN files,
         NEW S, Closed(files, S), NEW p \in S, None \notin Range(Chain(files, p))
  PROVE  /\ files[p].json = "valid"
         /\ Chain(files, p) \in Seq(S) /\ Len(Chain(files, p)) \in Nat \ {0}
         /\ Chain(files, p)[Len(Chain(files, p))] = p
<1> DEFINE chain == Chain(files, p)
           below == Below(files, p, Visited(files)[FuelOfLoad - 1])
<1>1. p \in DOMAIN files /\ FuelOfLoad \in 0..FuelOfLoad
  BY DEF Closed
<1>2. chain \in Seq(S \union {None})
  BY <1>1, VisitedIn DEF Chain
<1>3. files[p].json = "valid"
  <2>1. SUFFICES ASSUME files[p].json # "valid" PROVE FALSE
    OBVIOUS
  <2>2. chain = <<None>>
    BY <1>1, <2>1, VisitedValue DEF Chain
  <2>q. QED
    BY <2>2 DEF Range
<1>4. chain \in Seq(S)
  <2>1. ASSUME NEW i \in 1..Len(chain) PROVE chain[i] \in S
    <3>1. chain[i] \in S \union {None} /\ chain[i] \in Range(chain)
      BY <1>2 DEF Range
    <3>q. QED
      BY <3>1
  <2>q. QED
    BY <1>2, <2>1
<1>5. \/ chain = <<p>>
      \/ \E s \in Seq(S \union {None}) : chain = Append(s, p)
  <2>1. CASE FuelOfLoad = 0
    <3>1. chain = IF files[p].inherit = <<>> THEN <<p>> ELSE <<None>>
      BY <2>1, <1>1, <1>3, VisitedValue DEF Chain
    <3>2. Range(<<None>>) = {None}
      BY DEF Range
    <3>q. QED
      BY <3>1, <3>2
  <2>2. CASE FuelOfLoad # 0
    <3>1. chain = Append(FlattenSeq(below), p)
      BY <2>2, <1>1, <1>3, VisitedValue DEF Chain
    <3>2. files[p].inherit \in Seq(InheritFile(files))
      BY <1>1, <1>3 DEF WellFormed
    <3>3. ASSUME NEW i \in DOMAIN files[p].inherit
          PROVE  Entry(files, files[p].inherit[i], Visited(files)[FuelOfLoad - 1]) \in Seq(S \union {None})
      <4>1. files[p].inherit[i].path \in S /\ FuelOfLoad - 1 \in 0..FuelOfLoad
        BY <1>3, <2>2 DEF Closed
      <4>2. Visited(files)[FuelOfLoad - 1][files[p].inherit[i].path] \in Seq(S \union {None})
        BY <4>1, VisitedIn
      <4>3. <<files[p].inherit[i].path>> \in Seq(S \union {None})
        BY <4>1
      <4>q. QED
        BY <4>2, <4>3 DEF Entry
    <3>4. below \in Seq(Seq(S \union {None}))
      <4>1. DOMAIN files[p].inherit = 1..Len(files[p].inherit) /\ Len(files[p].inherit) \in Nat
        BY <3>2
      <4>q. QED
        BY <4>1, <3>3 DEF Below
    <3> HIDE DEF below
    <3>5. FlattenSeq(below) \in Seq(S \union {None})
      BY <3>4, Flattened
    <3>q. QED
      BY <3>1, <3>5
  <2>q. QED
    BY <2>1, <2>2
<1>6. Len(chain) \in Nat \ {0} /\ chain[Len(chain)] = p
  BY <1>5
<1>q. QED
  BY <1>3, <1>4, <1>6

LEMMA LoadFails ==
  ASSUME NEW files, NEW dirs, NEW p, None \in Range(Chain(files, p))
  PROVE  LoadServiceFile(files, dirs, p) = Error
BY DEF LoadServiceFile, loadService, Chain, Error

\* What the files of a service, laid over each other, make.
Made(files, path) == Overlaid(files, Chain(files, path))[Len(Chain(files, path))]

LEMMA LoadValue ==
  ASSUME FuelOfLoad \in Nat, NEW files, WellFormed(files), None \notin DOMAIN files,
         NEW S, Closed(files, S), NEW p \in S, NEW dirs, None \notin Range(Chain(files, p))
  PROVE  /\ LoadServiceFile(files, dirs, p).ok
         /\ LoadServiceFile(files, dirs, p).fileName = p
         /\ LoadServiceFile(files, dirs, p).disable = Made(files, p).disable
         /\ LoadServiceFile(files, dirs, p).config = Made(files, p).config
         /\ LoadServiceFile(files, dirs, p).configSetFile = Given(SetFile(files)[FuelOfLoad][p][None], p)
<1> DEFINE chain == Chain(files, p)
           s == Overlaid(files, chain)[Len(chain)]
           u == loadService(files, p)
           t == LoadServiceFile(files, dirs, p)
<1>1. /\ files[p].json = "valid" /\ Len(chain) \in Nat \ {0} /\ chain[Len(chain)] = p
  BY ChainEnds
<1>2. DOMAIN s = DOMAIN NewService /\ s.ok
  BY <1>1, OverlaidFields
<1>3. s.fileName = p
  <2>1. Overlaid(files, chain)[Len(chain)] =
          OverlaidStep(files, chain, Overlaid(files, chain)[Len(chain) - 1], Len(chain))
    BY <1>1, OverlaidUnfolds
  <2>2. s = Overlay(Overlaid(files, chain)[Len(chain) - 1], p, files[p])
    BY <1>1, <2>1 DEF OverlaidStep, Exists
  <2>3. DOMAIN Overlaid(files, chain)[Len(chain) - 1] = DOMAIN NewService
    BY <1>1, OverlaidFields
  <2>q. QED
    BY <2>2, <2>3, OverlayValue
<1>4. u = [s EXCEPT !.configSetFile = SetFile(files)[FuelOfLoad][p][None]]
  BY DEF loadService, Chain
<1> HIDE DEF s
<1>5. /\ DOMAIN u = DOMAIN NewService
      /\ u.ok /\ u.fileName = p /\ u.disable = s.disable /\ u.config = s.config
      /\ u.configSetFile = SetFile(files)[FuelOfLoad][p][None]
  BY <1>2, <1>3, <1>4 DEF NewService
<1>6. t = [FillDefaults(u) EXCEPT !.name = ServiceNameFromFile(dirs, p)]
  BY <1>5 DEF LoadServiceFile
<1> HIDE DEF u, t
<1>7. /\ DOMAIN FillDefaults(u) = DOMAIN NewService
      /\ FillDefaults(u).ok /\ FillDefaults(u).fileName = p
      /\ FillDefaults(u).disable = s.disable /\ FillDefaults(u).config = s.config
      /\ FillDefaults(u).configSetFile = Given(SetFile(files)[FuelOfLoad][p][None], p)
  BY <1>5 DEF FillDefaults, NewService
<1>8. /\ t.ok /\ t.fileName = p /\ t.disable = s.disable /\ t.config = s.config
      /\ t.configSetFile = Given(SetFile(files)[FuelOfLoad][p][None], p)
  BY <1>6, <1>7 DEF NewService
<1>q. QED
  BY <1>8 DEF t, s, Made

\* What is loaded of a set of files that says what it said before is what it was.
LEMMA LoadSame ==
  ASSUME FuelOfLoad \in Nat, NEW F, NEW G, WellFormed(F), None \notin DOMAIN F,
         NEW S, Closed(F, S), DOMAIN G = DOMAIN F, \A f \in S : G[f] = F[f],
         NEW p \in S, NEW dirs
  PROVE  LoadServiceFile(G, dirs, p) = LoadServiceFile(F, dirs, p)
<1>1. Chain(G, p) = Chain(F, p) /\ SetFile(G)[FuelOfLoad][p] = SetFile(F)[FuelOfLoad][p]
  <2>1. \A f \in S : SameShape(F[f], G[f])
    BY DEF SameShape
  <2>2. FuelOfLoad \in 0..FuelOfLoad
    OBVIOUS
  <2>q. QED
    BY <2>1, <2>2, VisitedSame DEF Chain
<1>2. CASE None \in Range(Chain(F, p))
  BY <1>1, <1>2, LoadFails
<1>3. CASE None \notin Range(Chain(F, p))
  <2> DEFINE chain == Chain(F, p)
  <2>1. chain \in Seq(S) /\ Len(chain) \in Nat
    BY <1>3, ChainEnds
  <2>2. Overlaid(G, chain)[Len(chain)] = Overlaid(F, chain)[Len(chain)]
    BY <2>1, OverlaidSame
  <2>3. loadService(G, p) = loadService(F, p)
    BY <1>1, <1>3, <2>2 DEF loadService, Chain
  <2>q. QED
    BY <2>3 DEF LoadServiceFile
<1>q. QED
  BY <1>2, <1>3

\* Two states of the files of a service that differ in what its files say, and in nothing
\* else.
Written(F, G, S) ==
  /\ DOMAIN G = DOMAIN F
  /\ \A f \in S : SameShape(F[f], G[f]) \/ Filled(F[f], G[f])

LEMMA WrittenLoads ==
  ASSUME FuelOfLoad \in Nat, NEW F, NEW G, WellFormed(F), WellFormed(G), None \notin DOMAIN F,
         NEW S, Closed(F, S), Closed(G, S), Written(F, G, S), NEW p \in S, NEW dirs,
         LoadServiceFile(F, dirs, p).ok
  PROVE  /\ None \notin Range(Chain(F, p)) /\ Chain(G, p) = Chain(F, p)
         /\ LoadServiceFile(G, dirs, p).ok
         /\ LoadServiceFile(G, dirs, p).configSetFile = LoadServiceFile(F, dirs, p).configSetFile
<1>1. None \notin Range(Chain(F, p))
  BY LoadFails DEF Error
<1>2. FuelOfLoad \in 0..FuelOfLoad /\ Alike(F, G, S)
  BY DEF Alike, Written
<1>3. Chain(F, p) \in Seq(S) /\ F[p].json = "valid"
  BY <1>1, ChainEnds
<1>4. \A f \in S : G[f].json = "broken" => F[f].json = "broken"
  BY DEF Written, SameShape, Filled
<1>5. Chain(G, p) = Chain(F, p) /\ SetFile(G)[FuelOfLoad][p] = SetFile(F)[FuelOfLoad][p]
  BY <1>1, <1>2, <1>4, VisitedAlike DEF Chain
<1>6. /\ LoadServiceFile(F, dirs, p).configSetFile = Given(SetFile(F)[FuelOfLoad][p][None], p)
      /\ LoadServiceFile(G, dirs, p).configSetFile = Given(SetFile(G)[FuelOfLoad][p][None], p)
      /\ LoadServiceFile(G, dirs, p).ok
  <2>1. LoadServiceFile(F, dirs, p).configSetFile = Given(SetFile(F)[FuelOfLoad][p][None], p)
    BY <1>1, LoadValue
  <2>2. None \notin DOMAIN G /\ None \notin Range(Chain(G, p))
    BY <1>1, <1>5 DEF Written
  <2>3. /\ LoadServiceFile(G, dirs, p).configSetFile = Given(SetFile(G)[FuelOfLoad][p][None], p)
        /\ LoadServiceFile(G, dirs, p).ok
    BY <2>2, LoadValue
  <2>q. QED
    BY <2>1, <2>3
<1>q. QED
  BY <1>1, <1>5, <1>6

\* A service one of whose files has been truncated is loaded as before, or not at all.
LEMMA AlikeLoads ==
  ASSUME FuelOfLoad \in Nat, NEW F, NEW G, WellFormed(F), WellFormed(G), None \notin DOMAIN F,
         NEW S, Closed(F, S), Closed(G, S), Alike(F, G, S), NEW p \in S, NEW dirs,
         LoadServiceFile(F, dirs, p).ok, LoadServiceFile(G, dirs, p).ok
  PROVE  LoadServiceFile(G, dirs, p).configSetFile = LoadServiceFile(F, dirs, p).configSetFile
<1>1. None \notin Range(Chain(F, p)) /\ None \notin Range(Chain(G, p))
  BY LoadFails DEF Error
<1>2. FuelOfLoad \in 0..FuelOfLoad /\ None \notin DOMAIN G
  BY DEF Alike
<1>3. SetFile(G)[FuelOfLoad][p] = SetFile(F)[FuelOfLoad][p]
  BY <1>1, <1>2, VisitedAlike DEF Chain
<1>4. LoadServiceFile(F, dirs, p).configSetFile = Given(SetFile(F)[FuelOfLoad][p][None], p)
  BY <1>1, LoadValue
<1>5. LoadServiceFile(G, dirs, p).configSetFile = Given(SetFile(G)[FuelOfLoad][p][None], p)
  BY <1>1, <1>2, LoadValue
<1>q. QED
  BY <1>3, <1>4, <1>5

\* It is disabled as before if its files say of that what they said before.
LEMMA WrittenDisable ==
  ASSUME FuelOfLoad \in Nat, NEW F, NEW G, WellFormed(F), WellFormed(G), None \notin DOMAIN F,
         NEW S, Closed(F, S), Closed(G, S), Written(F, G, S), NEW p \in S, NEW dirs,
         LoadServiceFile(F, dirs, p).ok,
         \A f \in S : SaysDisable(G[f]) = SaysDisable(F[f])
  PROVE  LoadServiceFile(G, dirs, p).disable = LoadServiceFile(F, dirs, p).disable
<1> DEFINE chain == Chain(F, p)
<1>1. None \notin Range(chain) /\ Chain(G, p) = chain /\ None \notin DOMAIN G
  BY WrittenLoads DEF Written
<1>2. chain \in Seq(S) /\ Len(chain) \in Nat
  BY <1>1, ChainEnds
<1>3. Overlaid(G, chain)[Len(chain)].disable = Overlaid(F, chain)[Len(chain)].disable
  <2>1. \A j \in 1..Len(chain) : chain[j] \in S
    BY <1>2
  <2>q. QED
    BY <1>2, <2>1, DisableDecided
<1>4. LoadServiceFile(F, dirs, p).disable = Overlaid(F, chain)[Len(chain)].disable
  BY <1>1, LoadValue DEF Made
<1>5. LoadServiceFile(G, dirs, p).disable = Overlaid(G, chain)[Len(chain)].disable
  BY <1>1, LoadValue DEF Made
<1>q. QED
  BY <1>3, <1>4, <1>5

\* And it says of a variable what it said before, or something new that a file says.
SetAnew(F, G, S, v, new) ==
  \A f \in S : SaysOf(G[f], v) = SaysOf(F[f], v) \/ SaysOf(G[f], v) \in new
LEMMA WrittenConfig ==
  ASSUME FuelOfLoad \in Nat, NEW F, NEW G, WellFormed(F), WellFormed(G), None \notin DOMAIN F,
         NEW S, Closed(F, S), Closed(G, S), Written(F, G, S), NEW p \in S, NEW dirs,
         LoadServiceFile(F, dirs, p).ok, NEW v, NEW new, <<>> \notin new, SetAnew(F, G, S, v, new)
  PROVE  \/ ValueIn(LoadServiceFile(G, dirs, p).config, v) =
              ValueIn(LoadServiceFile(F, dirs, p).config, v)
         \/ ValueIn(LoadServiceFile(G, dirs, p).config, v) \in new
<1> DEFINE chain == Chain(F, p)
<1>1. None \notin Range(chain) /\ Chain(G, p) = chain /\ None \notin DOMAIN G
  BY WrittenLoads DEF Written
<1>2. chain \in Seq(S) /\ Len(chain) \in Nat
  BY <1>1, ChainEnds
<1>3. \/ ValueIn(Overlaid(G, chain)[Len(chain)].config, v) =
            ValueIn(Overlaid(F, chain)[Len(chain)].config, v)
      \/ ValueIn(Overlaid(G, chain)[Len(chain)].config, v) \in new
  <2>1. \A j \in 1..Len(chain) : chain[j] \in S
    BY <1>2
  <2>2. \A j \in 1..Len(chain) : \/ SaysOf(G[chain[j]], v) = SaysOf(F[chain[j]], v)
                               \/ SaysOf(G[chain[j]], v) \in new
    BY <2>1 DEF SetAnew
  <2>q. QED
    BY <1>2, <2>2, ConfigDecided
<1>4. LoadServiceFile(F, dirs, p).config = Overlaid(F, chain)[Len(chain)].config
  BY <1>1, LoadValue DEF Made
<1>5. LoadServiceFile(G, dirs, p).config = Overlaid(G, chain)[Len(chain)].config
  BY <1>1, LoadValue DEF Made
<1>q. QED
  BY <1>3, <1>4, <1>5

(***************************************************************************)
(* The files of a service                                                  *)
(***************************************************************************)
\* A file inherits from files.
LEMMA DomainClosed ==
  ASSUME NEW files, WellFormed(files)
  PROVE  Closed(files, DOMAIN files)
<1>1. ASSUME NEW f \in DOMAIN files, files[f].json = "valid", NEW i \in DOMAIN files[f].inherit
      PROVE  files[f].inherit[i].path \in DOMAIN files
  <2>1. files[f].inherit \in Seq(InheritFile(files))
    BY <1>1 DEF WellFormed
  <2>q. QED
    <3>1. DOMAIN files[f].inherit = 1..Len(files[f].inherit)
      BY <2>1
    <3>2. files[f].inherit[i] \in InheritFile(files)
      BY <2>1, <3>1
    <3>q. QED
      BY <3>2 DEF InheritFile
<1>q. QED
  BY <1>1 DEF Closed

LEMMA FilesOfClosed ==
  ASSUME NEW files, WellFormed(files), NEW p \in DOMAIN files
  PROVE  p \in FilesOf(files, p) /\ Closed(files, FilesOf(files, p))
<1>1. Closed(files, DOMAIN files)
  BY DomainClosed
<1>2. p \in FilesOf(files, p)
  BY DEF FilesOf
<1>3. ASSUME NEW f \in FilesOf(files, p), files[f].json = "valid", NEW i \in DOMAIN files[f].inherit
      PROVE  files[f].inherit[i].path \in FilesOf(files, p)
  <2>1. files[f].inherit[i].path \in DOMAIN files
    BY <1>1, <1>3 DEF Closed, FilesOf
  <2>2. ASSUME NEW S \in SUBSET DOMAIN files, p \in S, Closed(files, S)
        PROVE  files[f].inherit[i].path \in S
    <3>1. f \in S
      BY <2>2 DEF FilesOf
    <3>q. QED
      BY <3>1, <1>3, <2>2 DEF Closed
  <2>q. QED
    BY <2>1, <2>2 DEF FilesOf
<1>q. QED
  BY <1>2, <1>3 DEF Closed, FilesOf

\* The file where changes are written to is one of them.
LEMMA SetFileIn ==
  ASSUME FuelOfLoad \in Nat, NEW files, WellFormed(files), NEW S, Closed(files, S),
         NEW n \in 0..FuelOfLoad, NEW p \in S
  PROVE  SetFile(files)[n][p][None] \in S \union {None}
<1> DEFINE T == S \union {None}
           Good(m) == \A q \in S, v \in T : SetFile(files)[m][q][v] \in T
           N == {m \in Nat : m <= FuelOfLoad => Good(m)}
<1>1. S \subseteq DOMAIN files /\ T \subseteq Places(files)
  BY DEF Closed, Places
<1>a. \A v \in T : Keep(files)[v] = v
  BY <1>1 DEF Keep
<1>2. 0 \in N
  <2>1. 0 \in 0..FuelOfLoad
    OBVIOUS
  <2>q. QED
    BY <1>1, <1>a, <2>1, SetFileValue
<1>3. ASSUME NEW m \in Nat, m \in N PROVE m + 1 \in N
  <2>1. SUFFICES ASSUME m + 1 <= FuelOfLoad, NEW q \in S,
                        NEW v \in T
                 PROVE  SetFile(files)[m + 1][q][v] \in T
    OBVIOUS
  <2>2. /\ Good(m)
        /\ m + 1 \in 0..FuelOfLoad /\ (m + 1) - 1 = m /\ m + 1 # 0 /\ q \in DOMAIN files
    BY <1>1, <1>3, <2>1
  <2>3. CASE files[q].json # "valid"
    BY <1>a, <2>2, <2>3, SetFileValue
  <2>4. CASE files[q].json = "valid"
    <3> DEFINE inherit == files[q].inherit
               below == SetBelow(files, q, SetFile(files)[m])
    <3>1. inherit \in Seq(InheritFile(files))
      BY <2>2, <2>4 DEF WellFormed
    <3>2. DOMAIN inherit = 1..Len(inherit) /\ Len(inherit) \in Nat
      BY <3>1
    <3>3. \A i \in 1..Len(inherit) : inherit[i].path \in S
      BY <2>4, <3>2 DEF Closed
    <3>4. ASSUME NEW i \in 1..Len(inherit), NEW w \in T PROVE below[i][w] \in T
      <4>1. /\ inherit[i].path \in S
            /\ below[i] = IF MayBeMissing(files, inherit[i]) THEN Keep(files)
                          ELSE SetFile(files)[m][inherit[i].path]
        BY <3>2, <3>3 DEF SetBelow
      <4>q. QED
        BY <4>1, <1>a, <2>2
    <3>5. SetFile(files)[m + 1][q] = SetByAll(files, q, SetFile(files)[(m + 1) - 1])
      BY <2>2, <2>4, SetFileValue
    <3>6. SetFile(files)[m + 1][q][v] = SetByEntries(inherit, below, v)
      BY <1>1, <3>5, <2>1, <2>2 DEF SetByAll
    <3>7. \A i \in 1..Len(inherit) : inherit[i].path \in T
      BY <3>3
    <3> HIDE DEF inherit, below, T
    <3>q. QED
      BY <2>1, <3>2, <3>4, <3>6, <3>7, SetByIsEntry
  <2>q. QED
    BY <2>3, <2>4
<1> HIDE DEF N
<1>4. n \in N
  <2>1. \A m \in Nat : m \in N
    BY <1>2, <1>3, NatSet
  <2>q. QED
    BY <2>1
<1>q. QED
  BY <1>4 DEF N

LEMMA ConfigSetFileIn ==
  ASSUME FuelOfLoad \in Nat, NEW files, WellFormed(files), None \notin DOMAIN files,
         NEW S, Closed(files, S), NEW p \in S, NEW dirs, LoadServiceFile(files, dirs, p).ok
  PROVE  LoadServiceFile(files, dirs, p).configSetFile \in S
<1>1. None \notin Range(Chain(files, p))
  BY LoadFails DEF Error
<1>2. LoadServiceFile(files, dirs, p).configSetFile = Given(SetFile(files)[FuelOfLoad][p][None], p)
  BY <1>1, LoadValue
<1>3. SetFile(files)[FuelOfLoad][p][None] \in S \union {None}
  <2>1. FuelOfLoad \in 0..FuelOfLoad
    OBVIOUS
  <2>q. QED
    BY <2>1, SetFileIn
<1>q. QED
  BY <1>2, <1>3 DEF Given

LEMMA AlikeClosed ==
  ASSUME NEW F, NEW G, NEW S, Closed(F, S), Alike(F, G, S)
  PROVE  Closed(G, S)
<1>1. S \subseteq DOMAIN G
  BY DEF Closed, Alike
<1>2. ASSUME NEW f \in S, G[f].json = "valid", NEW i \in DOMAIN G[f].inherit
      PROVE  G[f].inherit[i].path \in S
  <2>1. SameShape(F[f], G[f]) \/ Filled(F[f], G[f])
    BY <1>2 DEF Alike
  <2>2. CASE SameShape(F[f], G[f])
    BY <1>2, <2>2 DEF SameShape, Closed
  <2>3. CASE Filled(F[f], G[f])
    BY <1>2, <2>3 DEF Filled
  <2>q. QED
    BY <2>1, <2>2, <2>3
<1>q. QED
  BY <1>1, <1>2 DEF Closed
=============================================================================
