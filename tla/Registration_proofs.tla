------------------------ MODULE Registration_proofs -------------------------
(***************************************************************************)
(* Configuration units whose items are their own keep their word: active   *)
(* means registered, inactive means gone, and nothing is there twice; and  *)
(* their commands implement what ConfigUnits says of them.                 *)
(***************************************************************************)
EXTENDS Registration, TLAPS

\* Each item belongs to one unit, is listed once, and the object its array lies in
\* is an earlier item of the unit or one of the service's unit.
OwnItems ==
  /\ \A u, v \in Units : \A k \in DOMAIN Items[u], l \in DOMAIN Items[v] :
       Items[u][k].key = Items[v][l].key => u = v /\ k = l
  /\ \A u \in Units : \A k \in DOMAIN Items[u] :
       Home[Items[u][k].mount] # None =>
         \/ \E l \in DOMAIN Items[u] : l < k /\ Items[u][l].key = Home[Items[u][k].mount]
         \/ /\ Parent[u] # None
            /\ \E l \in DOMAIN Items[Parent[u]] :
                 Items[Parent[u]][l].key = Home[Items[u][k].mount]

\* A command runs exactly while the unit is on its way, and waits for the service's
\* unit only before its first item.
StepOK == \A u \in Units :
  /\ pc[u] = "idle" <=> phase[u] \in {"inactive", "active", "failed"}
  /\ pc[u] \in {"parent", "waiting", "refused"} =>
       phase[u] = "register" /\ pos[u] = 1 /\ IsDeployment(u)
  /\ pc[u] = "put" => HasItem(u) /\ (Registers(u) \/ IsScalar(Item(u)))
  /\ Registers(u) => ~backward[u]

TypeInv == TypeOK /\ StepOK

\* A deployment has its items registered only under an active service's unit.
ParentUp == \A u \in Units :
  IsDeployment(u) /\ Items[u] # <<>> /\
    (phase[u] = "active" \/ (phase[u] = "register" /\ pc[u] \in {"get", "put"}))
  => phase[Parent[u]] = "active"

\* What a registration is about to add is not there, or the Etag says it was.
Fresh == \A u \in Units : pc[u] = "put" /\ Registers(u) =>
  /\ IsScalar(Item(u)) => seen[u] \in Tags /\ seen[u].content[Entry(Item(u))] = 0
  /\ ~misread /\ ~IsScalar(Item(u)) /\ seen[u] = None => ~There(Item(u))

\* What a unit has registered so far stays.
Kept == \A u \in Units : \A k \in DOMAIN Items[u] :
  phase[u] = "active" \/ (phase[u] = "register" /\ k < pos[u]) => There(Items[u][k])

\* What a stopping unit has taken out so far stays out.
Done(u, k) == Index(u, k) < pos[u]
Gone == ~misread => \A u \in Units : \A k \in DOMAIN Items[u] :
  phase[u] = "inactive" \/ (phase[u] \in {"post", "undo"} /\ Done(u, k)) => ~There(Items[u][k])

RegistryInv == TypeInv /\ ParentUp /\ NoDuplicate /\ Fresh /\ Kept /\ Gone
-----------------------------------------------------------------------------
(* What a command does to Caddy's configuration and to its unit.           *)

\* A write of u changes its own entry, or empties an array inside its object.
Touches(u) ==
  /\ array' \in [Mounts -> [Entries -> Nat]]
  /\ NoDuplicate'
  /\ \A m \in Mounts, e \in Entries :
       \/ array'[m][e] = array[m][e]
       \/ m = Item(u).mount /\ e = Entry(Item(u))
       \/ Home[m] = Item(u).key /\ array'[m][e] = 0

\* The item is there after the step.
ThereNext(i) == array'[i.mount][Entry(i)] > 0

\* What others see of a step of u.
OthersStay(u) == \A v \in Units \ {u} :
  /\ phase'[v] = phase[v] /\ pos'[v] = pos[v] /\ backward'[v] = backward[v]
  /\ attempt'[v] = attempt[v] /\ seen'[v] = seen[v]
  /\ \/ pc'[v] = pc[v]
     \/ /\ pc[v] = "waiting" /\ Parent[v] = u
        /\ pc'[v] = "refused" \/ (pc'[v] = "get" /\ phase'[u] = "active")

\* Reversing twice is not reversing, and stays within the items.
LEMMA IndexFacts ==
  ASSUME TypeOK, NEW u \in Units, NEW k \in DOMAIN Items[u]
  PROVE  /\ Len(Items[u]) \in Nat /\ DOMAIN Items[u] = 1..Len(Items[u])
         /\ Index(u, k) \in DOMAIN Items[u] /\ Index(u, Index(u, k)) = k
<1>1. Items[u] \in Seq(ItemType)
  BY ItemsAssumption
<1>2. Len(Items[u]) \in Nat /\ DOMAIN Items[u] = 1..Len(Items[u])
  BY <1>1
<1> QED
  BY <1>2 DEF Index, TypeOK

\* A listed item is typed, and its entry is that of its array.
LEMMA ItemFacts ==
  ASSUME NEW u \in Units, NEW k \in DOMAIN Items[u]
  PROVE  /\ Items[u][k] \in AllItems /\ Items[u][k] \in ItemType
         /\ Entry(Items[u][k]) \in Entries
         /\ Items[u][k].mount \in Mounts /\ Items[u][k].key \in Keys
         /\ Entry(Items[u][k]).key = Items[u][k].key
<1>1. Items[u] \in Seq(ItemType)
  BY ItemsAssumption
<1>2. Items[u][k] \in ItemType
  BY <1>1
<1>3. Items[u][k] \in AllItems
  BY DEF AllItems, Range
<1> QED
  BY <1>2, <1>3 DEF ItemType, Entries, Entry

\* The item a command is at.
LEMMA HereFacts ==
  ASSUME TypeOK, NEW u \in Units, HasItem(u)
  PROVE  /\ Index(u, pos[u]) \in DOMAIN Items[u]
         /\ Item(u) = Items[u][Index(u, pos[u])]
         /\ Item(u) \in AllItems /\ Item(u).mount \in Mounts /\ Item(u).key \in Keys
         /\ Entry(Item(u)) \in Entries /\ Entry(Item(u)).key = Item(u).key
<1>1. Items[u] \in Seq(ItemType)
  BY ItemsAssumption
<1>2. Len(Items[u]) \in Nat /\ DOMAIN Items[u] = 1..Len(Items[u])
  BY <1>1
<1>3. pos[u] \in 1..Len(Items[u])
  BY <1>2 DEF TypeOK, HasItem
<1>4. Index(u, pos[u]) \in DOMAIN Items[u]
  BY <1>2, <1>3 DEF Index
<1> QED
  BY <1>4, ItemFacts DEF Item

\* An entry with the @id of a unit's item is that item's.
LEMMA OwnEntry ==
  ASSUME OwnItems, NEW u \in Units, NEW k \in DOMAIN Items[u],
         NEW e \in Entries, e.key = Items[u][k].key
  PROVE  e = Entry(Items[u][k])
<1>1. PICK i \in AllItems : e = Entry(i)
  BY DEF Entries
<1>2. PICK v \in Units : i \in Range(Items[v])
  BY DEF AllItems
<1>3. PICK l \in DOMAIN Items[v] : i = Items[v][l]
  BY <1>2 DEF Range
<1>4. Items[v][l].key = Items[u][k].key
  BY <1>1, <1>3 DEF Entry
<1>5. u = v /\ k = l
  BY <1>4 DEF OwnItems
<1> QED
  BY <1>1, <1>3, <1>5

\* No array lies inside the object of an item mounted on it.
LEMMA NotInItself ==
  ASSUME OwnItems, NEW u \in Units, NEW k \in DOMAIN Items[u]
  PROVE  Home[Items[u][k].mount] # Items[u][k].key
<1> SUFFICES ASSUME Home[Items[u][k].mount] = Items[u][k].key PROVE FALSE
  OBVIOUS
<1>1. Home[Items[u][k].mount] # None
  BY ItemFacts, NoneAssumption
<1>2. CASE \E l \in DOMAIN Items[u] : l < k /\ Items[u][l].key = Items[u][k].key
  <2>1. PICK l \in DOMAIN Items[u] : l < k /\ Items[u][l].key = Items[u][k].key
    BY <1>2
  <2>2. l = k
    BY <2>1 DEF OwnItems
  <2>3. l \in Int
    <3>1. Items[u] \in Seq(ItemType)
      BY ItemsAssumption
    <3> QED
      BY <3>1
  <2> QED
    BY <2>1, <2>2, <2>3
<1>3. CASE /\ Parent[u] # None
           /\ \E l \in DOMAIN Items[Parent[u]] : Items[Parent[u]][l].key = Items[u][k].key
  <2>1. Parent[u] \in Units
    BY <1>3, ParentAssumption
  <2>2. Parent[u] = u
    BY <1>3, <2>1 DEF OwnItems
  <2> QED
    BY <1>3, <2>2, ParentAssumption
<1> QED
  BY <1>1, <1>2, <1>3 DEF OwnItems

\* Emptying the arrays inside an object leaves the others as they are.
LEMMA EmptiedType ==
  ASSUME array \in [Mounts -> [Entries -> Nat]], NEW key
  PROVE  /\ Emptied(key) \in [Mounts -> [Entries -> Nat]]
         /\ \A m \in Mounts : Emptied(key)[m] = IF Home[m] = key THEN Nothing ELSE array[m]
BY DEF Emptied, Nothing

\* A GET that was misread is not forgotten.
LEMMA MisreadStays ==
  ASSUME TypeOK, NEW u \in Units, Command(u)
  PROVE  misread' \in BOOLEAN /\ (misread => misread')
<1>1. NoFault \/ Fault("lost") \/ Fault("refused") \/ Fault("status")
  BY DEF Command, AskParent, ParentFailed, Completed, ItemFails, GetScalar, GetObject, GetMisread,
       PutScalar, PostObject, PatchObject, DeleteObject, PreconditionFails, PutFails,
       RequestRefused, Applied
<1> QED
  BY <1>1 DEF NoFault, Fault, TypeOK

\* registerScalar and deregisterScalar: the array is the one seen, so the value is
\* appended where it was not, or removed alone.
LEMMA PutScalarTouches ==
  ASSUME TypeInv, NoDuplicate, Fresh, NEW u \in Units, PutScalar(u)
  PROVE  Touches(u) /\ (ThereNext(Item(u)) <=> Registers(u))
<1> DEFINE i == Item(u)
           m == i.mount
<1>m. misread => misread'
  BY MisreadStays DEF TypeInv, Command
<1>1. HasItem(u) /\ pc[u] = "put" /\ IsScalar(i) /\ ArrayTag(m) = seen[u]
  BY DEF PutScalar, TypeInv, StepOK
<1>2. m \in Mounts /\ Entry(i) \in Entries
  BY <1>1, HereFacts DEF TypeInv
<1>3. array \in [Mounts -> [Entries -> Nat]]
  BY DEF TypeInv, TypeOK
<1>4. array' = IF Registers(u)
               THEN [array EXCEPT ![m][Entry(i)] = @ + 1]
               ELSE [array EXCEPT ![m] = [seen[u].content EXCEPT ![Entry(i)] = 0]]
  BY DEF PutScalar, Applied
<1>5. seen[u].content = array[m]
  BY <1>1 DEF ArrayTag
<1>6. CASE Registers(u)
  <2>1. array[m][Entry(i)] = 0
    BY <1>1, <1>5, <1>6 DEF Fresh
  <2>2. array' = [array EXCEPT ![m][Entry(i)] = @ + 1]
    BY <1>4, <1>6
  <2>3. array' \in [Mounts -> [Entries -> Nat]]
    BY <1>2, <1>3, <2>2
  <2>4. array'[m][Entry(i)] = 1
    BY <1>2, <1>3, <2>1, <2>2
  <2>5. \A n \in Mounts, e \in Entries : (n = m /\ e = Entry(i)) \/ array'[n][e] = array[n][e]
    BY <1>2, <1>3, <2>2
  <2>6. NoDuplicate'
    BY <1>m, <2>4, <2>5 DEF NoDuplicate
  <2> QED
    BY <1>6, <2>3, <2>4, <2>5, <2>6 DEF Touches, ThereNext
<1>7. CASE ~Registers(u)
  <2>1. array' = [array EXCEPT ![m] = [array[m] EXCEPT ![Entry(i)] = 0]]
    BY <1>4, <1>5, <1>7
  <2>3. array' \in [Mounts -> [Entries -> Nat]]
    BY <1>2, <1>3, <2>1
  <2>4. array'[m][Entry(i)] = 0
    BY <1>2, <1>3, <2>1
  <2>5. \A n \in Mounts, e \in Entries : (n = m /\ e = Entry(i)) \/ array'[n][e] = array[n][e]
    BY <1>2, <1>3, <2>1
  <2>6. NoDuplicate'
    BY <1>m, <2>4, <2>5 DEF NoDuplicate
  <2> QED
    BY <1>7, <2>3, <2>4, <2>5, <2>6 DEF Touches, ThereNext
<1> QED
  BY <1>6, <1>7

\* registerAggregate: POST of an object that is not there.
LEMMA PostObjectTouches ==
  ASSUME TypeInv, NoDuplicate, Fresh, OwnItems, NEW u \in Units, PostObject(u)
  PROVE  Touches(u) /\ ThereNext(Item(u)) /\ Registers(u)
<1> DEFINE i == Item(u)
           m == i.mount
<1>m. misread => misread'
  BY MisreadStays DEF TypeInv, Command
<1>1. HasItem(u) /\ pc[u] = "put" /\ ~IsScalar(i) /\ seen[u] = None /\ Registers(u)
  BY DEF PostObject, TypeInv, StepOK
<1>2. m \in Mounts /\ Entry(i) \in Entries /\ Home[m] # i.key
  BY <1>1, HereFacts, NotInItself DEF TypeInv
<1>3. array \in [Mounts -> [Entries -> Nat]]
  BY DEF TypeInv, TypeOK
<1>4. array' = [Emptied(i.key) EXCEPT ![m][Entry(i)] = @ + 1]
  BY DEF PostObject, Applied
<1>5. ~misread => Emptied(i.key)[m][Entry(i)] = 0
  BY <1>1, <1>2, <1>3, EmptiedType DEF Fresh, There, TypeInv, TypeOK
<1>6. /\ array' \in [Mounts -> [Entries -> Nat]] /\ array'[m][Entry(i)] > 0
      /\ ~misread => array'[m][Entry(i)] = 1
  BY <1>2, <1>3, <1>4, <1>5, EmptiedType
<1>7. \A n \in Mounts, e \in Entries :
        \/ array'[n][e] = array[n][e]
        \/ n = m /\ e = Entry(i)
        \/ Home[n] = i.key /\ array'[n][e] = 0
  BY <1>2, <1>3, <1>4, EmptiedType DEF Nothing
<1>8. NoDuplicate'
  BY <1>6, <1>7, <1>m DEF NoDuplicate
<1> QED
  BY <1>1, <1>6, <1>7, <1>8 DEF Touches, ThereNext

\* registerAggregate: PATCH of the object that is there, which is the unit's own.
LEMMA PatchObjectTouches ==
  ASSUME TypeInv, NoDuplicate, OwnItems, NEW u \in Units, PatchObject(u)
  PROVE  Touches(u) /\ ThereNext(Item(u)) /\ Registers(u)
<1> DEFINE i == Item(u)
           m == i.mount
<1>m. misread => misread'
  BY MisreadStays DEF TypeInv, Command
<1>1. HasItem(u) /\ pc[u] = "put" /\ ~IsScalar(i) /\ Registers(u)
  BY DEF PatchObject, TypeInv, StepOK
<1>2. m \in Mounts /\ Entry(i) \in Entries /\ Home[m] # i.key
  BY <1>1, HereFacts, NotInItself DEF TypeInv
<1>3. array \in [Mounts -> [Entries -> Nat]]
  BY DEF TypeInv, TypeOK
<1>4. PICK e \in Holders(i) :
        array' = [[Emptied(i.key) EXCEPT ![m][e] = @ - 1] EXCEPT ![m][Entry(i)] = @ + 1]
  BY DEF PatchObject, Applied
<1>5. e = Entry(i)
  BY <1>1, OwnEntry, HereFacts DEF Holders, TypeInv
<1>6. Emptied(i.key)[m][Entry(i)] = array[m][Entry(i)] /\ array[m][Entry(i)] > 0
  BY <1>2, <1>3, <1>5, EmptiedType DEF Holders
<1>7. array' = Emptied(i.key)
  BY <1>2, <1>3, <1>4, <1>5, <1>6, EmptiedType
<1>8. array' \in [Mounts -> [Entries -> Nat]] /\ array'[m][Entry(i)] = array[m][Entry(i)]
  BY <1>3, <1>6, <1>7, EmptiedType
<1>9. \A n \in Mounts, x \in Entries :
        array'[n][x] = array[n][x] \/ (Home[n] = i.key /\ array'[n][x] = 0)
  BY <1>3, <1>7, EmptiedType DEF Nothing
<1>10. NoDuplicate'
  BY <1>9, <1>m DEF NoDuplicate
<1> QED
  BY <1>1, <1>6, <1>8, <1>9, <1>10 DEF Touches, ThereNext

\* deregisterAggregate: DELETE takes away the one object there is.
LEMMA DeleteObjectTouches ==
  ASSUME TypeInv, NoDuplicate, OwnItems, NEW u \in Units, DeleteObject(u)
  PROVE  Touches(u) /\ (~misread' => ~ThereNext(Item(u))) /\ ~Registers(u) /\ HasItem(u)
<1> DEFINE i == Item(u)
           m == i.mount
<1>m. misread => misread'
  BY MisreadStays DEF TypeInv, Command
<1>1. HasItem(u) /\ ~Registers(u)
  BY DEF DeleteObject
<1>2. m \in Mounts /\ Entry(i) \in Entries /\ Home[m] # i.key /\ Entry(i).key = i.key
  BY <1>1, HereFacts, NotInItself DEF TypeInv
<1>3. array \in [Mounts -> [Entries -> Nat]]
  BY DEF TypeInv, TypeOK
<1>4. CASE Holders(i) = {} /\ array' = array
  <2>1. ~(array[m][Entry(i)] > 0)
    BY <1>2, <1>4 DEF Holders
  <2> QED
    BY <1>1, <1>3, <1>4, <1>m, <2>1 DEF Touches, ThereNext, NoDuplicate
<1>5. CASE \E e \in Holders(i) : array' = [Emptied(i.key) EXCEPT ![m][e] = @ - 1]
  <2>1. PICK e \in Holders(i) : array' = [Emptied(i.key) EXCEPT ![m][e] = @ - 1]
    BY <1>5
  <2>2. e = Entry(i)
    BY <1>1, OwnEntry, HereFacts DEF Holders, TypeInv
  <2>3. /\ array[m][Entry(i)] > 0 /\ Emptied(i.key)[m][Entry(i)] = array[m][Entry(i)]
        /\ ~misread => array[m][Entry(i)] = 1
    BY <1>2, <1>3, <2>2, EmptiedType DEF Holders, NoDuplicate
  <2>4. /\ array' \in [Mounts -> [Entries -> Nat]]
        /\ array'[m][Entry(i)] = array[m][Entry(i)] - 1
    BY <1>2, <1>3, <2>1, <2>2, <2>3, EmptiedType
  <2>5. \A n \in Mounts, x \in Entries :
          \/ array'[n][x] = array[n][x]
          \/ n = m /\ x = Entry(i)
          \/ Home[n] = i.key /\ array'[n][x] = 0
    BY <1>2, <1>3, <2>1, <2>2, EmptiedType DEF Nothing
  <2>6. NoDuplicate'
    BY <1>m, <2>3, <2>4, <2>5 DEF NoDuplicate
  <2> QED
    BY <1>1, <1>2, <1>m, <2>3, <2>4, <2>5, <2>6 DEF Touches, ThereNext
<1> QED
  BY <1>4, <1>5 DEF DeleteObject, Applied
-----------------------------------------------------------------------------
(* The outcomes of a step of a command.                                    *)

\* The last item is done.
Ended(u) == pc[u] = "get" /\ ~HasItem(u) /\ array' = array /\ Succeeds(u)

\* The attempt is over; a write whose answer was lost may have been applied.
Failed(u) == AttemptFails(u) /\ (array' = array \/ (HasItem(u) /\ Touches(u)))

\* An item is done.
Advanced(u) ==
  /\ HasItem(u) /\ pc[u] \in {"get", "put"}
  /\ NextItem(u) /\ Touches(u)
  /\ IF Registers(u) THEN ThereNext(Item(u)) ELSE ~misread' => ~ThereNext(Item(u))

\* Nothing but a read.
ReadFor(u, label) ==
  /\ pc' = [pc EXCEPT ![u] = label]
  /\ seen' \in [Units -> Tags \union {None}]
  /\ \A v \in Units \ {u} : seen'[v] = seen[v]
  /\ UNCHANGED <<array, phase, pos, backward, attempt>>

Reads(u) ==
  \/ /\ ReadFor(u, "put")
     /\ pc[u] = "get" /\ HasItem(u) /\ (Registers(u) \/ IsScalar(Item(u)))
     /\ Registers(u) /\ IsScalar(Item(u)) =>
          seen'[u] \in Tags /\ seen'[u].content[Entry(Item(u))] = 0
     /\ ~misread' /\ ~IsScalar(Item(u)) /\ seen'[u] = None => ~There(Item(u))
  \/ /\ ReadFor(u, "get")
     /\ pc[u] = "put" \/ (pc[u] = "parent" /\ phase[Parent[u]] = "active")
  \/ ReadFor(u, "waiting") /\ pc[u] = "parent"

\* What an Etag stands for.
LEMMA TagsType ==
  ASSUME TypeOK
  PROVE  /\ \A m \in Mounts : ArrayTag(m) \in Tags
         /\ \A e \in Entries : ObjectTag(e) \in Tags
<1>1. array \in [Mounts -> [Entries -> Nat]] /\ Nothing \in [Entries -> Nat]
  BY DEF TypeOK, Nothing
<1>2. \A keys : Inside(keys) \in [Mounts -> [Entries -> Nat]]
  BY <1>1 DEF Inside
<1>3. \A e \in Entries : [Nothing EXCEPT ![e] = 1] \in [Entries -> Nat]
  BY <1>1
<1> QED
  BY <1>1, <1>2, <1>3 DEF ArrayTag, ObjectTag, Tags

\* No write at all is the least of writes.
LEMMA StaysTouches ==
  ASSUME TypeOK, NoDuplicate, NEW u \in Units, array' = array, misread => misread'
  PROVE  Touches(u)
BY DEF TypeOK, NoDuplicate, Touches

\* Each action of a command has one of the four outcomes.
LEMMA Outcomes ==
  ASSUME RegistryInv, OwnItems, NEW u \in Units, Command(u)
  PROVE  Ended(u) \/ Failed(u) \/ Advanced(u) \/ Reads(u)
<1> USE DEF RegistryInv
<1>0. TypeInv /\ TypeOK /\ StepOK /\ NoDuplicate /\ Fresh
  BY DEF TypeInv
<1>m. misread => misread'
  BY <1>0, MisreadStays
<1>1. CASE AskParent(u)
  BY <1>0, <1>1 DEF AskParent, Reads, ReadFor, TypeOK
<1>2. CASE ParentFailed(u)
  BY <1>2 DEF ParentFailed, Failed
<1>3. CASE Completed(u)
  BY <1>3 DEF Completed, Ended
<1>4. CASE ItemFails(u)
  BY <1>4 DEF ItemFails, Failed
<1>5. CASE GetScalar(u)
  <2> DEFINE i == Item(u)
  <2>1. pc[u] = "get" /\ HasItem(u) /\ IsScalar(i) /\ array' = array
    BY <1>5 DEF GetScalar
  <2>2. CASE (There(i) <=> Registers(u)) /\ NextItem(u)
    BY <1>0, <1>m, <2>1, <2>2, StaysTouches DEF Advanced, There, ThereNext
  <2>3. CASE /\ ~(There(i) <=> Registers(u))
             /\ pc' = [pc EXCEPT ![u] = "put"]
             /\ seen' = [seen EXCEPT ![u] = ArrayTag(i.mount)]
             /\ UNCHANGED <<phase, pos, backward, attempt>>
    <3>1. i.mount \in Mounts /\ Entry(i) \in Entries
      BY <1>0, <2>1, HereFacts
    <3>2. ArrayTag(i.mount) \in Tags /\ ArrayTag(i.mount).content = array[i.mount]
      BY <1>0, <3>1, TagsType DEF ArrayTag
    <3>3. seen \in [Units -> Tags \union {None}] /\ array[i.mount][Entry(i)] \in Nat
      BY <1>0, <3>1 DEF TypeOK
    <3>4. seen' \in [Units -> Tags \union {None}] /\ seen'[u] = ArrayTag(i.mount)
      BY <2>3, <3>2, <3>3
    <3>5. Registers(u) => seen'[u].content[Entry(i)] = 0
      BY <2>3, <3>2, <3>3, <3>4 DEF There
    <3>6. ReadFor(u, "put")
      BY <2>1, <2>3, <3>3, <3>4 DEF ReadFor
    <3> QED
      BY <2>1, <3>2, <3>4, <3>5, <3>6 DEF Reads
  <2> QED
    BY <1>5, <2>2, <2>3 DEF GetScalar
<1>6. CASE GetObject(u)
  <2> DEFINE i == Item(u)
  <2>1. /\ pc[u] = "get" /\ HasItem(u) /\ Registers(u) /\ ~IsScalar(i)
        /\ UNCHANGED <<array, phase, pos, backward, attempt>>
        /\ pc' = [pc EXCEPT ![u] = "put"]
    BY <1>6 DEF GetObject
  <2>2. seen \in [Units -> Tags \union {None}]
    BY <1>0 DEF TypeOK
  <2>3. CASE Holders(i) = {} /\ UNCHANGED seen
    <3>1. Entry(i) \in Entries /\ Entry(i).key = i.key
      BY <1>0, <2>1, HereFacts
    <3>2. ~There(i)
      BY <2>3, <3>1 DEF Holders, There
    <3> QED
      BY <2>1, <2>2, <2>3, <3>2 DEF Reads, ReadFor
  <2>4. CASE \E e \in Holders(i) : seen' = [seen EXCEPT ![u] = ObjectTag(e)]
    <3>1. PICK e \in Holders(i) : seen' = [seen EXCEPT ![u] = ObjectTag(e)]
      BY <2>4
    <3>2. ObjectTag(e) \in Tags
      BY <1>0, TagsType DEF Holders
    <3>3. seen'[u] # None /\ seen' \in [Units -> Tags \union {None}]
      BY <2>2, <3>1, <3>2, NoneAssumption
    <3> QED
      BY <2>1, <2>2, <3>1, <3>3 DEF Reads, ReadFor
  <2> QED
    BY <1>6, <2>3, <2>4 DEF GetObject
<1>7. CASE PutScalar(u)
  <2>1. HasItem(u) /\ pc[u] = "put"
    BY <1>0, <1>7 DEF PutScalar, StepOK
  <2>2. NextItem(u) \/ AttemptFails(u)
    BY <1>7 DEF PutScalar, Applied
  <2> QED
    BY <1>0, <1>7, <2>1, <2>2, PutScalarTouches DEF Advanced, Failed
<1>8. CASE PostObject(u)
  <2>1. HasItem(u) /\ pc[u] = "put"
    BY <1>0, <1>8 DEF PostObject, StepOK
  <2>2. NextItem(u) \/ AttemptFails(u)
    BY <1>8 DEF PostObject, Applied
  <2> QED
    BY <1>0, <1>8, <2>1, <2>2, PostObjectTouches DEF Advanced, Failed
<1>9. CASE PatchObject(u)
  <2>1. HasItem(u) /\ pc[u] = "put"
    BY <1>0, <1>9 DEF PatchObject, StepOK
  <2>2. NextItem(u) \/ AttemptFails(u)
    BY <1>9 DEF PatchObject, Applied
  <2> QED
    BY <1>0, <1>9, <2>1, <2>2, PatchObjectTouches DEF Advanced, Failed
<1>10. CASE DeleteObject(u)
  <2>1. pc[u] = "get"
    BY <1>10 DEF DeleteObject
  <2>2. NextItem(u) \/ AttemptFails(u)
    BY <1>10 DEF DeleteObject, Applied
  <2> QED
    BY <1>0, <1>10, <2>1, <2>2, DeleteObjectTouches DEF Advanced, Failed
<1>11. CASE PreconditionFails(u)
  BY <1>0, <1>11 DEF PreconditionFails, Reads, ReadFor, TypeOK
<1>12. CASE PutFails(u)
  BY <1>12 DEF PutFails, Failed
<1>13. CASE RequestRefused(u)
  BY <1>13 DEF RequestRefused, Failed
<1>14. CASE GetMisread(u)
  BY <1>0, <1>14 DEF GetMisread, Fault, Reads, ReadFor, TypeOK
<1> QED
  BY <1>1, <1>2, <1>3, <1>4, <1>5, <1>6, <1>7, <1>8, <1>9, <1>10, <1>11, <1>12, <1>13, <1>14
     DEF Command

\* What the step of a unit is for the others.
LEMMA Others ==
  ASSUME TypeOK, NEW u \in Units, Ended(u) \/ Failed(u) \/ Advanced(u) \/ Reads(u)
  PROVE  OthersStay(u)
<1> USE DEF TypeOK, OthersStay
<1>1. ASSUME NEW ph, Begins(u, ph) PROVE OthersStay(u)
  BY <1>1 DEF Begins
<1>2. ASSUME NEW ph, NEW wake, Settles(u, ph, wake),
             wake \in {"waiting", "refused"} \/ (wake = "get" /\ ph = "active")
      PROVE  OthersStay(u)
  BY <1>2 DEF Settles
<1>3. CASE Ended(u)
  BY <1>1, <1>2, <1>3 DEF Ended, Succeeds
<1>4. CASE Failed(u)
  <2>1. CASE Retries(u)
    BY <2>1 DEF Retries
  <2>2. CASE Fails(u)
    BY <1>1, <1>2, <2>2 DEF Fails
  <2> QED
    BY <1>4, <2>1, <2>2 DEF Failed, AttemptFails
<1>5. CASE Advanced(u)
  BY <1>5 DEF Advanced, NextItem
<1>6. CASE Reads(u)
  BY <1>6 DEF Reads, ReadFor
<1> QED
  BY <1>3, <1>4, <1>5, <1>6

\* Where the unit of a command is after the outcome.
LEMMA Own ==
  ASSUME TypeInv, NEW u \in Units, Ended(u) \/ Failed(u) \/ Advanced(u)
  PROVE  \/ /\ phase[u] = "pre" /\ phase'[u] = "register" /\ pos'[u] = 1
            /\ pc'[u] = (IF IsDeployment(u) /\ Items[u] # <<>> THEN "parent" ELSE "get")
            /\ ~backward'[u]
         \/ phase[u] = "register" /\ phase'[u] = "undo" /\ pos'[u] = 1 /\ pc'[u] = "get"
         \/ /\ Ended(u) /\ phase[u] = "register" /\ phase'[u] = "active"
            /\ pos'[u] = 1 /\ pc'[u] = "idle" /\ ~backward'[u]
         \/ /\ Ended(u) /\ phase[u] = "post" /\ phase'[u] = "inactive"
            /\ pos'[u] = 1 /\ pc'[u] = "idle"
         \/ phase[u] \in {"post", "undo"} /\ phase'[u] = "failed" /\ pc'[u] = "idle"
         \/ /\ CanRetry(u) /\ phase[u] # "register"
            /\ phase'[u] = phase[u] /\ pos'[u] = 1 /\ pc'[u] = "get"
         \/ /\ Advanced(u) /\ phase'[u] = phase[u] /\ pc'[u] = "get"
            /\ pos'[u] = pos[u] + 1 /\ backward'[u] = backward[u]
<1> USE DEF TypeInv, TypeOK
<1>1. CASE Ended(u)
  BY <1>1 DEF Ended, Succeeds, Begins, Settles
<1>2. CASE Failed(u)
  <2>1. CASE CanRetry(u) /\ Retries(u)
    <3>1. phase'[u] = phase[u] /\ pos'[u] = 1 /\ pc'[u] = "get" /\ phase[u] # "register"
      BY <2>1 DEF Retries, CanRetry, Registers
    <3> QED
      BY <2>1, <3>1
  <2>2. CASE Fails(u)
    BY <2>2 DEF Fails, Begins, Settles
  <2> QED
    BY <1>2, <2>1, <2>2 DEF Failed, AttemptFails
<1>3. CASE Advanced(u)
  BY <1>3 DEF Advanced, NextItem
<1> QED
  BY <1>1, <1>2, <1>3

\* A command runs.
LEMMA Runs ==
  ASSUME TypeInv, NEW u \in Units, Command(u)
  PROVE  phase[u] \in {"pre", "register", "post", "undo"}
<1>1. pc[u] # "idle"
  BY DEF Command, AskParent, ParentFailed, Completed, ItemFails, GetScalar, GetObject, GetMisread,
         PutScalar, PostObject, PatchObject, DeleteObject, PreconditionFails, PutFails,
         RequestRefused
<1> QED
  BY <1>1 DEF TypeInv, TypeOK, StepOK, Phases
-----------------------------------------------------------------------------
(* A step of a command preserves each part of the invariant.               *)

\* Positions, labels and Etags stay in their types.
LEMMA CommandType ==
  ASSUME RegistryInv, OwnItems, NEW u \in Units, Command(u)
  PROVE  TypeOK'
<1>0. TypeOK /\ StepOK /\ TypeInv
  BY DEF RegistryInv, TypeInv
<1>1. Ended(u) \/ Failed(u) \/ Advanced(u) \/ Reads(u)
  BY Outcomes
<1>2. array' \in [Mounts -> [Entries -> Nat]]
  BY <1>0, <1>1 DEF TypeOK, Ended, Failed, Advanced, Reads, ReadFor, Touches
<1>3. again' \in SUBSET Units
  <2>1. CASE AskParent(u)
    <3>1. Parent[u] \in Units
      BY <1>0, <2>1, ParentAssumption DEF AskParent, StepOK, IsDeployment
    <3> QED
      BY <1>0, <2>1, <3>1 DEF AskParent, TypeOK
  <2>2. CASE ~AskParent(u)
    <3>1. UNCHANGED again
      BY <2>2 DEF Command, ParentFailed, Completed, ItemFails, GetScalar, GetObject, GetMisread,
           PutScalar, PostObject, PatchObject, DeleteObject, PreconditionFails, PutFails,
           RequestRefused, Applied
    <3> QED
      BY <1>0, <3>1 DEF TypeOK
  <2> QED
    BY <2>1, <2>2
<1>4. faults' \in 0..MaxFaults /\ orders' = orders
  <2>1. NoFault \/ Fault("lost") \/ Fault("refused") \/ Fault("status")
    BY DEF Command, AskParent, ParentFailed, Completed, ItemFails, GetScalar, GetObject, GetMisread,
         PutScalar, PostObject, PatchObject, DeleteObject, PreconditionFails, PutFails,
         RequestRefused, Applied
  <2> QED
    BY <1>0, <2>1, FaultsAssumption DEF NoFault, Fault, TypeOK
<1>5. ASSUME NEW ph \in Phases, Begins(u, ph)
      PROVE  /\ phase' \in [Units -> Phases] /\ pc' \in [Units -> Labels]
             /\ pos' \in [Units -> Nat \ {0}] /\ backward' \in [Units -> BOOLEAN]
             /\ attempt' \in [Units -> {1, 2}] /\ seen' \in [Units -> Tags \union {None}]
  BY <1>0, <1>5 DEF Begins, TypeOK, Labels
<1>6. ASSUME NEW ph \in Phases, NEW wake \in Labels, Settles(u, ph, wake)
      PROVE  /\ phase' \in [Units -> Phases] /\ pc' \in [Units -> Labels]
             /\ pos' \in [Units -> Nat \ {0}] /\ backward' \in [Units -> BOOLEAN]
             /\ attempt' \in [Units -> {1, 2}] /\ seen' \in [Units -> Tags \union {None}]
  BY <1>0, <1>6 DEF Settles, TypeOK, Labels
<1>7. /\ phase' \in [Units -> Phases] /\ pc' \in [Units -> Labels]
      /\ pos' \in [Units -> Nat \ {0}] /\ backward' \in [Units -> BOOLEAN]
      /\ attempt' \in [Units -> {1, 2}] /\ seen' \in [Units -> Tags \union {None}]
  <2>1. CASE Ended(u)
    BY <2>1, <1>5, <1>6 DEF Ended, Succeeds, Phases, Labels
  <2>2. CASE Failed(u) /\ ~CanRetry(u)
    BY <2>2, <1>5, <1>6 DEF Failed, AttemptFails, Fails, Phases, Labels
  <2>3. CASE Failed(u) /\ CanRetry(u)
    <3>1. Retries(u) /\ attempt[u] = 1
      BY <2>3 DEF Failed, AttemptFails, CanRetry
    <3>2. attempt' = [attempt EXCEPT ![u] = 2]
      BY <1>0, <3>1 DEF Retries, TypeOK
    <3> QED
      BY <1>0, <3>1, <3>2 DEF Retries, TypeOK, Labels
  <2>4. CASE Advanced(u)
    BY <1>0, <2>4 DEF Advanced, NextItem, TypeOK, Labels
  <2>5. CASE Reads(u)
    BY <1>0, <2>5 DEF Reads, ReadFor, TypeOK, Labels
  <2> QED
    BY <1>1, <2>1, <2>2, <2>3, <2>4, <2>5
<1> QED
  BY <1>0, <1>2, <1>3, <1>4, <1>7, MisreadStays DEF TypeOK

\* The place of the command fits the phase of its unit.
LEMMA CommandStepOK ==
  ASSUME RegistryInv, OwnItems, NEW u \in Units, Command(u)
  PROVE  StepOK'
<1>0. TypeOK /\ StepOK /\ TypeInv
  BY DEF RegistryInv, TypeInv
<1>1. Ended(u) \/ Failed(u) \/ Advanced(u) \/ Reads(u)
  BY Outcomes
<1>2. OthersStay(u)
  BY <1>0, <1>1, Others
<1>3. phase[u] \in {"pre", "register", "post", "undo"}
  BY <1>0, Runs
<1> DEFINE OK(v) ==
      /\ pc[v] = "idle" <=> phase[v] \in {"inactive", "active", "failed"}
      /\ pc[v] \in {"parent", "waiting", "refused"} =>
           phase[v] = "register" /\ pos[v] = 1 /\ IsDeployment(v)
      /\ pc[v] = "put" => HasItem(v) /\ (Registers(v) \/ IsScalar(Item(v)))
      /\ Registers(v) => ~backward[v]
<1>4. ASSUME NEW v \in Units, v # u
      PROVE  OK(v)'
  BY <1>0, <1>2, <1>4 DEF OthersStay, StepOK, HasItem, Registers, Item, Index
<1>5. OK(u)'
  <2>1. CASE Ended(u) \/ Failed(u) \/ Advanced(u)
    BY <1>0, <1>3, <2>1, Own DEF StepOK, Registers
  <2>2. CASE Reads(u)
    BY <1>0, <1>3, <2>2 DEF Reads, ReadFor, StepOK, HasItem, Registers, Item, Index, TypeOK
  <2> QED
    BY <1>1, <2>1, <2>2
<1>6. \A v \in Units : OK(v)'
  BY <1>4, <1>5
<1> QED
  BY <1>6 DEF StepOK

\* A deployment gets to its items, and stays active, under an active parent only.
LEMMA CommandParentUp ==
  ASSUME RegistryInv, OwnItems, NEW u \in Units, Command(u)
  PROVE  ParentUp'
<1>0. TypeOK /\ StepOK /\ TypeInv /\ ParentUp
  BY DEF RegistryInv, TypeInv
<1>1. Ended(u) \/ Failed(u) \/ Advanced(u) \/ Reads(u)
  BY Outcomes
<1>2. OthersStay(u)
  BY <1>0, <1>1, Others
<1>3. phase[u] \in {"pre", "register", "post", "undo"}
  BY <1>0, Runs
<1> SUFFICES ASSUME NEW v \in Units, IsDeployment(v), Items[v] # <<>>,
                    \/ phase'[v] = "active"
                    \/ phase'[v] = "register" /\ pc'[v] \in {"get", "put"}
             PROVE  phase'[Parent[v]] = "active"
  BY DEF ParentUp, IsDeployment
<1>4. Parent[v] \in Units /\ Parent[v] # v
  BY ParentAssumption DEF IsDeployment
<1>5. CASE v # u
  BY <1>0, <1>2, <1>3, <1>4, <1>5 DEF OthersStay, ParentUp
<1>6. CASE v = u
  <2>1. \/ phase[u] = "register" /\ pc[u] \in {"get", "put"}
        \/ phase[Parent[u]] = "active"
    <3>1. CASE Ended(u) \/ Failed(u) \/ Advanced(u)
      BY <1>0, <1>3, <1>6, <3>1, Own DEF Ended, Advanced
    <3>2. CASE Reads(u)
      BY <1>0, <1>3, <1>6, <3>2 DEF Reads, ReadFor, StepOK, TypeOK
    <3> QED
      BY <1>1, <3>1, <3>2
  <2>2. phase[Parent[u]] = "active"
    BY <1>0, <1>6, <2>1 DEF ParentUp
  <2> QED
    BY <1>2, <1>4, <1>6, <2>2 DEF OthersStay
<1> QED
  BY <1>5, <1>6

\* A write leaves another item as it is, unless that item's array lies in the object
\* the write is about; then it is gone.
LEMMA OtherItems ==
  ASSUME TypeOK, OwnItems, NEW u \in Units, HasItem(u), Touches(u),
         NEW v \in Units, NEW k \in DOMAIN Items[v],
         ~(v = u /\ k = Index(u, pos[u]))
  PROVE  \/ ThereNext(Items[v][k]) <=> There(Items[v][k])
         \/ Home[Items[v][k].mount] = Item(u).key /\ ~ThereNext(Items[v][k])
<1>1. Index(u, pos[u]) \in DOMAIN Items[u] /\ Item(u) = Items[u][Index(u, pos[u])]
  BY HereFacts
<1>2. Items[v][k].key # Item(u).key
  BY <1>1 DEF OwnItems
<1>3. /\ Items[v][k].mount \in Mounts /\ Entry(Items[v][k]) \in Entries
      /\ Entry(Items[v][k]).key = Items[v][k].key
  BY ItemFacts
<1>4. Entry(Items[v][k]) # Entry(Item(u))
  BY <1>2, <1>3, HereFacts
<1> QED
  BY <1>3, <1>4 DEF Touches, There, ThereNext

\* What is registered stays there when another unit writes.
LEMMA OthersKept ==
  ASSUME RegistryInv, OwnItems, NEW u \in Units, HasItem(u), Touches(u),
         phase[u] # "active",
         NEW v \in Units \ {u}, NEW k \in DOMAIN Items[v], There(Items[v][k]),
         phase[v] = "active" \/ (phase[v] = "register" /\ pc[v] \in {"get", "put"})
  PROVE  ThereNext(Items[v][k])
<1>0. TypeOK /\ ParentUp
  BY DEF RegistryInv, TypeInv
<1>1. SUFFICES ASSUME Home[Items[v][k].mount] = Item(u).key PROVE FALSE
  BY <1>0, OtherItems
<1>2. Home[Items[v][k].mount] # None
  BY <1>0, <1>1, HereFacts, NoneAssumption
<1>3. Index(u, pos[u]) \in DOMAIN Items[u] /\ Item(u) = Items[u][Index(u, pos[u])]
  BY <1>0, HereFacts
<1>4. ~ \E l \in DOMAIN Items[v] : Items[v][l].key = Item(u).key
  BY <1>3 DEF OwnItems
<1>5. /\ Parent[v] # None
      /\ \E l \in DOMAIN Items[Parent[v]] : Items[Parent[v]][l].key = Item(u).key
  BY <1>1, <1>2, <1>4 DEF OwnItems
<1>6. Parent[v] \in Units
  BY <1>5, ParentAssumption
<1>7. Parent[v] = u
  BY <1>3, <1>5, <1>6 DEF OwnItems
<1>8. Items[v] # <<>>
  OBVIOUS
<1> QED
  BY <1>0, <1>5, <1>7, <1>8 DEF ParentUp, IsDeployment

\* A read tells what is not there, and others do not add it.
LEMMA CommandFresh ==
  ASSUME RegistryInv, OwnItems, NEW u \in Units, Command(u)
  PROVE  Fresh'
<1>0. TypeOK /\ StepOK /\ TypeInv /\ Fresh
  BY DEF RegistryInv, TypeInv
<1>m. misread => misread'
  BY <1>0, MisreadStays
<1>1. Ended(u) \/ Failed(u) \/ Advanced(u) \/ Reads(u)
  BY Outcomes
<1>2. OthersStay(u)
  BY <1>0, <1>1, Others
<1> SUFFICES ASSUME NEW v \in Units, (pc[v] = "put" /\ Registers(v))'
             PROVE  /\ IsScalar(Item(v))' =>
                         seen'[v] \in Tags /\ seen'[v].content[Entry(Item(v))'] = 0
                    /\ ~misread' /\ ~IsScalar(Item(v))' /\ seen'[v] = None => ~There(Item(v))'
  BY DEF Fresh
<1>3. CASE v # u
  <2>1. /\ pc[v] = "put" /\ Registers(v) /\ seen'[v] = seen[v] /\ Item(v)' = Item(v)
        /\ HasItem(v)
    BY <1>0, <1>2, <1>3 DEF OthersStay, Registers, Item, Index, StepOK
  <2>2. ~There(Item(v)) => ~ThereNext(Item(v))
    <3>1. CASE array' = array
      BY <3>1 DEF There, ThereNext
    <3>2. CASE HasItem(u) /\ Touches(u)
      <4>1. Index(v, pos[v]) \in DOMAIN Items[v] /\ Item(v) = Items[v][Index(v, pos[v])]
        BY <1>0, <2>1, HereFacts
      <4> QED
        BY <1>0, <1>3, <3>2, <4>1, OtherItems
    <3> QED
      BY <1>1, <3>1, <3>2 DEF Ended, Failed, Advanced, Reads, ReadFor
  <2>3. There(Item(v))' <=> ThereNext(Item(v))
    BY <2>1 DEF There, ThereNext
  <2>4. Entry(Item(v))' = Entry(Item(v)) /\ (IsScalar(Item(v))' <=> IsScalar(Item(v)))
    BY <2>1 DEF Entry, IsScalar
  <2> QED
    BY <1>0, <1>m, <2>1, <2>2, <2>3, <2>4 DEF Fresh
<1>4. CASE v = u
  <2>1. Reads(u) /\ pc'[u] = "put"
    BY <1>0, <1>1, <1>4, Own
  <2>2. /\ ReadFor(u, "put") /\ HasItem(u)
        /\ Registers(u) /\ IsScalar(Item(u)) =>
             seen'[u] \in Tags /\ seen'[u].content[Entry(Item(u))] = 0
        /\ ~misread' /\ ~IsScalar(Item(u)) /\ seen'[u] = None => ~There(Item(u))
    BY <1>0, <2>1 DEF Reads, ReadFor, TypeOK
  <2>3. Item(u)' = Item(u) /\ Registers(u) /\ array' = array
    BY <1>4, <2>2 DEF ReadFor, Registers, Item, Index
  <2> QED
    BY <1>4, <2>2, <2>3 DEF There, Entry, IsScalar
<1> QED
  BY <1>3, <1>4

\* A write adds only what was not there.
LEMMA CommandNoDuplicate ==
  ASSUME RegistryInv, OwnItems, NEW u \in Units, Command(u)
  PROVE  NoDuplicate'
<1>1. Ended(u) \/ Failed(u) \/ Advanced(u) \/ Reads(u)
  BY Outcomes
<1>m. misread => misread'
  BY MisreadStays DEF RegistryInv, TypeInv
<1>2. array' = array \/ NoDuplicate'
  BY <1>1 DEF Ended, Failed, Advanced, Reads, ReadFor, Touches
<1> QED
  BY <1>2, <1>m DEF RegistryInv, NoDuplicate

\* What has been registered stays; an item is left when it is there.
LEMMA CommandKept ==
  ASSUME RegistryInv, OwnItems, NEW u \in Units, Command(u)
  PROVE  Kept'
<1>0. TypeOK /\ StepOK /\ TypeInv /\ ParentUp /\ Kept
  BY DEF RegistryInv, TypeInv
<1>1. Ended(u) \/ Failed(u) \/ Advanced(u) \/ Reads(u)
  BY Outcomes
<1>2. OthersStay(u)
  BY <1>0, <1>1, Others
<1>3. phase[u] \in {"pre", "register", "post", "undo"}
  BY <1>0, Runs
<1> SUFFICES ASSUME NEW v \in Units, NEW k \in DOMAIN Items[v],
                    phase'[v] = "active" \/ (phase'[v] = "register" /\ k < pos'[v])
             PROVE  ThereNext(Items[v][k])
  BY DEF Kept, There, ThereNext
<1>4. /\ Len(Items[v]) \in Nat /\ DOMAIN Items[v] = 1..Len(Items[v])
      /\ k \in 1..Len(Items[v]) /\ pos[v] \in Nat
  BY <1>0, IndexFacts DEF TypeOK
<1>5. CASE v # u
  <2>1. /\ phase'[v] = phase[v] /\ pos'[v] = pos[v]
        /\ There(Items[v][k])
    BY <1>0, <1>2, <1>5 DEF OthersStay, Kept
  <2>2. phase[v] = "active" \/ (phase[v] = "register" /\ pc[v] \in {"get", "put"})
    <3>1. CASE phase[v] = "register" /\ k < pos[v]
      <4>1. pos[v] # 1 /\ pc[v] \in Labels
        BY <1>0, <1>4, <3>1 DEF TypeOK
      <4> QED
        BY <1>0, <3>1, <4>1 DEF StepOK, Labels
    <3> QED
      BY <2>1, <3>1
  <2>3. array' = array \/ (HasItem(u) /\ Touches(u))
    BY <1>1 DEF Ended, Failed, Advanced, Reads, ReadFor
  <2> QED
    BY <1>0, <1>3, <1>5, <2>1, <2>2, <2>3, OthersKept DEF There, ThereNext
<1>6. CASE v = u
  <2>1. CASE Reads(u)
    BY <1>0, <1>6, <2>1 DEF Reads, ReadFor, Kept, There, ThereNext
  <2>2. CASE Ended(u) /\ phase[u] = "register"
    <3>1. k < pos[u] /\ array' = array
      BY <1>4, <1>6, <2>2 DEF Ended, HasItem
    <3> QED
      BY <1>0, <1>6, <2>2, <3>1 DEF Kept, There, ThereNext
  <2>3. CASE Advanced(u) /\ phase[u] = "register" /\ pos'[u] = pos[u] + 1
    <3>1. Index(u, pos[u]) = pos[u] /\ HasItem(u) /\ Registers(u) /\ Touches(u)
      BY <1>0, <2>3 DEF StepOK, Registers, Index, Advanced
    <3>2. CASE k = pos[u]
      BY <1>6, <2>3, <3>1, <3>2 DEF Advanced, Item
    <3>3. CASE k < pos[u]
      <4>1. There(Items[u][k])
        BY <1>0, <1>6, <2>3, <3>3 DEF Kept
      <4>2. Home[Items[u][k].mount] # Item(u).key
        <5>1. SUFFICES ASSUME Home[Items[u][k].mount] = Item(u).key PROVE FALSE
          OBVIOUS
        <5>2. /\ Home[Items[u][k].mount] # None
              /\ pos[u] \in DOMAIN Items[u] /\ Item(u) = Items[u][pos[u]]
          BY <1>0, <3>1, <5>1, HereFacts, NoneAssumption
        <5>3. CASE \E l \in DOMAIN Items[u] : l < k /\ Items[u][l].key = Item(u).key
          <6>1. PICK l \in DOMAIN Items[u] : l < k /\ Items[u][l].key = Item(u).key
            BY <5>3
          <6>2. l = pos[u] /\ l \in Int
            BY <1>4, <1>6, <5>2, <6>1 DEF OwnItems
          <6> QED
            BY <1>4, <3>3, <6>1, <6>2
        <5>4. CASE /\ Parent[u] # None
                   /\ \E l \in DOMAIN Items[Parent[u]] :
                        Items[Parent[u]][l].key = Item(u).key
          <6>1. Parent[u] \in Units
            BY <5>4, ParentAssumption
          <6>2. Parent[u] = u
            BY <5>2, <5>4, <6>1 DEF OwnItems
          <6> QED
            BY <5>4, <6>2, ParentAssumption
        <5> QED
          BY <1>6, <5>1, <5>2, <5>3, <5>4 DEF OwnItems
      <4>3. k # Index(u, pos[u])
        BY <1>4, <1>6, <3>1, <3>3
      <4> QED
        BY <1>0, <1>6, <3>1, <4>1, <4>2, <4>3, OtherItems
    <3>4. phase'[u] = "register"
      BY <2>3 DEF Advanced, NextItem
    <3> QED
      BY <1>4, <1>6, <2>3, <3>2, <3>3, <3>4
  <2>4. CASE phase'[u] = "register" /\ pos'[u] = 1
    BY <1>4, <1>6, <2>4
  <2> QED
    BY <1>0, <1>1, <1>3, <1>6, <2>1, <2>2, <2>3, <2>4, Own
<1> QED
  BY <1>5, <1>6

\* What has been taken out stays out; an item is left when it is gone.
LEMMA CommandGone ==
  ASSUME RegistryInv, OwnItems, NEW u \in Units, Command(u)
  PROVE  Gone'
<1>0. TypeOK /\ StepOK /\ TypeInv /\ Gone
  BY DEF RegistryInv, TypeInv
<1>m. misread => misread'
  BY <1>0, MisreadStays
<1>1. Ended(u) \/ Failed(u) \/ Advanced(u) \/ Reads(u)
  BY Outcomes
<1>2. OthersStay(u)
  BY <1>0, <1>1, Others
<1>3. phase[u] \in {"pre", "register", "post", "undo"}
  BY <1>0, Runs
<1> SUFFICES ASSUME ~misread', NEW v \in Units, NEW k \in DOMAIN Items[v],
                    phase'[v] = "inactive" \/ (phase'[v] \in {"post", "undo"} /\ Done(v, k)')
             PROVE  ~ThereNext(Items[v][k])
  BY DEF Gone, There, ThereNext
<1>4. /\ Len(Items[v]) \in Nat /\ DOMAIN Items[v] = 1..Len(Items[v])
      /\ k \in 1..Len(Items[v]) /\ pos[v] \in Nat
      /\ Index(v, k) \in 1..Len(Items[v]) /\ Index(v, Index(v, k)) = k
  BY <1>0, IndexFacts DEF TypeOK
<1>5. CASE v # u
  <2>1. ~There(Items[v][k])
    BY <1>0, <1>2, <1>5, <1>m DEF OthersStay, Gone, Done, Index
  <2>2. array' = array \/ (HasItem(u) /\ Touches(u))
    BY <1>1 DEF Ended, Failed, Advanced, Reads, ReadFor
  <2> QED
    BY <1>0, <1>5, <2>1, <2>2, OtherItems DEF There, ThereNext
<1>6. CASE v = u
  <2>1. CASE Reads(u)
    BY <1>0, <1>6, <1>m, <2>1 DEF Reads, ReadFor, Gone, Done, Index, There, ThereNext
  <2>2. CASE Ended(u) /\ phase[u] \in {"post", "undo"}
    <3>1. Index(u, k) < pos[u] /\ array' = array
      BY <1>4, <1>6, <2>2 DEF Ended, HasItem
    <3> QED
      BY <1>0, <1>6, <1>m, <2>2, <3>1 DEF Gone, Done, There, ThereNext
  <2>3. CASE /\ Advanced(u) /\ phase[u] \in {"post", "undo"} /\ Index(u, k) < pos[u] + 1
    <3>1. HasItem(u) /\ ~Registers(u) /\ Touches(u)
      BY <2>3 DEF Registers, Advanced
    <3>2. CASE Index(u, k) = pos[u]
      BY <1>4, <1>6, <2>3, <3>1, <3>2 DEF Advanced, Item
    <3>3. CASE Index(u, k) < pos[u]
      <4>1. ~There(Items[u][k])
        BY <1>0, <1>6, <1>m, <2>3, <3>3 DEF Gone, Done
      <4>2. k # Index(u, pos[u])
        BY <1>4, <1>6, <3>3 DEF Index
      <4> QED
        BY <1>0, <1>6, <3>1, <4>1, <4>2, OtherItems
    <3> QED
      BY <1>4, <1>6, <2>3, <3>2, <3>3
  <2>4. CASE Advanced(u) /\ phase'[u] \in {"post", "undo"}
    <3>1. phase[u] \in {"post", "undo"} /\ Index(u, k)' = Index(u, k) /\ pos'[u] = pos[u] + 1
      BY <1>0, <2>4 DEF Advanced, NextItem, Index, TypeOK
    <3>2. Index(u, k) < pos[u] + 1
      BY <1>6, <2>4, <3>1 DEF Done
    <3> QED
      BY <2>3, <2>4, <3>1, <3>2
  <2>5. CASE phase'[u] \in {"post", "undo"} /\ pos'[u] = 1 /\ backward' \in [Units -> BOOLEAN]
    <3>1. Index(u, k)' \in 1..Len(Items[u])
      BY <1>4, <1>6 DEF Index
    <3> QED
      BY <1>4, <1>6, <2>5, <3>1 DEF Done
  <2>6. TypeOK'
    BY CommandType
  <2> QED
    BY <1>0, <1>1, <1>3, <1>6, <2>1, <2>2, <2>4, <2>5, <2>6, Own DEF TypeOK
<1> QED
  BY <1>5, <1>6
-----------------------------------------------------------------------------
(* The other steps.                                                        *)

\* ExecStartPre=- of a unit that was down, or ExecStopPost of a deployment's unit.
LEMMA BeginsStep ==
  ASSUME RegistryInv, NEW u \in Units, NEW ph \in {"pre", "post"}, Begins(u, ph),
         array' = array, again' \in SUBSET Units, UNCHANGED <<misread, faults>>, orders' \in 0..MaxOrders,
         phase[u] # "active" \/ IsDeployment(u)
  PROVE  RegistryInv'
<1> DEFINE OK(v) ==
      /\ pc[v] = "idle" <=> phase[v] \in {"inactive", "active", "failed"}
      /\ pc[v] \in {"parent", "waiting", "refused"} =>
           phase[v] = "register" /\ pos[v] = 1 /\ IsDeployment(v)
      /\ pc[v] = "put" => HasItem(v) /\ (Registers(v) \/ IsScalar(Item(v)))
      /\ Registers(v) => ~backward[v]
<1>0. TypeOK /\ StepOK /\ ParentUp /\ NoDuplicate /\ Fresh /\ Kept /\ Gone
  BY DEF RegistryInv, TypeInv
<1>m. misread' \in BOOLEAN
  BY <1>0 DEF TypeOK
<1>1. TypeOK'
  BY <1>0, <1>m DEF TypeOK, Begins, Phases, Labels
<1>2. \A v \in Units \ {u} : phase'[v] = phase[v] /\ pc'[v] = pc[v] /\ pos'[v] = pos[v]
                             /\ backward'[v] = backward[v] /\ seen'[v] = seen[v]
  BY <1>0 DEF TypeOK, Begins
<1>3. phase'[u] = ph /\ pc'[u] = "get" /\ pos'[u] = 1
  BY <1>0 DEF TypeOK, Begins
<1>4. \A v \in Units : OK(v)'
  <2>1. ASSUME NEW v \in Units, v # u PROVE OK(v)'
    BY <1>0, <1>2, <2>1 DEF StepOK, HasItem, Registers, Item, Index
  <2>2. OK(u)'
    BY <1>3 DEF Registers
  <2> QED
    BY <2>1, <2>2
<1>5. StepOK'
  BY <1>4 DEF StepOK
<1>6. ParentUp'
  BY <1>0, <1>2, <1>3, ParentAssumption DEF ParentUp, IsDeployment
<1>7. NoDuplicate'
  BY <1>0 DEF NoDuplicate
<1>8. Fresh'
  <2> SUFFICES ASSUME NEW v \in Units, (pc[v] = "put" /\ Registers(v))'
               PROVE  /\ IsScalar(Item(v))' =>
                           seen'[v] \in Tags /\ seen'[v].content[Entry(Item(v))'] = 0
                      /\ ~misread' /\ ~IsScalar(Item(v))' /\ seen'[v] = None => ~There(Item(v))'
    BY DEF Fresh
  <2>1. v # u
    BY <1>3
  <2>2. Item(v)' = Item(v) /\ seen'[v] = seen[v] /\ pc[v] = "put" /\ Registers(v)
    BY <1>2, <2>1 DEF Item, Index, Registers
  <2> QED
    BY <1>0, <2>2 DEF Fresh, There, Entry, IsScalar
<1>9. Kept'
  <2> SUFFICES ASSUME NEW v \in Units, NEW k \in DOMAIN Items[v],
                      phase'[v] = "active" \/ (phase'[v] = "register" /\ k < pos'[v])
               PROVE  There(Items[v][k])'
    BY DEF Kept
  <2>1. v # u
    BY <1>3
  <2> QED
    BY <1>0, <1>2, <2>1 DEF Kept, There
<1>10. Gone'
  <2> SUFFICES ASSUME ~misread', NEW v \in Units, NEW k \in DOMAIN Items[v],
                      phase'[v] = "inactive" \/ (phase'[v] \in {"post", "undo"} /\ Done(v, k)')
               PROVE  ~There(Items[v][k])'
    BY DEF Gone
  <2>1. v # u
    <3>1. SUFFICES ASSUME v = u PROVE FALSE
      OBVIOUS
    <3>2. DOMAIN Items[u] = 1..Len(Items[u]) /\ Len(Items[u]) \in Nat
      BY <1>0, <3>1, IndexFacts
    <3>3. backward' \in [Units -> BOOLEAN]
      BY <1>1 DEF TypeOK
    <3> QED
      BY <1>3, <3>1, <3>2, <3>3 DEF Done, Index
  <2> QED
    BY <1>0, <1>2, <2>1 DEF Gone, Done, Index, There
<1> QED
  BY <1>1, <1>5, <1>6, <1>7, <1>8, <1>9, <1>10 DEF RegistryInv, TypeInv

\* Nothing is registered after a restart of Caddy, and nothing is active.
LEMMA RestartStep ==
  ASSUME RegistryInv, CaddyRestarts
  PROVE  RegistryInv'
<1> DEFINE up == {u \in Units : phase[u] \in {"pre", "register", "active"}}
           OK(v) ==
      /\ pc[v] = "idle" <=> phase[v] \in {"inactive", "active", "failed"}
      /\ pc[v] \in {"parent", "waiting", "refused"} =>
           phase[v] = "register" /\ pos[v] = 1 /\ IsDeployment(v)
      /\ pc[v] = "put" => HasItem(v) /\ (Registers(v) \/ IsScalar(Item(v)))
      /\ Registers(v) => ~backward[v]
<1>0. TypeOK /\ StepOK
  BY DEF RegistryInv, TypeInv
<1>1. \A u \in Units :
        IF u \in up
        THEN /\ phase'[u] = "post" /\ pc'[u] = "get" /\ pos'[u] = 1 /\ backward'[u]
             /\ attempt'[u] = 1 /\ seen'[u] = None
        ELSE /\ phase'[u] = phase[u] /\ pc'[u] = pc[u] /\ pos'[u] = pos[u]
             /\ backward'[u] = backward[u] /\ attempt'[u] = attempt[u] /\ seen'[u] = seen[u]
  BY DEF CaddyRestarts
<1>2. \A u \in Units : phase'[u] \notin {"pre", "register", "active"}
  BY <1>1
<1>3. array' = [m \in Mounts |-> Nothing]
  BY DEF CaddyRestarts
<1>4. \A m \in Mounts, e \in Entries : array'[m][e] = 0
  BY <1>3 DEF Nothing
<1>5. TypeOK'
  <2>1. array' \in [Mounts -> [Entries -> Nat]]
    BY <1>3 DEF Nothing
  <2>7. misread' \in BOOLEAN
    BY <1>0 DEF CaddyRestarts, Fault, TypeOK
  <2>2. again' \in SUBSET Units /\ faults' \in 0..MaxFaults /\ orders' \in 0..MaxOrders
    BY <1>0, FaultsAssumption DEF CaddyRestarts, Fault, TypeOK
  <2>3. phase' \in [Units -> Phases] /\ pc' \in [Units -> Labels]
    BY <1>0 DEF CaddyRestarts, TypeOK, Phases, Labels
  <2>4. pos' \in [Units -> Nat \ {0}] /\ attempt' \in [Units -> {1, 2}]
    BY <1>0 DEF CaddyRestarts, TypeOK
  <2>5. backward' \in [Units -> BOOLEAN]
    BY <1>0 DEF CaddyRestarts, TypeOK
  <2>6. seen' \in [Units -> Tags \union {None}]
    BY <1>0 DEF CaddyRestarts, TypeOK
  <2> QED
    BY <2>1, <2>2, <2>3, <2>4, <2>5, <2>6, <2>7 DEF TypeOK
<1>6. \A v \in Units : OK(v)'
  BY <1>0, <1>1 DEF StepOK, HasItem, Registers, Item, Index
<1>7. StepOK'
  BY <1>6 DEF StepOK
<1>8. \A v \in Units : \A k \in DOMAIN Items[v] : ~There(Items[v][k])'
  BY <1>4, ItemFacts DEF There
<1>9. ParentUp' /\ Fresh' /\ Kept' /\ Gone' /\ NoDuplicate'
  BY <1>2, <1>4, <1>8 DEF ParentUp, Fresh, Kept, Gone, NoDuplicate, Registers
<1> QED
  BY <1>5, <1>7, <1>9 DEF RegistryInv, TypeInv

\* Nothing is registered at first.
LEMMA RegistryInvInit ==
  ASSUME Init
  PROVE  RegistryInv
<1> USE DEF Init
<1>1. \A m \in Mounts, e \in Entries : array[m][e] = 0
  BY DEF Nothing
<1>6. misread \in BOOLEAN
  OBVIOUS
<1>2. TypeOK
  BY <1>6, FaultsAssumption, OrdersAssumption DEF TypeOK, Nothing, Phases, Labels
<1>3. StepOK
  BY DEF StepOK, Registers
<1>4. \A v \in Units : \A k \in DOMAIN Items[v] : ~There(Items[v][k])
  BY <1>1, ItemFacts DEF There
<1>5. ParentUp /\ Fresh /\ Kept /\ Gone /\ NoDuplicate
  BY <1>1, <1>4 DEF ParentUp, Fresh, Kept, Gone, NoDuplicate, Registers
<1> QED
  BY <1>2, <1>3, <1>5 DEF RegistryInv, TypeInv

\* A step that changes neither Caddy's configuration nor a command.
LEMMA AsideStep ==
  ASSUME RegistryInv, array' = array, phase' = phase, UNCHANGED command,
         again' \in SUBSET Units, UNCHANGED <<misread, faults>>, orders' \in 0..MaxOrders
  PROVE  RegistryInv'
<1> USE DEF RegistryInv, command
<1>1. TypeOK'
  BY DEF TypeInv, TypeOK
<1>2. StepOK'
  BY DEF TypeInv, StepOK, HasItem, Registers, Item, Index
<1>3. ParentUp' /\ NoDuplicate'
  BY DEF ParentUp, NoDuplicate
<1>4. Fresh'
  BY DEF Fresh, Registers, Item, Index, There, Entry, IsScalar
<1>5. Kept' /\ Gone'
  BY DEF Kept, Gone, Done, Index, There
<1> QED
  BY <1>1, <1>2, <1>3, <1>4, <1>5 DEF TypeInv

\* Every step preserves the invariant.
LEMMA RegistryInvStep ==
  ASSUME OwnItems, RegistryInv, [Next]_vars
  PROVE  RegistryInv'
<1>0. TypeOK
  BY DEF RegistryInv, TypeInv
<1>1. ASSUME NEW u \in Units, AskStart(u) PROVE RegistryInv'
  BY <1>0, <1>1, AsideStep, OrdersAssumption DEF AskStart, Order, TypeOK
<1>2. ASSUME NEW u \in Units, UnitStarts(u) PROVE RegistryInv'
  BY <1>0, <1>2, BeginsStep DEF UnitStarts, NoFault, TypeOK
<1>3. ASSUME NEW u \in Units, UnitStops(u) PROVE RegistryInv'
  BY <1>0, <1>3, BeginsStep, OrdersAssumption DEF UnitStops, Order, TypeOK
<1>4. ASSUME NEW u \in Units, Command(u) PROVE RegistryInv'
  <2>1. TypeInv'
    BY <1>4, CommandType, CommandStepOK DEF TypeInv
  <2> QED
    BY <1>4, <2>1, CommandParentUp, CommandNoDuplicate, CommandFresh, CommandKept,
       CommandGone DEF RegistryInv
<1>5. CASE CaddyRestarts
  BY <1>5, RestartStep
<1>6. CASE UNCHANGED vars
  BY <1>0, <1>6, AsideStep DEF vars, TypeOK
<1> QED
  BY <1>1, <1>2, <1>3, <1>4, <1>5, <1>6 DEF Next
-----------------------------------------------------------------------------
\* The parts together hold in every state: see RegistryInv.
THEOREM RegistryInvariant ==
  ASSUME OwnItems
  PROVE  Spec => []RegistryInv
<1>1. Init => RegistryInv
  BY RegistryInvInit
<1>2. RegistryInv /\ [Next]_vars => RegistryInv'
  BY RegistryInvStep
<1> QED
  BY <1>1, <1>2, PTL DEF Spec

\* The values of the state stay in their types: the commands of the units, their
\* position and what their Etags stand for.
THEOREM RegistrationTypeCorrect ==
  ASSUME OwnItems
  PROVE  Spec => []TypeOK
<1>1. RegistryInv => TypeOK
  BY DEF RegistryInv, TypeInv
<1> QED
  BY <1>1, RegistryInvariant, PTL

\* While a unit is active its items are in Caddy's configuration, for any number of
\* units, items, failed requests and restarts of Caddy.
THEOREM ActiveRegistered ==
  ASSUME OwnItems
  PROVE  Spec => []ActiveMeansRegistered
<1>1. RegistryInv => ActiveMeansRegistered
  BY DEF RegistryInv, Kept, ActiveMeansRegistered, Range
<1> QED
  BY <1>1, RegistryInvariant, PTL

\* A unit that stopped without error has left none of its items behind, until the GET of an
\* object that is there is answered with an error status (client.go:61).
THEOREM InactiveGone ==
  ASSUME OwnItems
  PROVE  Spec => []InactiveMeansGone
<1>1. RegistryInv => InactiveMeansGone
  BY DEF RegistryInv, Gone, InactiveMeansGone, Range
<1> QED
  BY <1>1, RegistryInvariant, PTL

\* No item is registered twice, whatever is retried after a lost answer, until the GET of an
\* object that is there is answered with an error status.
THEOREM RegisteredOnce ==
  ASSUME OwnItems
  PROVE  Spec => []NoDuplicate
<1>1. RegistryInv => NoDuplicate
  BY DEF RegistryInv
<1> QED
  BY <1>1, RegistryInvariant, PTL
-----------------------------------------------------------------------------
(* The retry of a deregistration.                                          *)

\* The items of a deployment are registered for good, and lie in objects of the service's
\* unit only.  A retry, in the other order, would delete such an object of the deployment
\* first and then fail on what was in it.
PlainItems == \A u \in Units : IsDeployment(u) => \A k \in DOMAIN Items[u] :
  /\ ~Items[u][k].only
  /\ \A l \in DOMAIN Items[u] : Home[Items[u][k].mount] # Items[u][l].key

Present(u) == \E k \in DOMAIN Items[u] : There(Items[u][k])

\* A deployment has items registered only under an active service's unit, where nothing but
\* a failure keeps it from deregistering them: one before the retry, one more before it ends.
RetryInv == ~misread => \A u \in Units : IsDeployment(u) /\ Present(u) =>
  /\ phase[Parent[u]] = "active"
  /\ phase[u] \in {"post", "undo"} /\ attempt[u] = 2 => faults > 0
  /\ phase[u] = "failed" => faults > 1

\* Items come to be registered only by their own unit's registration.
LEMMA OnlyRegisteringAdds ==
  ASSUME RegistryInv, OwnItems, ~misread', NEW u \in Units, Command(u), NEW v \in Units, IsDeployment(v),
         Present(v)'
  PROVE  Present(v) \/ (v = u /\ Registers(u) /\ phase[Parent[u]] = "active")
<1>0. TypeOK /\ TypeInv /\ StepOK /\ NoDuplicate /\ Fresh /\ ParentUp
  BY DEF RegistryInv, TypeInv
<1>1. PICK k \in DOMAIN Items[v] : ThereNext(Items[v][k])
  BY DEF Present, There, ThereNext
<1>2. CASE array' = array
  BY <1>1, <1>2 DEF Present, There, ThereNext
<1>3. CASE PutScalar(u) \/ PostObject(u) \/ PatchObject(u) \/ DeleteObject(u)
  <2>1. /\ Touches(u) /\ HasItem(u) /\ pc[u] \in {"get", "put"}
        /\ ~misread' /\ ~Registers(u) => ~ThereNext(Item(u))
    <3>1. CASE PutScalar(u)
      BY <1>0, <3>1, PutScalarTouches DEF PutScalar, StepOK
    <3>2. CASE PostObject(u)
      BY <1>0, <3>2, PostObjectTouches DEF PostObject, StepOK
    <3>3. CASE PatchObject(u)
      BY <1>0, <3>3, PatchObjectTouches DEF PatchObject, StepOK
    <3>4. CASE DeleteObject(u)
      BY <1>0, <3>4, DeleteObjectTouches DEF DeleteObject
    <3> QED
      BY <1>3, <3>1, <3>2, <3>3, <3>4
  <2>2. CASE v = u /\ k = Index(u, pos[u])
    <3>1. ThereNext(Item(u))
      BY <1>0, <1>1, <2>1, <2>2, HereFacts
    <3>2. Registers(u) /\ Items[u] # <<>>
      BY <2>1, <2>2, <3>1
    <3> QED
      BY <1>0, <2>1, <2>2, <3>2 DEF ParentUp, Registers
  <2>3. CASE ~(v = u /\ k = Index(u, pos[u]))
    BY <1>0, <1>1, <2>1, <2>3, OtherItems DEF Present
  <2> QED
    BY <2>2, <2>3
<1> QED
  BY <1>2, <1>3 DEF Command, AskParent, ParentFailed, Completed, ItemFails, GetScalar, GetObject, GetMisread,
     PreconditionFails, PutFails, RequestRefused

\* Under an active service's unit the arrays of a deployment's items are there.
LEMMA ArraysThere ==
  ASSUME RegistryInv, OwnItems, PlainItems, NEW u \in Units, IsDeployment(u), HasItem(u),
         phase[Parent[u]] = "active"
  PROVE  Exists(Item(u).mount) /\ ~Item(u).only
<1>0. TypeOK /\ Kept
  BY DEF RegistryInv, TypeInv
<1>1. PICK k \in DOMAIN Items[u] : Item(u) = Items[u][k]
  BY <1>0, HereFacts
<1>2. ~Item(u).only
  BY <1>1 DEF PlainItems
<1>3. CASE Home[Item(u).mount] = None
  BY <1>2, <1>3 DEF Exists
<1>4. CASE Home[Item(u).mount] # None
  <2>1. PICK l \in DOMAIN Items[Parent[u]] : Items[Parent[u]][l].key = Home[Item(u).mount]
    BY <1>1, <1>4 DEF OwnItems, PlainItems
  <2>2. Parent[u] \in Units
    BY ParentAssumption DEF IsDeployment
  <2>3. There(Items[Parent[u]][l])
    BY <1>0, <2>2 DEF Kept
  <2>4. /\ Items[Parent[u]][l].mount \in Mounts /\ Entry(Items[Parent[u]][l]) \in Entries
        /\ Entry(Items[Parent[u]][l]).key = Home[Item(u).mount]
    BY <2>1, <2>2, ItemFacts
  <2> QED
    BY <1>2, <2>3, <2>4 DEF There, Exists
<1> QED
  BY <1>3, <1>4

\* There, deregistering fails by a failure only.
LEMMA OnlyFaultsFail ==
  ASSUME RegistryInv, OwnItems, PlainItems, NEW u \in Units, IsDeployment(u), Command(u),
         phase[Parent[u]] = "active", phase[u] \in {"post", "undo"}
  PROVE  \/ UNCHANGED <<phase, attempt>>
         \/ ~HasItem(u) /\ array' = array /\ Succeeds(u)
         \/ AttemptFails(u) /\ faults' = faults + 1
<1>0. TypeOK /\ StepOK
  BY DEF RegistryInv, TypeInv
<1>1. pc[u] \notin {"parent", "waiting", "refused"} /\ ~Registers(u)
  BY <1>0 DEF StepOK, Registers
<1>2. CASE Completed(u)
  BY <1>2 DEF Completed
<1>3. ~ItemFails(u)
  BY ArraysThere DEF ItemFails
<1>4. ~PutFails(u)
  <2>1. pc[u] = "put" => HasItem(u) /\ IsScalar(Item(u))
    BY <1>0, <1>1 DEF StepOK
  <2> QED
    BY <2>1, ArraysThere DEF PutFails
<1>5. CASE GetScalar(u) \/ GetObject(u) \/ GetMisread(u) \/ PreconditionFails(u)
  BY <1>5 DEF GetScalar, GetObject, GetMisread, PreconditionFails, NextItem
<1>6. CASE PutScalar(u) \/ PostObject(u) \/ PatchObject(u) \/ DeleteObject(u)
  <2>1. NextItem(u) \/ (AttemptFails(u) /\ Fault("lost"))
    BY <1>6 DEF PutScalar, PostObject, PatchObject, DeleteObject, Applied
  <2> QED
    BY <2>1 DEF NextItem, Fault
<1>7. CASE RequestRefused(u)
  BY <1>7 DEF RequestRefused, Fault
<1> QED
  BY <1>1, <1>2, <1>3, <1>4, <1>5, <1>6, <1>7 DEF Command, AskParent, ParentFailed

\* A step of a command counts its failures.
LEMMA RetryCommand ==
  ASSUME RegistryInv, RegistryInv', OwnItems, PlainItems, RetryInv, NEW u \in Units, Command(u)
  PROVE  RetryInv'
<1>0. TypeOK /\ TypeInv /\ StepOK /\ Gone /\ TypeOK'
  BY DEF RegistryInv, TypeInv
<1>m. misread => misread'
  BY <1>0, MisreadStays
<1>1. Ended(u) \/ Failed(u) \/ Advanced(u) \/ Reads(u)
  BY Outcomes
<1>2. OthersStay(u)
  BY <1>0, <1>1, Others
<1>3. phase[u] \in {"pre", "register", "post", "undo"}
  BY <1>0, Runs
<1>4. faults \in Nat /\ faults' \in {faults, faults + 1}
  <2>1. NoFault \/ Fault("lost") \/ Fault("refused") \/ Fault("status")
    BY DEF Command, AskParent, ParentFailed, Completed, ItemFails, GetScalar, GetObject, GetMisread,
         PutScalar, PostObject, PatchObject, DeleteObject, PreconditionFails, PutFails,
         RequestRefused, Applied
  <2> QED
    BY <1>0, <2>1, FaultsAssumption DEF NoFault, Fault, TypeOK
<1> SUFFICES ASSUME ~misread', NEW v \in Units, IsDeployment(v), Present(v)'
             PROVE  /\ phase'[Parent[v]] = "active"
                    /\ phase'[v] \in {"post", "undo"} /\ attempt'[v] = 2 => faults' > 0
                    /\ phase'[v] = "failed" => faults' > 1
  BY DEF RetryInv, IsDeployment
<1>n. ~misread
  BY <1>m
<1>5. Present(v) \/ (v = u /\ Registers(u) /\ phase[Parent[u]] = "active")
  BY OnlyRegisteringAdds
<1>6. phase[Parent[v]] = "active"
  BY <1>5, <1>n DEF RetryInv
<1>7. Parent[v] \in Units \ {u}
  BY <1>3, <1>6, ParentAssumption DEF IsDeployment
<1>8. phase'[Parent[v]] = "active"
  BY <1>2, <1>6, <1>7 DEF OthersStay
<1>9. CASE v # u
  BY <1>2, <1>4, <1>5, <1>8, <1>9, <1>n DEF OthersStay, RetryInv
<1>10. CASE v = u /\ phase[u] = "pre"
  <2>1. phase'[u] \in {"pre", "register"}
    BY <1>0, <1>1, <1>10, Own DEF Reads, ReadFor
  <2> QED
    BY <1>8, <1>10, <2>1
<1>11. CASE v = u /\ phase[u] = "register"
  <2>1. phase'[u] \in {"register", "active"} \/ (phase'[u] = "undo" /\ attempt'[u] = 1)
    <3>1. ~CanRetry(u)
      BY <1>11 DEF CanRetry, Registers
    <3>2. CASE Failed(u)
      BY <1>0, <1>11, <3>1, <3>2 DEF Failed, AttemptFails, Fails, Begins, TypeOK
    <3>3. CASE Ended(u)
      BY <1>0, <1>11, <3>3 DEF Ended, Succeeds, Settles, TypeOK
    <3>4. CASE Advanced(u) \/ Reads(u)
      BY <1>0, <1>11, <3>4 DEF Advanced, NextItem, Reads, ReadFor
    <3> QED
      BY <1>1, <3>2, <3>3, <3>4
  <2> QED
    BY <1>8, <1>11, <2>1
<1>12. CASE v = u /\ phase[u] \in {"post", "undo"}
  <2>1. Present(u)
    BY <1>5, <1>12 DEF Registers
  <2>2. CASE UNCHANGED <<phase, attempt>>
    BY <1>4, <1>8, <1>12, <1>n, <2>1, <2>2 DEF RetryInv
  <2>3. CASE ~HasItem(u) /\ array' = array
    <3>1. PICK k \in DOMAIN Items[u] : There(Items[u][k])
      BY <2>1 DEF Present
    <3>2. DOMAIN Items[u] = 1..Len(Items[u]) /\ Index(u, k) \in 1..Len(Items[u]) /\ Len(Items[u]) \in Nat
      BY <1>0, IndexFacts
    <3>3. Done(u, k)
      BY <1>0, <2>3, <3>2 DEF Done, HasItem, TypeOK
    <3> QED
      BY <1>0, <1>12, <1>n, <3>1, <3>3 DEF Gone
  <2>4. CASE AttemptFails(u) /\ faults' = faults + 1
    <3>1. CASE CanRetry(u)
      <4>1. phase'[u] \in {"post", "undo"}
        BY <1>12, <2>4, <3>1 DEF AttemptFails, Retries
      <4> QED
        BY <1>4, <1>8, <1>12, <2>4, <4>1
    <3>2. CASE ~CanRetry(u)
      <4>1. attempt[u] = 2
        BY <1>0, <1>12, <3>2 DEF CanRetry, Registers, TypeOK
      <4>2. faults > 0
        BY <1>12, <1>n, <2>1, <4>1 DEF RetryInv
      <4>3. faults' > 1
        BY <1>4, <2>4, <4>2
      <4> QED
        BY <1>4, <1>8, <1>12, <4>3
    <3> QED
      BY <3>1, <3>2
  <2> QED
    BY <1>6, <1>12, <2>2, <2>3, <2>4, OnlyFaultsFail
<1> QED
  BY <1>3, <1>9, <1>10, <1>11, <1>12

\* The other steps leave what is registered, or take everything away.
LEMMA RetryStep ==
  ASSUME RegistryInv, RegistryInv', OwnItems, PlainItems, RetryInv, [Next]_vars
  PROVE  RetryInv'
<1>0. TypeOK
  BY DEF RegistryInv, TypeInv
<1>1. ASSUME UNCHANGED <<array, misread, faults>>,
             \A v \in Units :
               \/ phase'[v] = phase[v] /\ attempt'[v] = attempt[v]
               \/ /\ phase[v] # "active" \/ IsDeployment(v)
                  /\ phase'[v] \in {"pre", "post"} /\ attempt'[v] = 1
      PROVE  RetryInv'
  <2> SUFFICES ASSUME ~misread, NEW v \in Units, IsDeployment(v), Present(v)
               PROVE  /\ phase'[Parent[v]] = "active"
                      /\ phase'[v] \in {"post", "undo"} /\ attempt'[v] = 2 => faults > 0
                      /\ phase'[v] = "failed" => faults > 1
    BY <1>1 DEF RetryInv, IsDeployment, Present, There
  <2>1. Parent[v] \in Units /\ ~IsDeployment(Parent[v]) /\ phase[Parent[v]] = "active"
    BY ParentAssumption DEF IsDeployment, RetryInv
  <2> QED
    BY <1>1, <2>1 DEF RetryInv
<1>2. ASSUME NEW u \in Units, AskStart(u) PROVE RetryInv'
  BY <1>1, <1>2 DEF AskStart, Order, command
<1>3. ASSUME NEW u \in Units, UnitStarts(u) PROVE RetryInv'
  <2>1. UNCHANGED <<array, misread, faults>> /\ phase[u] # "active" /\ Begins(u, "pre")
    BY <1>3 DEF UnitStarts, NoFault
  <2>2. \A v \in Units \ {u} : phase'[v] = phase[v] /\ attempt'[v] = attempt[v]
    BY <1>0, <2>1 DEF Begins, TypeOK
  <2>3. phase'[u] = "pre" /\ attempt'[u] = 1
    BY <1>0, <2>1 DEF Begins, TypeOK
  <2> QED
    BY <1>1, <2>1, <2>2, <2>3
<1>4. ASSUME NEW u \in Units, UnitStops(u) PROVE RetryInv'
  <2>1. UNCHANGED <<array, misread, faults>> /\ IsDeployment(u) /\ Begins(u, "post")
    BY <1>4 DEF UnitStops, Order
  <2>2. \A v \in Units \ {u} : phase'[v] = phase[v] /\ attempt'[v] = attempt[v]
    BY <1>0, <2>1 DEF Begins, TypeOK
  <2>3. phase'[u] = "post" /\ attempt'[u] = 1
    BY <1>0, <2>1 DEF Begins, TypeOK
  <2> QED
    BY <1>1, <2>1, <2>2, <2>3
<1>5. ASSUME NEW u \in Units, Command(u) PROVE RetryInv'
  BY <1>5, RetryCommand
<1>6. CASE CaddyRestarts
  <2>1. array' = [m \in Mounts |-> Nothing]
    BY <1>6 DEF CaddyRestarts
  <2>2. \A v \in Units : \A k \in DOMAIN Items[v] : ~There(Items[v][k])'
    BY <2>1, ItemFacts DEF There, Nothing
  <2> QED
    BY <2>2 DEF RetryInv, Present
<1>7. CASE UNCHANGED vars
  BY <1>1, <1>7 DEF vars, command
<1> QED
  BY <1>2, <1>3, <1>4, <1>5, <1>6, <1>7 DEF Next

\* register.go, "ERROR, will retry": with one failure at most, however other units interleave
\* and whether it is a refused request, a lost answer or a restart of Caddy (but for a GET
\* misread as absence), a deployment that failed has left nothing with Caddy.
THEOREM RetrySuffices ==
  ASSUME OwnItems, PlainItems
  PROVE  Spec => []RetryDeregisters
<1>1. Init => RetryInv
  <2> SUFFICES ASSUME Init, NEW u \in Units, NEW k \in DOMAIN Items[u]
               PROVE  ~There(Items[u][k])
    BY DEF RetryInv, Present
  <2> QED
    BY ItemFacts DEF Init, There, Nothing
<1>2. RegistryInv /\ RegistryInv' /\ RetryInv /\ [Next]_vars => RetryInv'
  BY RetryStep
<1>3. RegistryInv /\ RetryInv => RetryDeregisters
  <2> SUFFICES ASSUME RegistryInv, RetryInv, ~misread, faults <= 1, NEW u \in Units, IsDeployment(u),
                      phase[u] = "failed", NEW k \in DOMAIN Items[u], There(Items[u][k])
               PROVE  FALSE
    BY DEF RetryDeregisters, Range
  <2>1. faults > 1 /\ faults \in Nat
    BY FaultsAssumption DEF RetryInv, Present, RegistryInv, TypeInv, TypeOK
  <2> QED
    BY <2>1
<1> QED
  BY <1>1, <1>2, <1>3, RegistryInvariant, PTL DEF Spec

(***************************************************************************)
(* The refinement of ConfigUnits: what lies between the requests of a      *)
(* command, of other units or of itself, is one change of one item after   *)
(* the other.                                                              *)
(***************************************************************************)
\* What ConfigUnits calls there and state.
Registered == {i \in AllItems : There(i)}
State(u) == CASE phase[u] = "inactive" -> "down" [] phase[u] = "active" -> "up" [] OTHER -> "changing"

Going == {"pre", "register", "post", "undo"}

\* The effect of a write of u but for its own item: an item is there if it was, unless it lies
\* in the object the write is about.
WritesOne(u) ==
  /\ HasItem(u)
  /\ \A j \in AllItems \ {Item(u)} : ThereNext(j) <=> There(j) /\ Home[j.mount] # Item(u).key

-----------------------------------------------------------------------------
\* An item is one of a unit's, and told apart from another by its key.
LEMMA ItemIsListed ==
  ASSUME NEW j \in AllItems
  PROVE  \E v \in Units : \E k \in DOMAIN Items[v] : j = Items[v][k]
BY DEF AllItems, Range

LEMMA OtherKey ==
  ASSUME OwnItems, NEW i \in AllItems, NEW j \in AllItems, i # j
  PROVE  i.key # j.key
<1>1. PICK v \in Units : \E k \in DOMAIN Items[v] : i = Items[v][k]
  BY ItemIsListed
<1>2. PICK k \in DOMAIN Items[v] : i = Items[v][k]
  BY <1>1
<1>3. PICK w \in Units : \E l \in DOMAIN Items[w] : j = Items[w][l]
  BY ItemIsListed
<1>4. PICK l \in DOMAIN Items[w] : j = Items[w][l]
  BY <1>3
<1> QED
  BY <1>2, <1>4 DEF OwnItems

\* Each write is about one item and what lies in it.
LEMMA WriteIsOne ==
  ASSUME RegistryInv, OwnItems, NEW u \in Units,
         PutScalar(u) \/ PostObject(u) \/ PatchObject(u) \/ DeleteObject(u)
  PROVE  array' = array \/ WritesOne(u)
<1> DEFINE i == Item(u)
           m == i.mount
<1>0. TypeInv /\ TypeOK /\ StepOK
  BY DEF RegistryInv, TypeInv
<1>1. HasItem(u)
  BY <1>0 DEF PutScalar, PostObject, PatchObject, DeleteObject, StepOK
<1>2. i \in AllItems /\ m \in Mounts /\ i.key \in Keys /\ Entry(i) \in Entries /\ Entry(i).key = i.key
  BY <1>0, <1>1, HereFacts
<1>3. array \in [Mounts -> [Entries -> Nat]]
  BY <1>0 DEF TypeOK
<1>4. SUFFICES ASSUME array' # array, NEW j \in AllItems, j # i
               PROVE  ThereNext(j) <=> There(j) /\ Home[j.mount] # i.key
  BY <1>1 DEF WritesOne
<1>5. /\ j.mount \in Mounts /\ Entry(j) \in Entries /\ Entry(j).key = j.key
      /\ j.key # i.key /\ Entry(j) # Entry(i)
  <2>1. PICK v \in Units : \E k \in DOMAIN Items[v] : j = Items[v][k]
    BY ItemIsListed
  <2>2. PICK k \in DOMAIN Items[v] : j = Items[v][k]
    BY <2>1
  <2>3. j.key # i.key
    BY <1>2, <1>4, OtherKey
  <2> QED
    BY <1>2, <2>2, <2>3, ItemFacts
<1>6. CASE PutScalar(u)
  <2>1. IsScalar(i) /\ ArrayTag(m) = seen[u]
    BY <1>6 DEF PutScalar
  <2>2. array' = IF Registers(u)
                 THEN [array EXCEPT ![m][Entry(i)] = @ + 1]
                 ELSE [array EXCEPT ![m] = [seen[u].content EXCEPT ![Entry(i)] = 0]]
    BY <1>6 DEF PutScalar, Applied
  <2>3. seen[u].content = array[m]
    BY <2>1 DEF ArrayTag
  <2>4. array'[j.mount][Entry(j)] = array[j.mount][Entry(j)]
    <3>1. CASE Registers(u)
      BY <1>2, <1>3, <1>5, <2>2, <3>1
    <3>2. CASE ~Registers(u)
      <4>1. array' = [array EXCEPT ![m] = [array[m] EXCEPT ![Entry(i)] = 0]]
        BY <2>2, <2>3, <3>2
      <4> QED
        BY <1>2, <1>3, <1>5, <4>1
    <3> QED
      BY <3>1, <3>2
  <2>5. Home[j.mount] # i.key
    BY <1>2, <1>5, <2>1, HomeAssumption, NoneAssumption DEF IsScalar
  <2> QED
    BY <2>4, <2>5 DEF There, ThereNext
<1>7. CASE PostObject(u) \/ PatchObject(u) \/ DeleteObject(u)
  <2>1. Emptied(i.key)[j.mount][Entry(j)] > 0 <=> There(j) /\ Home[j.mount] # i.key
    BY <1>3, <1>5, EmptiedType DEF There, Nothing
  <2>2. Emptied(i.key) \in [Mounts -> [Entries -> Nat]]
    BY <1>3, EmptiedType
  <2>3. array'[j.mount][Entry(j)] = Emptied(i.key)[j.mount][Entry(j)]
    <3>1. CASE PostObject(u)
      <4>1. array' = [Emptied(i.key) EXCEPT ![m][Entry(i)] = @ + 1]
        BY <3>1 DEF PostObject, Applied
      <4> QED
        BY <1>2, <1>5, <2>2, <4>1
    <3>2. CASE PatchObject(u)
      <4>1. PICK e \in Holders(i) :
              array' = [[Emptied(i.key) EXCEPT ![m][e] = @ - 1] EXCEPT ![m][Entry(i)] = @ + 1]
        BY <3>2 DEF PatchObject, Applied
      <4>2. e \in Entries /\ e # Entry(j)
        BY <1>5, <4>1 DEF Holders
      <4> QED
        BY <1>2, <1>5, <2>2, <4>1, <4>2
    <3>3. CASE DeleteObject(u)
      <4>1. PICK e \in Holders(i) : array' = [Emptied(i.key) EXCEPT ![m][e] = @ - 1]
        BY <1>4, <3>3 DEF DeleteObject, Applied
      <4>2. e \in Entries /\ e # Entry(j)
        BY <1>5, <4>1 DEF Holders
      <4> QED
        BY <1>2, <1>5, <2>2, <4>1, <4>2
    <3> QED
      BY <1>7, <3>1, <3>2, <3>3
  <2> QED
    BY <2>1, <2>3 DEF ThereNext
<1> QED
  BY <1>6, <1>7

\* A command that does not end well leaves its unit on the way.
LEMMA StaysOnTheWay ==
  ASSUME TypeInv, NEW u \in Units, Failed(u) \/ Advanced(u), phase[u] \in Going
  PROVE  phase'[u] \in Going \union {"failed"}
<1> USE DEF TypeInv, TypeOK, Going
<1>1. CASE Advanced(u)
  BY <1>1 DEF Advanced, NextItem
<1>2. CASE Retries(u)
  BY <1>2 DEF Retries
<1>3. CASE Fails(u)
  BY <1>3 DEF Fails, Begins, Settles
<1> QED
  BY <1>1, <1>2, <1>3 DEF Failed, AttemptFails

\* The array changes by writes only.
LEMMA OnlyWritesWrite ==
  ASSUME NEW u \in Units, Command(u)
  PROVE  array' = array \/ PutScalar(u) \/ PostObject(u) \/ PatchObject(u) \/ DeleteObject(u)
BY DEF Command, AskParent, ParentFailed, Completed, ItemFails, GetScalar, GetObject, GetMisread,
       PreconditionFails, PutFails, RequestRefused

-----------------------------------------------------------------------------
\* The state and its items in the words of ConfigUnits.
LEMMA AbstractView ==
  ASSUME TypeOK
  PROVE  /\ \A u \in Units : Registry!Owned(u) \subseteq AllItems
         /\ AllItems = UNION {Registry!Owned(u) : u \in Units}
         /\ \A u \in Units : State(u) = "up" <=> phase[u] = "active"
         /\ \A u \in Units : State(u) = "down" <=> phase[u] = "inactive"
         /\ \A u \in Units : State(u) \in {"up", "down", "changing"}
BY DEF Registry!Owned, AllItems, Range, State

\* Nothing is registered at first, and no unit is up.
LEMMA AbstractInit ==
  ASSUME Init
  PROVE  Registry!Init
<1>1. \A i \in AllItems : ~There(i)
  <2> SUFFICES ASSUME NEW i \in AllItems PROVE ~There(i)
    OBVIOUS
  <2>1. PICK v \in Units : \E k \in DOMAIN Items[v] : i = Items[v][k]
    BY ItemIsListed
  <2>2. PICK k \in DOMAIN Items[v] : i = Items[v][k]
    BY <2>1
  <2>3. i.mount \in Mounts /\ Entry(i) \in Entries
    BY <2>2, ItemFacts
  <2> QED
    BY <2>3 DEF Init, There, Nothing
<1>2. \A u \in Units : phase[u] = "inactive"
  BY DEF Init
<1> QED
  BY <1>1, <1>2 DEF Registry!Init

\* What is up after a step has its items.
LEMMA AbstractKeepsWord ==
  ASSUME Kept'
  PROVE  Registry!KeepsWord
<1> SUFFICES ASSUME NEW u \in Units, phase'[u] = "active", NEW k \in DOMAIN Items[u]
             PROVE  There(Items[u][k])' /\ Items[u][k] \in AllItems
  BY DEF Registry!KeepsWord, Registry!Owned
<1> QED
  BY ItemFacts DEF Kept

\* What of the state ConfigUnits sees, and what of it stays.
SameThere == \A i \in AllItems : ThereNext(i) <=> There(i)
SameState(W) == \A v \in W : State(v)' = State(v)

LEMMA AbstractStutter ==
  ASSUME SameThere, SameState(Units)
  PROVE  UNCHANGED Registry!vars
BY DEF SameThere, SameState, There, ThereNext, State, Registry!vars

\* A unit that was up or down is on its way.
LEMMA AbstractChange ==
  ASSUME Kept', SameThere, NEW u \in Units, SameState(Units \ {u}),
         phase[u] \in {"active", "inactive"}, State(u)' = "changing"
  PROVE  Registry!Next
<1>1. Registry!Change(u)
  BY DEF SameThere, SameState, There, ThereNext, State, Registry!Change
<1> QED
  BY <1>1, AbstractKeepsWord DEF Registry!Next

\* A command that ends well brings its unit up, with its items, or down, without them.
LEMMA AbstractArrival ==
  ASSUME ~misread', Kept', Gone', SameThere, NEW u \in Units, SameState(Units \ {u}),
         State(u) = "changing", phase'[u] \in {"active", "inactive"}
  PROVE  Registry!Next
<1>1. CASE phase'[u] = "active"
  <2>1. \A k \in DOMAIN Items[u] : There(Items[u][k])' /\ Items[u][k] \in AllItems
    BY <1>1, ItemFacts DEF Kept
  <2>2. Registry!ComeUp(u)
    BY <1>1, <2>1 DEF SameThere, SameState, There, ThereNext, State, Registry!ComeUp, Registry!Owned
  <2> QED
    BY <2>2, AbstractKeepsWord DEF Registry!Next
<1>2. CASE phase'[u] = "inactive"
  <2>1. \A k \in DOMAIN Items[u] : ~There(Items[u][k])' /\ Items[u][k] \in AllItems
    BY <1>2, ItemFacts DEF Gone
  <2>2. Registry!GoDown(u)
    BY <1>2, <2>1 DEF SameThere, SameState, There, ThereNext, State, Registry!GoDown, Registry!Owned
  <2> QED
    BY <2>2, AbstractKeepsWord DEF Registry!Next
<1> QED
  BY <1>1, <1>2

\* A write puts or takes the item its unit is at.
LEMMA AbstractWrite ==
  ASSUME TypeOK, Kept', NEW u \in Units, WritesOne(u), SameState(Units), State(u) = "changing"
  PROVE  Registry!Next
<1> DEFINE i == Item(u)
           inside == {j \in UNION {Registry!Owned(v) : v \in Units} : Home[j.mount] = i.key}
<1>1. i \in Registry!Owned(u) /\ i \in AllItems
  BY HereFacts DEF WritesOne, Registry!Owned
<1>2. inside = {j \in AllItems : Home[j.mount] = i.key} /\ inside = Registry!Within(i)
  BY AbstractView DEF Registry!Within
<1>3. \A j \in AllItems \ {i} : ThereNext(j) <=> There(j) /\ j \notin inside
  BY <1>2 DEF WritesOne
<1>4. \A j \in AllItems : There(j)' <=> ThereNext(j)
  BY DEF There, ThereNext
<1>5. [v \in Units |-> State(v)]' = [v \in Units |-> State(v)]
  BY DEF SameState
<1> HIDE DEF inside, i
<1>6. CASE ThereNext(i)
  <2>1. Registered' = (Registered \ inside) \union {i}
    BY <1>1, <1>3, <1>4, <1>6 DEF Registered
  <2>2. Registry!Put(u, i)
    BY <1>2, <1>5, <2>1 DEF Registered, State, Registry!Put
  <2> QED
    BY <1>1, <2>2, AbstractKeepsWord DEF Registry!Next
<1>7. CASE ~ThereNext(i)
  <2>1. Registered' = (Registered \ inside) \ {i}
    BY <1>1, <1>3, <1>4, <1>7 DEF Registered
  <2>2. Registry!Take(u, i)
    BY <1>2, <1>5, <2>1 DEF Registered, State, Registry!Take
  <2> QED
    BY <1>1, <2>2, AbstractKeepsWord DEF Registry!Next
<1> QED
  BY <1>6, <1>7

\* Caddy forgets everything.
LEMMA AbstractForget ==
  ASSUME TypeOK, CaddyRestarts
  PROVE  Registry!Next
<1>1. \A i \in AllItems : ~There(i)'
  <2> SUFFICES ASSUME NEW i \in AllItems PROVE ~There(i)'
    OBVIOUS
  <2>1. PICK v \in Units : \E k \in DOMAIN Items[v] : i = Items[v][k]
    BY ItemIsListed
  <2>2. i.mount \in Mounts /\ Entry(i) \in Entries
    BY <2>1, ItemFacts
  <2> QED
    BY <2>2 DEF CaddyRestarts, There, Nothing
<1>2. \A u \in Units : phase'[u] = IF phase[u] \in {"pre", "register", "active"} THEN "post" ELSE phase[u]
  BY DEF CaddyRestarts
<1>3. Registry!Forget
  BY <1>1, <1>2 DEF Registry!Forget
<1> QED
  BY <1>3 DEF Registry!Next

\* A step of a command.
LEMMA AbstractCommand ==
  ASSUME OwnItems, ~misread', RegistryInv, RegistryInv', NEW u \in Units, Command(u)
  PROVE  [Registry!Next]_(Registry!vars)
<1>0. TypeInv /\ TypeOK /\ Kept' /\ Gone'
  BY DEF RegistryInv, TypeInv
<1>1. Ended(u) \/ Failed(u) \/ Advanced(u) \/ Reads(u)
  BY Outcomes
<1>2. phase[u] \in Going /\ State(u) = "changing"
  BY <1>0, Runs DEF Going, State
<1>3. SameState(Units \ {u})
  <2>1. OthersStay(u)
    BY <1>0, <1>1, Others
  <2> QED
    BY <2>1 DEF OthersStay, SameState, State
<1>4. array' = array => SameThere
  BY DEF SameThere, There, ThereNext
<1>5. CASE Ended(u)
  <2>1. SameThere
    BY <1>4, <1>5 DEF Ended
  <2>2. CASE phase'[u] \in {"active", "inactive"}
    BY <1>0, <1>2, <1>3, <2>1, <2>2, AbstractArrival
  <2>3. CASE phase'[u] \notin {"active", "inactive"}
    <3>1. State(u)' = State(u)
      BY <1>2, <2>3 DEF State
    <3>2. SameState(Units)
      BY <1>3, <3>1 DEF SameState
    <3> QED
      BY <2>1, <3>2, AbstractStutter
  <2> QED
    BY <2>2, <2>3
<1>6. CASE Failed(u) \/ Advanced(u)
  <2>1. phase'[u] \in Going \union {"failed"}
    BY <1>0, <1>2, <1>6, StaysOnTheWay
  <2>2. State(u)' = State(u)
    BY <1>2, <2>1 DEF State, Going
  <2>3. SameState(Units)
    BY <1>3, <2>2 DEF SameState
  <2>4. array' = array \/ WritesOne(u)
    BY OnlyWritesWrite, WriteIsOne
  <2>5. CASE array' = array
    BY <1>4, <2>3, <2>5, AbstractStutter
  <2>6. CASE WritesOne(u)
    BY <1>0, <1>2, <2>3, <2>6, AbstractWrite
  <2> QED
    BY <2>4, <2>5, <2>6
<1>7. CASE Reads(u)
  <2>1. array' = array /\ phase' = phase
    BY <1>7 DEF Reads, ReadFor
  <2>2. SameState(Units)
    BY <2>1 DEF SameState, State
  <2> QED
    BY <1>4, <2>1, <2>2, AbstractStutter
<1> QED
  BY <1>1, <1>5, <1>6, <1>7

LEMMA AbstractStep ==
  ASSUME OwnItems, ~misread', RegistryInv, RegistryInv', [Next]_vars
  PROVE  [Registry!Next]_(Registry!vars)
<1>0. TypeOK /\ Kept'
  BY DEF RegistryInv, TypeInv
<1>1. array' = array => SameThere
  BY DEF SameThere, There, ThereNext
<1>2. phase' = phase => SameState(Units)
  BY DEF SameState, State
<1>3. ASSUME NEW u \in Units, AskStart(u) PROVE [Registry!Next]_(Registry!vars)
  BY <1>1, <1>2, <1>3, AbstractStutter DEF AskStart
<1>4. ASSUME NEW u \in Units, UnitStarts(u) \/ UnitStops(u) PROVE [Registry!Next]_(Registry!vars)
  <2>1. array' = array
    BY <1>4 DEF UnitStarts, UnitStops
  <2>2. SameState(Units \ {u}) /\ State(u)' = "changing"
    BY <1>0, <1>4 DEF UnitStarts, UnitStops, Begins, SameState, State, TypeOK
  <2>3. CASE phase[u] \in {"active", "inactive"}
    BY <1>0, <1>1, <2>1, <2>2, <2>3, AbstractChange
  <2>4. CASE phase[u] \notin {"active", "inactive"}
    <3>1. SameState(Units)
      BY <2>2, <2>4 DEF SameState, State
    <3> QED
      BY <1>1, <2>1, <3>1, AbstractStutter
  <2> QED
    BY <2>3, <2>4
<1>5. ASSUME NEW u \in Units, Command(u) PROVE [Registry!Next]_(Registry!vars)
  BY <1>5, AbstractCommand
<1>6. CASE CaddyRestarts
  BY <1>0, <1>6, AbstractForget
<1>7. CASE UNCHANGED vars
  BY <1>1, <1>2, <1>7, AbstractStutter DEF vars
<1> QED
  BY <1>3, <1>4, <1>5, <1>6, <1>7 DEF Next

-----------------------------------------------------------------------------
\* Commands implement ConfigUnits (register.go, client.go): whatever their requests, those of
\* other units and failures do in between, a unit changes one item of its own at a time, on
\* its way up or down only, and comes up with all its items there and down with none, until
\* the GET of an object that is there is answered with an error status.
THEOREM UnitsImplemented ==
  ASSUME OwnItems
  PROVE  Spec => ImplementsConfigUnits
<1>1. Init => Registry!Init
  BY AbstractInit
<1>2. RegistryInv /\ RegistryInv' /\ [Next]_vars => [Registry!Next \/ misread']_(Registry!vars)
  BY AbstractStep
<1>3. Spec => []RegistryInv
  BY RegistryInvariant
<1> QED
  BY <1>1, <1>2, <1>3, PTL DEF Spec, ImplementsConfigUnits
=============================================================================
