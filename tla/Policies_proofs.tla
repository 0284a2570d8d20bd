--------------------------- MODULE Policies_proofs ---------------------------
(***************************************************************************)
(* What migration may never do: for any number of requests, of commands    *)
(* that create other policies and of kills, no interleaving of their calls *)
(* on the file system loses a policy, and no request decides with anything *)
(* but policies of the directory.                                          *)
(***************************************************************************)
EXTENDS Policies, TLAPS

\* A name has its policy in one place, which is what the moves of a migration rely on; a
\* policy that is to be created is not there.
OneEach(dir) ==
  /\ \A e, f \in Entries :
       e[1] = f[1] /\ e[1] \notin Wanted /\ dir[e].leaf # None /\ dir[f].leaf # None => e = f
  /\ \A e \in Entries : e[1] \in Wanted => dir[e].leaf \in {None, Truncated, Created}

OnePerName == \A w \in Worlds : OneEach(w.fs)

\* What a request has read.
Knows(r) == r.pc # "idle" =>
  \A n \in DOMAIN r.known : r.known[n].name = n /\ r.known[n] \in InFs \union {Created}
KnownInv == \A p \in Servers : Knows(proc[p])

PolicyInv == TypeOK /\ OneEach(fs) /\ KnownInv

-----------------------------------------------------------------------------
(***************************************************************************)
(* Nodes of the file system.                                               *)
(***************************************************************************)
LEMMA NodeFacts ==
  ASSUME NEW x \in Nodes
  PROVE  /\ x.dirs \in Nat /\ x.leaf \in Contents \union {None}
         /\ Dir(x) \in Nodes /\ Dir(x).leaf = x.leaf /\ IsDir(Dir(x))
         /\ ConfigOf(x).leaf = x.leaf
         /\ x = Absent <=> x.dirs = 0 /\ x.leaf = None
         /\ ~IsDir(x) /\ x # Absent => IsFile(x)
         /\ ConfigOf(x) = Absent => x.leaf = None
BY DEF Nodes, Dir, ConfigOf, IsDir, IsFile, Absent

LEMMA AbsentFacts == Absent \in Nodes /\ Absent.leaf = None
BY DEF Absent, Nodes

LEMMA CreatedFacts ==
  /\ Truncated # None /\ Created # None
  /\ File(Truncated) \in Nodes /\ File(Truncated).leaf = Truncated
  /\ Truncated \in Contents /\ Created \in Contents
BY NoneAssumption DEF File, Nodes, Contents

LEMMA EntryFacts ==
  ASSUME NEW e \in Entries
  PROVE  /\ e[1] \in DOMAIN Names /\ e[2] \in Nat
         /\ e[2] < MaxSuffix =>
              Longer(e) \in Entries /\ Longer(e)[1] = e[1] /\ Longer(e) # e
BY BoundsAssumption DEF Entries, Longer

-----------------------------------------------------------------------------
(***************************************************************************)
(* What becomes of the directory: nothing, a move, a new directory, a new  *)
(* file, or what is written to it.                                         *)
(***************************************************************************)
Kept == fs' \in [Entries -> Nodes] /\ OneEach(fs)' /\ InFs \subseteq InFs'

LEMMA SameKept ==
  ASSUME TypeOK, OneEach(fs), UNCHANGED fs
  PROVE  Kept
BY DEF Kept, TypeOK, OneEach, InFs

\* What is moved does not replace the policy of its name: it has that itself.
LEMMA MoveKept ==
  ASSUME TypeOK, OneEach(fs), NEW e \in Entries, NEW f \in Entries, e # f, e[1] = f[1],
         NEW x \in Nodes, x.leaf = fs[e].leaf,
         fs[e].leaf # None \/ fs[f].leaf = None,
         fs' = [fs EXCEPT ![f] = x, ![e] = Absent]
  PROVE  Kept
<1>1. fs \in [Entries -> Nodes]
  BY DEF TypeOK
<1>2. /\ fs' \in [Entries -> Nodes] /\ fs'[f].leaf = fs[e].leaf /\ fs'[e].leaf = None
      /\ \A g \in Entries \ {e, f} : fs'[g] = fs[g]
  BY <1>1, AbsentFacts
<1>3. OneEach(fs)'
  BY <1>2 DEF OneEach
<1>4. InFs \subseteq InFs'
  <2> SUFFICES ASSUME NEW c \in InFs PROVE c \in InFs'
    OBVIOUS
  <2>0. PICK g \in Entries : fs[g].leaf = c /\ c \notin {None, Truncated, Created}
    BY DEF InFs
  <2>1. \E h \in Entries : fs'[h].leaf = c
    <3>1. CASE g \notin {e, f}
      BY <1>2, <2>0, <3>1
    <3>2. CASE g = e
      BY <1>2, <2>0, <3>2
    <3>3. g # f
      <4>1. SUFFICES ASSUME g = f PROVE FALSE
        OBVIOUS
      <4>2. f[1] \notin Wanted /\ fs[f].leaf # None /\ fs[e].leaf # None
        BY <2>0, <4>1 DEF OneEach
      <4> QED
        BY <4>2 DEF OneEach
    <3> QED
      BY <3>1, <3>2, <3>3
  <2> QED
    BY <2>0, <2>1 DEF InFs
<1> QED
  BY <1>2, <1>3, <1>4 DEF Kept

LEMMA MkdirKept ==
  ASSUME TypeOK, OneEach(fs), NEW e \in Entries, ~IsFile(fs[e]), MkdirAll(e)
  PROVE  Kept
<1>1. fs \in [Entries -> Nodes]
  BY DEF TypeOK
<1>2. CASE fs' = fs
  BY <1>2, SameKept
<1>3. CASE ~IsDir(fs[e]) /\ fs' = [fs EXCEPT ![e] = Dir(Absent)]
  <2>1. fs[e].leaf = None /\ Dir(Absent) \in Nodes /\ Dir(Absent).leaf = None
    BY <1>1, <1>3, NodeFacts, AbsentFacts
  <2>2. fs' \in [Entries -> Nodes] /\ \A g \in Entries : fs'[g].leaf = fs[g].leaf
    BY <1>1, <1>3, <2>1
  <2> QED
    BY <2>2 DEF Kept, OneEach, InFs
<1> QED
  BY <1>2, <1>3 DEF MkdirAll

LEMMA CreateKept ==
  ASSUME TypeOK, OneEach(fs), NEW e \in Entries, e[1] \in Wanted,
         fs' = [fs EXCEPT ![e] = Dir(File(Truncated))]
  PROVE  Kept
<1>1. fs \in [Entries -> Nodes]
  BY DEF TypeOK
<1>2. Dir(File(Truncated)) \in Nodes /\ Dir(File(Truncated)).leaf = Truncated
  BY NodeFacts, CreatedFacts
<1>3. /\ fs' \in [Entries -> Nodes] /\ fs'[e].leaf = Truncated
      /\ \A g \in Entries \ {e} : fs'[g] = fs[g]
  BY <1>1, <1>2
<1>4. fs[e].leaf \in {None, Truncated, Created}
  BY DEF OneEach
<1> QED
  BY <1>3, <1>4 DEF Kept, OneEach, InFs

LEMMA EncodeKept ==
  ASSUME TypeOK, OneEach(fs), NEW p \in Peers, Encode(p)
  PROVE  Kept
<1>1. fs \in [Entries -> Nodes]
  BY DEF TypeOK
<1>2. /\ fs' \in [Entries -> Nodes]
      /\ \A g \in Entries : \/ fs'[g] = fs[g]
                            \/ fs[g].leaf = Truncated /\ fs'[g].leaf = Created
  <2>1. \A g \in Entries : /\ [fs[g] EXCEPT !.leaf = Created] \in Nodes
                           /\ [fs[g] EXCEPT !.leaf = Created].leaf = Created
    BY <1>1, CreatedFacts DEF Nodes
  <2> QED
    BY <1>1, <2>1 DEF Encode
<1>3. OneEach(fs)'
  BY <1>2, CreatedFacts DEF OneEach
<1>4. InFs \subseteq InFs'
  <2> SUFFICES ASSUME NEW g \in Entries, fs[g].leaf \notin {None, Truncated, Created}
               PROVE  fs'[g].leaf = fs[g].leaf
    BY DEF InFs
  <2> QED
    BY <1>2
<1> QED
  BY <1>2, <1>3, <1>4 DEF Kept

-----------------------------------------------------------------------------
(***************************************************************************)
(* What each step makes of the directory.                                  *)
(***************************************************************************)
LEMMA ServeKept ==
  ASSUME TypeOK, OneEach(fs), NEW p \in Servers, Serve(p)
  PROVE  Kept
<1>0. fs \in [Entries -> Nodes]
  BY DEF TypeOK
<1>1. CASE RenameAway(p)
  <2>1. CASE UNCHANGED fs
    BY <2>1, SameKept
  <2>2. CASE ~ UNCHANGED fs
    <3>1. PICK e \in Entries :
            /\ e[2] < MaxSuffix /\ CanRename(e, Longer(e))
            /\ fs' = [fs EXCEPT ![Longer(e)] = fs[e], ![e] = Absent]
      BY <1>1, <2>2 DEF RenameAway
    <3>2. Longer(e) \in Entries /\ Longer(e)[1] = e[1] /\ Longer(e) # e
      BY <3>1, EntryFacts
    <3>3. fs[e].leaf # None \/ fs[Longer(e)].leaf = None
      BY <1>0, <3>1, <3>2, NodeFacts, AbsentFacts DEF CanRename, IsFile
    <3>4. fs[e] \in Nodes
      BY <1>0
    <3> QED
      BY <3>1, <3>2, <3>3, <3>4, MoveKept
  <2> QED
    BY <2>1, <2>2
<1>2. CASE MakeDir(p)
  <2>1. CASE UNCHANGED fs
    BY <2>1, SameKept
  <2>2. CASE ~ UNCHANGED fs
    BY <1>2, <2>2, MkdirKept DEF MakeDir
  <2> QED
    BY <2>1, <2>2
<1>3. CASE MoveIn(p)
  <2>1. CASE UNCHANGED fs
    BY <2>1, SameKept
  <2>2. CASE ~ UNCHANGED fs
    <3>1. PICK e \in Entries :
            /\ e[2] < MaxSuffix /\ CanMoveIn(e)
            /\ fs' = [fs EXCEPT ![e] = Dir(fs[Longer(e)]), ![Longer(e)] = Absent]
      BY <1>3, <2>2 DEF MoveIn
    <3>2. Longer(e) \in Entries /\ Longer(e)[1] = e[1] /\ Longer(e) # e
      BY <3>1, EntryFacts
    <3>3. fs[Longer(e)].leaf # None \/ fs[e].leaf = None
      BY <1>0, <3>1, <3>2, NodeFacts DEF CanMoveIn, IsFile
    <3>4. Dir(fs[Longer(e)]) \in Nodes /\ Dir(fs[Longer(e)]).leaf = fs[Longer(e)].leaf
      BY <1>0, <3>2, NodeFacts
    <3> QED
      BY <3>1, <3>2, <3>3, <3>4, MoveKept
  <2> QED
    BY <2>1, <2>2
<1>4. CASE Receive(p) \/ ReadDir(p) \/ StatConfig(p) \/ AllListed(p) \/ ReadPolicy(p)
           \/ CheckPolicies(p)
  BY <1>4, SameKept DEF Receive, ReadDir, StatConfig, AllListed, ReadPolicy, CheckPolicies
<1> QED
  BY <1>1, <1>2, <1>3, <1>4 DEF Serve

LEMMA CommandKept ==
  ASSUME TypeOK, OneEach(fs), NEW p \in Peers, PolicyCommand(p)
  PROVE  Kept
<1>0. proc[p].pc # "idle" => proc[p].entry \in Entries /\ proc[p].entry[1] \in Wanted
  BY WantedAssumption, BoundsAssumption DEF TypeOK, PeerState, Entries
<1>1. CASE FindPolicy(p) \/ CreateCommand(p)
  BY <1>1, SameKept DEF FindPolicy, CreateCommand
<1>2. CASE CreateDir(p)
  <2>1. CASE UNCHANGED fs
    BY <2>1, SameKept
  <2>2. CASE ~ UNCHANGED fs
    BY <1>0, <1>2, <2>2, MkdirKept DEF CreateDir
  <2> QED
    BY <2>1, <2>2
<1>3. CASE CreateFile(p)
  <2>1. CASE UNCHANGED fs
    BY <2>1, SameKept
  <2>2. CASE ~ UNCHANGED fs
    BY <1>0, <1>3, <2>2, CreateKept DEF CreateFile
  <2> QED
    BY <2>1, <2>2
<1>4. CASE Encode(p)
  BY <1>4, EncodeKept
<1> QED
  BY <1>1, <1>2, <1>3, <1>4 DEF PolicyCommand

LEMMA StepKept ==
  ASSUME TypeOK, OneEach(fs), [Next]_vars
  PROVE  Kept
<1>1. CASE Kill
  BY <1>1, SameKept DEF Kill
<1>2. CASE UNCHANGED vars
  BY <1>2, SameKept DEF vars
<1> QED
  BY <1>1, <1>2, ServeKept, CommandKept DEF Next

-----------------------------------------------------------------------------
(***************************************************************************)
(* What each step makes of the process.                                    *)
(***************************************************************************)
LEMMA GoBecomes ==
  ASSUME NEW p \in Servers, NEW pc, Go(p, pc), ServerState(proc[p]), proc[p].pc # "idle",
         pc \in {"list", "rename", "mkdir", "move", "stat", "read"}
  PROVE  \E r : Becomes(p, r) /\ ServerState(r) /\ (Knows(proc[p]) => Knows(r))
<1> DEFINE r == [proc[p] EXCEPT !.pc = pc]
<1>1. /\ r.pc = pc /\ r.question = proc[p].question /\ r.todo = proc[p].todo
      /\ r.found = proc[p].found /\ r.known = proc[p].known /\ DOMAIN r = Fields
  BY DEF ServerState, Fields
<1>2. Becomes(p, r)
  BY DEF Go
<1> HIDE DEF r
<1> QED
  BY <1>1, <1>2 DEF ServerState, Knows

LEMMA AnswerBecomes ==
  ASSUME NEW p \in Servers, NEW status, Answer(p, status)
  PROVE  \E r : Becomes(p, r) /\ ServerState(r) /\ (Knows(proc[p]) => Knows(r))
<1> DEFINE r == [pc |-> "idle", question |-> proc[p].question, status |-> status]
<1>1. Becomes(p, r)
  BY DEF Answer
<1>2. r.pc = "idle"
  OBVIOUS
<1> HIDE DEF r
<1> QED
  BY <1>1, <1>2 DEF ServerState, Knows

LEMMA KnownFacts ==
  ASSUME TypeOK, NEW e \in Entries, Readable(e), NEW known, NEW policy, policy = fs[e].leaf,
         \A n \in DOMAIN known : known[n].name = n /\ known[n] \in InFs \union {Created}
  PROVE  \A n \in DOMAIN AddKnown(known, policy) :
           /\ AddKnown(known, policy)[n].name = n
           /\ AddKnown(known, policy)[n] \in InFs \union {Created}
<1>1. fs[e] \in Nodes
  BY DEF TypeOK
<1>2. policy # None /\ policy # Truncated
  BY <1>1, NodeFacts DEF Readable, IsFile
<1>3. policy \in InFs \union {Created}
  BY <1>2 DEF InFs
<1> QED
  BY <1>3 DEF AddKnown

LEMMA ServeBecomes ==
  ASSUME TypeOK, NEW p \in Servers, Serve(p)
  PROVE  \E r : Becomes(p, r) /\ ServerState(r) /\ (Knows(proc[p]) => Knows(r))
<1>0. ServerState(proc[p])
  BY DEF TypeOK
<1>1. CASE Receive(p)
  <2>1. PICK q \in Questions : Becomes(p, [pc |-> "list", question |-> q, todo |-> {}, dirs |-> {}, found |-> {},
                     known |-> <<>>])
    BY <1>1 DEF Receive
  <2> DEFINE r == [pc |-> "list", question |-> q, todo |-> {}, dirs |-> {}, found |-> {},
                   known |-> <<>>]
  <2>2. /\ DOMAIN r = Fields /\ r.pc = "list" /\ r.question \in Questions /\ r.todo = {}
        /\ r.found = {} /\ DOMAIN r.known = {}
    BY DEF Fields
  <2>3. Becomes(p, r)
    BY <2>1
  <2> HIDE DEF r
  <2> QED
    BY <2>2, <2>3 DEF ServerState, Knows
<1>2. CASE ReadDir(p)
  <2> DEFINE r == [proc[p] EXCEPT
                   !.pc = "rename", !.todo = {e \in Entries : fs[e] # Absent},
                   !.dirs = {e \in Entries : IsDir(fs[e])}]
  <2>1. DOMAIN proc[p] = Fields
    BY <1>0, <1>2 DEF ReadDir, ServerState
  <2>2. /\ r.pc = "rename" /\ r.question = proc[p].question
        /\ r.todo = {e \in Entries : fs[e] # Absent}
        /\ r.found = proc[p].found /\ r.known = proc[p].known /\ DOMAIN r = Fields
    BY <2>1 DEF Fields
  <2>3. Becomes(p, r)
    BY <1>2 DEF ReadDir
  <2> HIDE DEF r
  <2> QED
    BY <1>0, <1>2, <2>2, <2>3 DEF ServerState, Knows, ReadDir
<1>3. CASE RenameAway(p)
  BY <1>0, <1>3, GoBecomes, AnswerBecomes DEF RenameAway, AtEntry
<1>4. CASE MakeDir(p)
  BY <1>0, <1>4, GoBecomes, AnswerBecomes DEF MakeDir, AtEntry
<1>5. CASE MoveIn(p)
  BY <1>0, <1>5, GoBecomes, AnswerBecomes DEF MoveIn, AtEntry
<1>6. CASE StatConfig(p)
  <2>1. CASE Answer(p, 500)
    BY <2>1, AnswerBecomes
  <2>2. CASE ~ Answer(p, 500)
    <3>1. PICK e \in Entries :
            /\ proc[p].pc = "stat"
            /\ Becomes(p, [proc[p] EXCEPT
                 !.pc = "rename", !.todo = @ \ {e}, !.dirs = @ \ {e},
                 !.found = IF HasConfig(e) THEN @ \union {e} ELSE @])
      BY <1>6, <2>2 DEF StatConfig, AtEntry
    <3> DEFINE found == IF HasConfig(e) THEN proc[p].found \union {e} ELSE proc[p].found
               r == [proc[p] EXCEPT !.pc = "rename", !.todo = @ \ {e}, !.dirs = @ \ {e},
                                    !.found = IF HasConfig(e) THEN @ \union {e} ELSE @]
    <3>2. DOMAIN proc[p] = Fields
      BY <1>0, <3>1 DEF ServerState
    <3>3. /\ r.pc = "rename" /\ r.question = proc[p].question /\ r.todo = proc[p].todo \ {e}
          /\ r.found = found /\ r.known = proc[p].known /\ DOMAIN r = Fields
      BY <3>2 DEF Fields
    <3>4. Becomes(p, r)
      BY <3>1
    <3>5. found \subseteq Entries
      BY <1>0, <3>1 DEF ServerState
    <3> HIDE DEF r
    <3> QED
      BY <1>0, <3>1, <3>3, <3>4, <3>5 DEF ServerState, Knows
  <2> QED
    BY <2>1, <2>2
<1>7. CASE AllListed(p)
  BY <1>0, <1>7, GoBecomes DEF AllListed
<1>8. CASE ReadPolicy(p)
  <2>1. CASE Answer(p, 500)
    BY <2>1, AnswerBecomes
  <2>2. CASE ~ Answer(p, 500)
    <3>1. PICK e \in Entries :
            /\ proc[p].pc = "read" /\ Readable(e)
            /\ Becomes(p, [proc[p] EXCEPT
                 !.found = @ \ {e}, !.known = AddKnown(@, fs[e].leaf)])
      BY <1>8, <2>2 DEF ReadPolicy
    <3> DEFINE known == AddKnown(proc[p].known, fs[e].leaf)
               r == [proc[p] EXCEPT !.found = @ \ {e}, !.known = AddKnown(@, fs[e].leaf)]
    <3>2. DOMAIN proc[p] = Fields
      BY <1>0, <3>1 DEF ServerState
    <3>3. /\ r.pc = "read" /\ r.question = proc[p].question /\ r.todo = proc[p].todo
          /\ r.found = proc[p].found \ {e} /\ r.known = known /\ DOMAIN r = Fields
      BY <3>1, <3>2 DEF Fields
    <3>4. Becomes(p, r)
      BY <3>1
    <3>5. Knows(proc[p]) => \A n \in DOMAIN proc[p].known :
            /\ proc[p].known[n].name = n
            /\ proc[p].known[n] \in InFs \union {Created}
      BY <3>1 DEF Knows
    <3>6. Knows(proc[p]) =>
            \A n \in DOMAIN known : known[n].name = n /\ known[n] \in InFs \union {Created}
      BY <3>1, <3>5, KnownFacts
    <3> HIDE DEF r, known
    <3>7. ServerState(r)
      BY <1>0, <3>1, <3>3 DEF ServerState
    <3> QED
      BY <3>3, <3>4, <3>6, <3>7 DEF Knows
  <2> QED
    BY <2>1, <2>2
<1>9. CASE CheckPolicies(p)
  BY <1>9, AnswerBecomes DEF CheckPolicies
<1> QED
  BY <1>1, <1>2, <1>3, <1>4, <1>5, <1>6, <1>7, <1>8, <1>9 DEF Serve

LEMMA CommandBecomes ==
  ASSUME TypeOK, NEW p \in Peers, PolicyCommand(p)
  PROVE  \E r : Becomes(p, r) /\ PeerState(r)
<1>0. PeerState(proc[p])
  BY DEF TypeOK
<1>1. ASSUME Leave(p) PROVE \E r : Becomes(p, r) /\ PeerState(r)
  <2>1. Becomes(p, Idle) /\ Idle.pc = "idle"
    BY <1>1 DEF Leave, Idle
  <2> QED
    BY <2>1 DEF PeerState
<1>2. ASSUME NEW w \in Wanted,
             Becomes(p, [pc |-> "mkdirAll", entry |-> <<w, 0>>])
      PROVE  \E r : Becomes(p, r) /\ PeerState(r)
  <2> DEFINE r == [pc |-> "mkdirAll", entry |-> <<w, 0>>]
  <2>1. DOMAIN r = {"pc", "entry"} /\ r.pc = "mkdirAll" /\ r.entry \in Wanted \X {0}
    OBVIOUS
  <2>2. Becomes(p, r)
    BY <1>2
  <2> HIDE DEF r
  <2> QED
    BY <2>1, <2>2 DEF PeerState
<1>3. ASSUME NEW pc \in {"create", "encode"}, Go(p, pc), proc[p].pc # "idle"
      PROVE  \E r : Becomes(p, r) /\ PeerState(r)
  <2> DEFINE r == [proc[p] EXCEPT !.pc = pc]
  <2>1. DOMAIN r = {"pc", "entry"} /\ r.pc = pc /\ r.entry = proc[p].entry
    BY <1>0, <1>3 DEF PeerState
  <2>2. Becomes(p, r)
    BY <1>3 DEF Go
  <2> HIDE DEF r
  <2> QED
    BY <1>0, <1>3, <2>1, <2>2 DEF PeerState
<1>4. CASE FindPolicy(p)
  BY <1>1, <1>2, <1>4 DEF FindPolicy
<1>5. CASE CreateCommand(p)
  BY <1>2, <1>5 DEF CreateCommand
<1>6. CASE CreateDir(p)
  BY <1>1, <1>3, <1>6 DEF CreateDir
<1>7. CASE CreateFile(p)
  BY <1>1, <1>3, <1>7 DEF CreateFile
<1>8. CASE Encode(p)
  BY <1>1, <1>8 DEF Encode
<1> QED
  BY <1>4, <1>5, <1>6, <1>7, <1>8 DEF PolicyCommand

-----------------------------------------------------------------------------
\* The directory keeps its type, also when something is lost in it.
LEMMA StepTyped ==
  ASSUME TypeOK, [Next]_vars
  PROVE  fs' \in [Entries -> Nodes]
<1>0. fs \in [Entries -> Nodes] /\ Absent \in Nodes /\ Dir(Absent) \in Nodes
      /\ Dir(File(Truncated)) \in Nodes
  BY AbsentFacts, CreatedFacts, NodeFacts DEF TypeOK
<1>1. ASSUME NEW e \in Entries, MkdirAll(e) PROVE fs' \in [Entries -> Nodes]
  BY <1>0, <1>1 DEF MkdirAll
<1>2. ASSUME NEW p \in Servers, Serve(p) PROVE fs' \in [Entries -> Nodes]
  <2>1. CASE RenameAway(p)
    BY <1>0, <2>1 DEF RenameAway
  <2>2. CASE MakeDir(p)
    BY <1>0, <1>1, <2>2 DEF MakeDir
  <2>3. CASE MoveIn(p)
    <3>1. \A e \in Entries : e[2] < MaxSuffix => Dir(fs[Longer(e)]) \in Nodes
      BY <1>0, EntryFacts, NodeFacts
    <3> QED
      BY <1>0, <2>3, <3>1 DEF MoveIn
  <2>4. CASE UNCHANGED fs
    BY <1>0, <2>4
  <2> QED
    BY <1>2, <2>1, <2>2, <2>3, <2>4
    DEF Serve, Receive, ReadDir, StatConfig, AllListed, ReadPolicy, CheckPolicies
<1>3. ASSUME NEW p \in Peers, PolicyCommand(p) PROVE fs' \in [Entries -> Nodes]
  <2>0. proc[p].pc # "idle" => proc[p].entry \in Entries
    BY WantedAssumption, BoundsAssumption DEF TypeOK, PeerState, Entries
  <2>1. CASE CreateDir(p)
    BY <1>0, <1>1, <2>0, <2>1 DEF CreateDir
  <2>2. CASE CreateFile(p)
    BY <1>0, <2>0, <2>2 DEF CreateFile
  <2>3. CASE Encode(p)
    <3>1. \A g \in Entries : [fs[g] EXCEPT !.leaf = Created] \in Nodes
      BY <1>0, CreatedFacts DEF Nodes
    <3> QED
      BY <1>0, <2>3, <3>1 DEF Encode
  <2>4. CASE UNCHANGED fs
    BY <1>0, <2>4
  <2> QED
    BY <1>3, <2>1, <2>2, <2>3, <2>4 DEF PolicyCommand, FindPolicy, CreateCommand
<1> QED
  BY <1>0, <1>2, <1>3 DEF Next, Kill, vars

LEMMA CountersKept ==
  ASSUME TypeOK, [Next]_vars
  PROVE  left' \in Nat /\ kills' \in 0..MaxKills /\ disturbed' \in BOOLEAN
<1>0. left \in Nat /\ kills \in 0..MaxKills /\ disturbed \in BOOLEAN
  BY DEF TypeOK
<1>1. CASE Same
  BY <1>0, <1>1 DEF Same
<1>2. ASSUME NEW p, left > 0, left' = left - 1, Overlap(p), kills' = kills
      PROVE  left' \in Nat /\ kills' \in 0..MaxKills /\ disturbed' \in BOOLEAN
  <2>1. left' \in Nat /\ kills' \in 0..MaxKills
    BY <1>0, <1>2
  <2>2. disturbed' \in BOOLEAN
    BY <1>2, Zenon DEF Overlap
  <2> QED
    BY <2>1, <2>2
<1>3. CASE \E p \in Servers : Serve(p)
  BY <1>1, <1>2, <1>3
  DEF Serve, Receive, ReadDir, RenameAway, MakeDir, MoveIn, StatConfig, AllListed, ReadPolicy,
      CheckPolicies
<1>4. CASE \E p \in Peers : PolicyCommand(p)
  BY <1>1, <1>2, <1>4 DEF PolicyCommand, FindPolicy, CreateCommand, CreateDir, CreateFile, Encode
<1>5. CASE Kill
  BY <1>0, <1>5, BoundsAssumption DEF Kill
<1>6. CASE UNCHANGED vars
  BY <1>0, <1>6 DEF vars
<1> QED
  BY <1>3, <1>4, <1>5, <1>6 DEF Next

\* What a request has read stays in the directory.
LEMMA KnownKept ==
  ASSUME InFs \subseteq InFs', NEW p, proc'[p] = proc[p], Knows(proc[p])
  PROVE  Knows(proc[p])'
BY DEF Knows

\* What the requests and commands become, whatever happens to the directory; what a request
\* has read stays there if nothing is lost.
ProcsKept ==
  /\ DOMAIN proc' = Processes
  /\ \A q \in Servers : /\ ServerState(proc'[q])
                        /\ Knows(proc[q]) /\ InFs \subseteq InFs' => Knows(proc[q])'
  /\ \A q \in Peers : PeerState(proc'[q])

LEMMA StepProcs ==
  ASSUME TypeOK, [Next]_vars
  PROVE  ProcsKept
<1>1. DOMAIN proc = Processes
  BY DEF TypeOK
<1>4. /\ \A q \in Servers : ServerState(proc[q])
      /\ \A q \in Peers : PeerState(proc[q])
  BY DEF TypeOK
<1>5. ASSUME NEW p \in Servers, Serve(p) PROVE ProcsKept
  <2>1. PICK r : Becomes(p, r) /\ ServerState(r) /\ (Knows(proc[p]) => Knows(r))
    BY <1>5, ServeBecomes
  <2>2. /\ DOMAIN proc' = Processes /\ proc'[p] = r
        /\ \A q \in Processes \ {p} : proc'[q] = proc[q]
    BY <1>1, <2>1 DEF Becomes, Processes
  <2>3. ServerState(proc'[p]) /\ (Knows(proc[p]) /\ InFs \subseteq InFs' => Knows(proc[p])')
    BY <2>1, <2>2 DEF Knows
  <2>4. ASSUME NEW q \in Servers, q # p
        PROVE  ServerState(proc'[q]) /\ (Knows(proc[q]) /\ InFs \subseteq InFs' => Knows(proc[q])')
    <3>1. proc'[q] = proc[q]
      BY <2>2, <2>4 DEF Processes
    <3> QED
      BY <1>4, <3>1, KnownKept
  <2>5. ASSUME NEW q \in Peers PROVE PeerState(proc'[q])
    <3>1. proc'[q] = proc[q]
      BY <2>2, ProcessesAssumption DEF Processes
    <3> QED
      BY <1>4, <3>1
  <2> QED
    BY <2>2, <2>3, <2>4, <2>5 DEF ProcsKept
<1>6. ASSUME NEW p \in Peers, PolicyCommand(p) PROVE ProcsKept
  <2>1. PICK r : Becomes(p, r) /\ PeerState(r)
    BY <1>6, CommandBecomes
  <2>2. /\ DOMAIN proc' = Processes /\ proc'[p] = r
        /\ \A q \in Processes \ {p} : proc'[q] = proc[q]
    BY <1>1, <2>1 DEF Becomes, Processes
  <2>3. ASSUME NEW q \in Servers
        PROVE  ServerState(proc'[q]) /\ (Knows(proc[q]) /\ InFs \subseteq InFs' => Knows(proc[q])')
    <3>1. proc'[q] = proc[q]
      BY <2>2, ProcessesAssumption DEF Processes
    <3> QED
      BY <1>4, <3>1, KnownKept
  <2>4. ASSUME NEW q \in Peers, q # p PROVE PeerState(proc'[q])
    <3>1. proc'[q] = proc[q]
      BY <2>2, <2>4 DEF Processes
    <3> QED
      BY <1>4, <3>1
  <2> QED
    BY <2>1, <2>2, <2>3, <2>4 DEF ProcsKept
<1>7. CASE Kill
  <2>1. PICK killed : proc' = [q \in Processes |-> IF q \in killed THEN Idle ELSE proc[q]]
    BY <1>7 DEF Kill
  <2>2. \A q \in Processes : proc'[q] = proc[q] \/ proc'[q].pc = "idle"
    BY <2>1 DEF Idle
  <2>3. ASSUME NEW q \in Servers
        PROVE  ServerState(proc'[q]) /\ (Knows(proc[q]) /\ InFs \subseteq InFs' => Knows(proc[q])')
    <3>1. CASE proc'[q] = proc[q]
      BY <1>4, <3>1, KnownKept
    <3>2. CASE proc'[q].pc = "idle"
      BY <3>2 DEF ServerState, Knows
    <3> QED
      BY <2>2, <3>1, <3>2 DEF Processes
  <2>4. ASSUME NEW q \in Peers PROVE PeerState(proc'[q])
    BY <1>4, <2>2 DEF PeerState, Processes
  <2> QED
    BY <2>1, <2>3, <2>4 DEF ProcsKept
<1>8. CASE UNCHANGED vars
  <2>1. proc' = proc
    BY <1>8 DEF vars
  <2>2. \A q \in Servers : Knows(proc[q]) /\ InFs \subseteq InFs' => Knows(proc[q])'
    BY <2>1, KnownKept
  <2> QED
    BY <1>1, <1>4, <2>1, <2>2 DEF ProcsKept
<1> QED
  BY <1>5, <1>6, <1>7, <1>8 DEF Next

LEMMA TypeStep == TypeOK /\ [Next]_vars => TypeOK'
<1> SUFFICES ASSUME TypeOK, [Next]_vars PROVE TypeOK'
  OBVIOUS
<1>1. fs' \in [Entries -> Nodes]
  BY StepTyped
<1>2. left' \in Nat /\ kills' \in 0..MaxKills /\ disturbed' \in BOOLEAN
  BY CountersKept
<1>3. ProcsKept
  BY StepProcs
<1> QED
  BY <1>1, <1>2, <1>3 DEF TypeOK, ProcsKept

LEMMA PolicyStep == PolicyInv /\ [Next]_vars => PolicyInv'
<1> SUFFICES ASSUME PolicyInv, [Next]_vars PROVE PolicyInv'
  OBVIOUS
<1>1. TypeOK /\ OneEach(fs) /\ KnownInv
  BY DEF PolicyInv
<1>2. TypeOK'
  BY <1>1, TypeStep
<1>3. OneEach(fs)' /\ InFs \subseteq InFs'
  BY <1>1, StepKept DEF Kept
<1>4. KnownInv'
  BY <1>1, <1>3, StepProcs DEF KnownInv, ProcsKept
<1> QED
  BY <1>2, <1>3, <1>4 DEF PolicyInv

LEMMA TypeInit == Init => TypeOK
<1> SUFFICES ASSUME Init PROVE TypeOK
  OBVIOUS
<1>1. fs \in [Entries -> Nodes] /\ left \in Nat
  BY WorldsAssumption DEF Init
<1>2. DOMAIN proc = Processes /\ \A p \in Processes : proc[p].pc = "idle"
  BY DEF Init, Idle
<1>3. kills \in 0..MaxKills /\ disturbed = FALSE
  BY BoundsAssumption DEF Init
<1>4. /\ \A p \in Servers : ServerState(proc[p])
      /\ \A p \in Peers : PeerState(proc[p])
  BY <1>2 DEF ServerState, PeerState, Processes
<1> QED
  BY <1>1, <1>2, <1>3, <1>4 DEF TypeOK

\* Every variable keeps its type: a listing is one of entries, and what a command creates is
\* what it looked for.
THEOREM PoliciesTypeCorrect == Spec => []TypeOK
BY TypeInit, TypeStep, PTL DEF Spec

LEMMA PolicyInit == ASSUME OnePerName PROVE Init => PolicyInv
<1> SUFFICES ASSUME Init PROVE PolicyInv
  OBVIOUS
<1>1. OneEach(fs)
  BY DEF Init, OnePerName
<1>2. \A p \in Servers : proc[p].pc = "idle"
  BY DEF Init, Idle, Processes
<1> QED
  BY <1>1, <1>2, TypeInit DEF PolicyInv, KnownInv, Knows

LEMMA Inductive == ASSUME OnePerName PROVE Spec => []PolicyInv
<1>1. Init => PolicyInv
  BY PolicyInit
<1>2. PolicyInv /\ [Next]_vars => PolicyInv'
  BY PolicyStep
<1> QED
  BY <1>1, <1>2, PTL DEF Spec

\* Migrating, whoever else migrates, creates or is killed, loses no policy
\* (policy_migrate_to_dir in policy_list.go).
THEOREM MigrationKeeps == ASSUME OnePerName PROVE Spec => NothingLost
<1>1. PolicyInv /\ [Next]_vars => [InFs \subseteq InFs']_vars
  BY StepKept DEF PolicyInv, Kept
<1> QED
  BY <1>1, Inductive, PTL DEF Spec, NothingLost

\* Whatever is moved while a request reads, it decides with policies that are in the
\* directory, each under its own name, or with one that was just created
\* (httpCheckPolicies in policy_server.go, LoadPolicies in policy_load.go).
THEOREM DecidesWithStored == ASSUME OnePerName PROVE Spec => []KnownInv
<1>1. PolicyInv => KnownInv
  BY DEF PolicyInv
<1> QED
  BY <1>1, Inductive, PTL
=============================================================================
