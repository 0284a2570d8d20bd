------------------------------ MODULE Policies ------------------------------
(***************************************************************************)
(* The policy server and the directory of policies.  Every request reads   *)
(* all policies again, and migrates those that are still plain files:      *)
(* "foo" becomes "foo.json", then "foo/policy.json".  Requests are handled *)
(* concurrently, and "conductor peer" reads policies and creates one it    *)
(* does not find; nothing serialises them.  Each call on the file system   *)
(* is a step.                                                              *)
(***************************************************************************)
EXTENDS Integers

CONSTANTS
  None,         \* what a field is when it is left out
  Names,        \* names of policies, in the order of the directory: a sequence
  Stored,       \* what the files of policies may say: records with a name
  Servers,      \* the goroutines of requests
  Peers,        \* the "conductor peer" and "policy create" processes
  Wanted,       \* what these commands look for or create
  Worlds,       \* what there may be to begin with: the directory, and how many
                \* requests and peer commands come
  Questions,    \* the requests
  Verdict(_, _),\* the status of the answer: from the policies by name, and the request
  MaxSuffix,    \* bound on the ".json" a name may have been given
  MaxKills      \* bound on the times a process is killed

VARIABLES
  fs,           \* entry -> what is there
  proc,         \* process -> where it is in its code
  left,         \* requests and peer commands still to come
  kills,
  disturbed     \* two processes have overlapped, or one was killed

vars == <<fs, proc, left, kills, disturbed>>

\* An entry <<n, k>> is the k-th name with n times ".json" after it.
Entries == (DOMAIN Names) \X (0..MaxSuffix)
Longer(e) == <<e[1], e[2] + 1>>
Before(d, e) == d[1] < e[1] \/ (d[1] = e[1] /\ d[2] <= e[2])
\* Does the JSON's name equal the base name of the directory?
SameName(content, e) == content.name \in {"", Names[e[1]]} /\ (content.name # "" => e[2] = 0)

\* What is in the place of an entry: a file in some directories, the one in the other, of
\* which all but the first are called policy.json, since a rename can make that a directory;
\* directories without a file in the last; or nothing.
Absent == [dirs |-> 0, leaf |-> None]
File(c) == [dirs |-> 0, leaf |-> c]
Dir(config) == [config EXCEPT !.dirs = @ + 1]
ConfigOf(node) == [node EXCEPT !.dirs = @ - 1]
IsDir(node) == node.dirs > 0
IsFile(node) == node.dirs = 0 /\ node.leaf # None

\* What os.Create leaves until the policy is encoded, and what Create encodes.
Truncated == [name |-> None]
Created == [name |-> "", default |-> "", match |-> <<>>]
Contents == Stored \union {Truncated, Created}
Nodes == [dirs : Nat, leaf : Contents \union {None}]

ASSUME NoneAssumption == None \notin Contents
ASSUME BoundsAssumption == MaxSuffix \in Nat /\ MaxKills \in Nat
ASSUME WantedAssumption == Wanted \subseteq DOMAIN Names
ASSUME WorldsAssumption ==
  \A w \in Worlds : w.fs \in [Entries -> Nodes] /\ w.requests \in Nat
ASSUME ProcessesAssumption == Servers \intersect Peers = {}

Processes == Servers \union Peers
Idle == [pc |-> "idle"]

\* What a process has to do and to remember while it is not idle.
Fields == {"pc", "question", "todo", "dirs", "found", "known"}
ServerState(r) ==
  /\ r.pc \in {"idle", "list", "rename", "mkdir", "move", "stat", "read"}
  /\ r.pc # "idle" =>
       /\ DOMAIN r = Fields /\ r.question \in Questions
       /\ r.todo \subseteq Entries /\ r.found \subseteq Entries
PeerState(r) ==
  /\ r.pc \in {"idle", "mkdirAll", "create", "encode"}
  /\ r.pc # "idle" => DOMAIN r = {"pc", "entry"} /\ r.entry \in Wanted \X {0}

TypeOK ==
  /\ fs \in [Entries -> Nodes]
  /\ DOMAIN proc = Processes
  /\ \A p \in Servers : ServerState(proc[p])
  /\ \A p \in Peers : PeerState(proc[p])
  /\ left \in Nat /\ kills \in 0..MaxKills /\ disturbed \in BOOLEAN

Init ==
  /\ \E w \in Worlds : fs = w.fs /\ left = w.requests
  /\ proc = [p \in Processes |-> Idle]
  /\ kills = 0 /\ disturbed = FALSE

Becomes(p, r) == proc' = [proc EXCEPT ![p] = r]
Go(p, pc) == Becomes(p, [proc[p] EXCEPT !.pc = pc])
Leave(p) == Becomes(p, Idle)
Overlap(p) == disturbed' = (disturbed \/ \E q \in Processes \ {p} : proc[q].pc # "idle")
Same == UNCHANGED <<left, kills, disturbed>>

(***************************************************************************)
(* A request                                                               *)
(***************************************************************************)
\* The answer is kept until the next request.
Answer(p, status) ==
  Becomes(p, [pc |-> "idle", question |-> proc[p].question, status |-> status])

\* Mutant of Receive: there is always another request.
ReceiveAlways(p) ==
  /\ proc[p].pc = "idle"
  /\ \E q \in Questions :
       Becomes(p, [pc |-> "list", question |-> q, todo |-> {}, dirs |-> {}, found |-> {},
                   known |-> <<>>])
  /\ left' = left - 1
  /\ Overlap(p)
  /\ UNCHANGED <<fs, kills>>

Receive(p) ==
  /\ proc[p].pc = "idle" /\ left > 0
  /\ \E q \in Questions :
       Becomes(p, [pc |-> "list", question |-> q, todo |-> {}, dirs |-> {}, found |-> {},
                   known |-> <<>>])
  /\ left' = left - 1
  /\ Overlap(p)
  /\ UNCHANGED <<fs, kills>>

\* The types of the entries are those of this moment.
ReadDir(p) ==
  /\ proc[p].pc = "list"
  /\ Becomes(p, [proc[p] EXCEPT
       !.pc = "rename", !.todo = {e \in Entries : fs[e] # Absent},
       !.dirs = {e \in Entries : IsDir(fs[e])}])
  /\ UNCHANGED fs /\ Same

\* Entries are gone through in the order of their names.
First(S, e) == e \in S /\ \A f \in S : Before(e, f)
AtEntry(p, pc, e) == proc[p].pc = pc /\ First(proc[p].todo, e)

\* Mutant of CanRename: what is there is replaced, whatever it is.
CanAlwaysRename(e, f) == fs[e] # Absent

\* rename(2) next to it; os.Rename itself refuses an existing directory.
CanRename(e, f) ==
  /\ fs[e] # Absent /\ ~IsDir(fs[f])
  /\ IsDir(fs[e]) => fs[f] = Absent

RenameAway(p) ==
  /\ \E e \in Entries :
       /\ AtEntry(p, "rename", e)
       /\ \/ e \in proc[p].dirs /\ Go(p, "stat") /\ UNCHANGED fs
          \/ /\ e \notin proc[p].dirs /\ e[2] < MaxSuffix /\ CanRename(e, Longer(e))
             /\ fs' = [fs EXCEPT ![Longer(e)] = fs[e], ![e] = Absent]
             /\ Go(p, "mkdir")
          \/ /\ e \notin proc[p].dirs /\ e[2] < MaxSuffix /\ ~CanRename(e, Longer(e))
             /\ Answer(p, 500) /\ UNCHANGED fs
  /\ Same

MkdirAll(e) == fs' = IF IsDir(fs[e]) THEN fs ELSE [fs EXCEPT ![e] = Dir(Absent)]

MakeDir(p) ==
  /\ \E e \in Entries :
       /\ AtEntry(p, "mkdir", e)
       /\ \/ IsFile(fs[e]) /\ Answer(p, 500) /\ UNCHANGED fs
          \/ ~IsFile(fs[e]) /\ MkdirAll(e) /\ Go(p, "move")
  /\ Same

\* rename(2) to policy.json in the directory, which may have become a plain file again.
CanMoveIn(e) ==
  /\ fs[Longer(e)] # Absent /\ IsDir(fs[e]) /\ ~IsDir(ConfigOf(fs[e]))
  /\ IsDir(fs[Longer(e)]) => ConfigOf(fs[e]) = Absent

MoveIn(p) ==
  /\ \E e \in Entries :
       /\ AtEntry(p, "move", e) /\ e[2] < MaxSuffix
       /\ \/ /\ CanMoveIn(e)
             /\ fs' = [fs EXCEPT ![e] = Dir(fs[Longer(e)]), ![Longer(e)] = Absent]
             /\ Go(p, "stat")
          \/ ~CanMoveIn(e) /\ Answer(p, 500) /\ UNCHANGED fs
  /\ Same

\* Without policy.json it is no policy; below a plain file the error is another one.
HasConfig(e) == IsDir(fs[e]) /\ ConfigOf(fs[e]) # Absent

\* Mutant of StatConfig: what was a file in the listing is not read before the next one.
StatConfigListed(p) ==
  /\ \E e \in Entries :
       /\ AtEntry(p, "stat", e)
       /\ \/ IsFile(fs[e]) /\ Answer(p, 500)
          \/ /\ ~IsFile(fs[e])
             /\ Becomes(p, [proc[p] EXCEPT
                  !.pc = "rename", !.todo = @ \ {e}, !.dirs = @ \ {e},
                  !.found = IF HasConfig(e) /\ e \in proc[p].dirs THEN @ \union {e} ELSE @])
  /\ UNCHANGED fs /\ Same

StatConfig(p) ==
  /\ \E e \in Entries :
       /\ AtEntry(p, "stat", e)
       /\ \/ IsFile(fs[e]) /\ Answer(p, 500)
          \/ /\ ~IsFile(fs[e])
             /\ Becomes(p, [proc[p] EXCEPT
                  !.pc = "rename", !.todo = @ \ {e}, !.dirs = @ \ {e},
                  !.found = IF HasConfig(e) THEN @ \union {e} ELSE @])
  /\ UNCHANGED fs /\ Same

AllListed(p) ==
  /\ proc[p].pc = "rename" /\ proc[p].todo = {}
  /\ Go(p, "read")
  /\ UNCHANGED fs /\ Same

Readable(e) ==
  /\ IsDir(fs[e]) /\ IsFile(ConfigOf(fs[e]))
  /\ fs[e].leaf # Truncated
  /\ SameName(fs[e].leaf, e)

\* The first one of a name counts.
AddKnown(known, policy) ==
  [n \in DOMAIN known \union {policy.name} |-> IF n \in DOMAIN known THEN known[n] ELSE policy]

ReadPolicy(p) ==
  /\ proc[p].pc = "read"
  /\ \E e \in Entries :
       /\ First(proc[p].found, e)
       /\ \/ /\ Readable(e)
             /\ Becomes(p, [proc[p] EXCEPT
                  !.found = @ \ {e}, !.known = AddKnown(@, fs[e].leaf)])
          \/ ~Readable(e) /\ Answer(p, 500)
  /\ UNCHANGED fs /\ Same

CheckPolicies(p) ==
  /\ proc[p].pc = "read" /\ proc[p].found = {}
  /\ Answer(p, Verdict(proc[p].known, proc[p].question))
  /\ UNCHANGED fs /\ Same

(***************************************************************************)
(* Commands that create a policy: GetPolicy of a peer command, Create      *)
(***************************************************************************)
\* Found, or an error other than "not found": the command ends here.
FindPolicy(p) ==
  /\ proc[p].pc = "idle" /\ left > 0
  /\ left' = left - 1
  /\ \E w \in Wanted :
       LET e == <<w, 0>> IN
       \/ (IsFile(fs[e]) \/ HasConfig(e)) /\ Leave(p)
       \/ /\ ~IsFile(fs[e]) /\ ~HasConfig(e)
          /\ Becomes(p, [pc |-> "mkdirAll", entry |-> e])
  /\ Overlap(p)
  /\ UNCHANGED <<fs, kills>>

\* "conductor policy create": creates it without looking.
CreateCommand(p) ==
  /\ proc[p].pc = "idle" /\ left > 0
  /\ left' = left - 1
  /\ \E w \in Wanted : Becomes(p, [pc |-> "mkdirAll", entry |-> <<w, 0>>])
  /\ Overlap(p)
  /\ UNCHANGED <<fs, kills>>

CreateDir(p) ==
  /\ proc[p].pc = "mkdirAll"
  /\ \/ IsFile(fs[proc[p].entry]) /\ Leave(p) /\ UNCHANGED fs
     \/ ~IsFile(fs[proc[p].entry]) /\ MkdirAll(proc[p].entry) /\ Go(p, "create")
  /\ Same

\* O_TRUNC: what another process has put there is gone.
CreateFile(p) ==
  /\ proc[p].pc = "create"
  /\ LET e == proc[p].entry
         isFree == IsDir(fs[e]) /\ ~IsDir(ConfigOf(fs[e]))
     IN \/ ~isFree /\ Leave(p) /\ UNCHANGED fs
        \/ isFree /\ fs' = [fs EXCEPT ![e] = Dir(File(Truncated))] /\ Go(p, "encode")
  /\ Same

\* The file that was created, wherever it has been moved since.
Encode(p) ==
  /\ proc[p].pc = "encode"
  /\ fs' = [e \in Entries |-> IF e[1] = proc[p].entry[1] /\ fs[e].leaf = Truncated
                              THEN [fs[e] EXCEPT !.leaf = Created] ELSE fs[e]]
  /\ Leave(p)
  /\ Same

\* The server ends with all its goroutines; a command by itself.
Kill ==
  /\ kills < MaxKills
  /\ kills' = kills + 1 /\ disturbed' = TRUE
  /\ \E killed \in {Servers} \union {{p} : p \in Peers} :
       /\ \E p \in killed : proc[p].pc # "idle"
       /\ proc' = [p \in Processes |-> IF p \in killed THEN Idle ELSE proc[p]]
  /\ UNCHANGED <<fs, left>>

Serve(p) ==
  \/ Receive(p) \/ ReadDir(p) \/ RenameAway(p) \/ MakeDir(p) \/ MoveIn(p)
  \/ StatConfig(p) \/ AllListed(p) \/ ReadPolicy(p) \/ CheckPolicies(p)
PolicyCommand(p) == FindPolicy(p) \/ CreateCommand(p) \/ CreateDir(p) \/ CreateFile(p) \/ Encode(p)

Next ==
  \/ \E p \in Servers : Serve(p)
  \/ \E p \in Peers : PolicyCommand(p)
  \/ Kill

Spec == Init /\ [][Next]_vars

(***************************************************************************)
(* Properties                                                              *)
(***************************************************************************)
\* The policies that are somewhere in the directory.
InFs == {fs[e].leaf : e \in Entries} \ {None, Truncated, Created}

\* No interleaving of migrations with each other, with kills and with the creation of
\* other policies loses what a policy says: it is always somewhere in the directory.
NothingLost == [][InFs \subseteq InFs']_vars
=============================================================================
