---------------------------- MODULE Registration ----------------------------
(***************************************************************************)
(* Configuration units and the Caddy client.  A unit (one per service,     *)
(* conductor-service-config@, and one per deployment,                      *)
(* conductor-deployment-config@) puts its items in Caddy's configuration   *)
(* while it starts and takes them out when it stops.  Each request to the  *)
(* admin API is a step; requests of other units come in between, and a     *)
(* write carries the Etag of what was read.                                *)
(*                                                                         *)
(* Caddy is external: arrays (mount points) of scalars and of objects with *)
(* an @id.  An array may lie inside an object, its Home: it comes and goes *)
(* with it.                                                                *)
(***************************************************************************)
EXTENDS Integers, Sequences, Functions

CONSTANTS
  Units,      \* the configuration units
  Parent,     \* unit -> the service unit of a deployment's unit, or None
  Items,      \* unit -> its configuration items, in order
  Mounts,     \* the arrays items are mounted on
  Home,       \* mount -> @id of the object the array lies in, or None
  Scalars,    \* the items without @id
  None,
  FaultKinds, \* which failures may happen
  MaxFaults,  \* bound on the failures of a behaviour
  Orders,     \* the jobs asked for from outside: "start", "stop"
  MaxOrders   \* bound on these jobs

\* "refused": a request gets no answer, or a write an error status; "status": a GET
\* gets one; "lost": a write is applied, its answer is lost; "restart": Caddy is
\* restarted and comes back with its initial configuration.
AllFaults == {"refused", "status", "lost", "restart"}

AllItems == UNION {Range(Items[u]) : u \in Units}
Keys == {i.key : i \in AllItems}

\* What an item puts in the array: two items with the same @id may differ.
Entry(i) == [key |-> i.key, val |-> i.val]
Entries == {Entry(i) : i \in AllItems}

Nothing == [e \in Entries |-> 0]

\* What an Etag stands for: the content of an array or an object and of the arrays
\* inside.
Tags == [content : [Entries -> Nat], inner : [Mounts -> [Entries -> Nat]]]

ItemType == [mount : Mounts, key : Keys, val : {i.val : i \in AllItems},
             only : BOOLEAN]

ASSUME ItemsAssumption == Items \in [Units -> Seq(ItemType)]
ASSUME NoneAssumption == None \notin Units \union Keys \union Tags
ASSUME ParentAssumption ==
  /\ Parent \in [Units -> Units \union {None}]
  /\ \A u \in Units : Parent[u] # None => Parent[Parent[u]] = None
ASSUME HomeAssumption == Home \in [Mounts -> (Keys \ Scalars) \union {None}]
ASSUME PlaceAssumption == \* an @id is used in one array
  \A i, j \in AllItems : i.key = j.key /\ i.key \notin Scalars => i.mount = j.mount
ASSUME FaultsAssumption == FaultKinds \subseteq AllFaults /\ MaxFaults \in Nat
ASSUME OrdersAssumption == Orders \subseteq {"start", "stop"} /\ MaxOrders \in Nat

VARIABLES
  array,    \* Caddy's configuration: how often each entry is in each array
  phase,    \* where each unit is between its Exec lines
  again,    \* the units to be started again once they have stopped
  pc,       \* where the unit's register or deregister command is
  pos,      \* the position in configs of the item it is at
  backward, \* configs is in reverse order
  attempt,  \* 2 once the command retries
  seen,     \* what the Etag it holds stands for; None without Etag
  misread,  \* history: a GET of an object that is there got an error status
  faults, orders

command == <<pc, pos, backward, attempt, seen>>
vars == <<array, phase, again, command, misread, faults, orders>>

\* "pre" is ExecStartPre=-deregister, "register" ExecStartPre=register, "post"
\* ExecStopPost=deregister after a stop and "undo" after a failed start.
Labels == {"idle", "parent", "waiting", "refused", "get", "put"}
Phases == {"inactive", "pre", "register", "active", "post", "undo", "failed"}

IsScalar(i) == i.key \in Scalars
IsDeployment(u) == Parent[u] # None
Registers(u) == phase[u] = "register"
HasItem(u) == pos[u] <= Len(Items[u])
Index(u, k) == IF backward[u] THEN Len(Items[u]) + 1 - k ELSE k
Item(u) == Items[u][Index(u, pos[u])]

Init ==
  /\ array = [m \in Mounts |-> Nothing]
  /\ phase = [u \in Units |-> "inactive"]
  /\ again = {}
  /\ pc = [u \in Units |-> "idle"]
  /\ pos = [u \in Units |-> 1]
  /\ backward = [u \in Units |-> FALSE]
  /\ attempt = [u \in Units |-> 1]
  /\ seen = [u \in Units |-> None]
  /\ misread = FALSE
  /\ faults = 0
  /\ orders = 0
-----------------------------------------------------------------------------
(* Caddy's configuration, as the admin API shows it.                       *)

\* The objects that /id/ID may stand for.
Holders(i) == {e \in Entries : e.key = i.key /\ array[i.mount][e] > 0}

\* The item is in its array.
There(i) == array[i.mount][Entry(i)] > 0

\* The array is there: its Home is.
Exists(m) ==
  Home[m] = None \/ \E n \in Mounts, e \in Entries : e.key = Home[m] /\ array[n][e] > 0

\* The Etag of an array or an object covers all that is inside.
Inside(keys) == [n \in Mounts |-> IF Home[n] \in keys THEN array[n] ELSE Nothing]
ArrayTag(m) ==
  [content |-> array[m],
   inner |-> Inside({e.key : e \in {x \in Entries : array[m][x] > 0}})]
ObjectTag(e) ==
  [content |-> [Nothing EXCEPT ![e] = 1], inner |-> Inside({e.key})]

\* What an object holds goes with it.
Emptied(key) == [n \in Mounts |-> IF Home[n] = key THEN Nothing ELSE array[n]]
-----------------------------------------------------------------------------
(* A unit and the command it runs.                                         *)

Fault(kind) ==
  /\ kind \in FaultKinds
  /\ faults < MaxFaults
  /\ faults' = faults + 1
  /\ misread' = (misread \/ kind = "status")
  /\ UNCHANGED orders

Order(job) ==
  /\ job \in Orders
  /\ orders < MaxOrders
  /\ orders' = orders + 1
  /\ UNCHANGED <<misread, faults>>

NoFault == UNCHANGED <<misread, faults, orders>>

\* The command of an Exec line begins.
Begins(u, ph) ==
  /\ phase' = [phase EXCEPT ![u] = ph]
  /\ pc' = [pc EXCEPT ![u] = IF ph = "register" /\ IsDeployment(u) /\ Items[u] # <<>>
                             THEN "parent" ELSE "get"]
  /\ pos' = [pos EXCEPT ![u] = 1]
  /\ backward' = [backward EXCEPT ![u] = ph # "register"]
  /\ attempt' = [attempt EXCEPT ![u] = 1]
  /\ seen' = [seen EXCEPT ![u] = None]

\* The unit's job is over.  When it was a start job, a systemctl start that waits
\* for it returns.
Settles(u, ph, wake) ==
  /\ phase' = [phase EXCEPT ![u] = ph]
  /\ pc' = [v \in Units |-> IF v = u THEN "idle"
                            ELSE IF pc[v] = "waiting" /\ Parent[v] = u THEN wake
                            ELSE pc[v]]
  /\ pos' = [pos EXCEPT ![u] = 1]
  /\ backward' = [backward EXCEPT ![u] = FALSE]
  /\ attempt' = [attempt EXCEPT ![u] = 1]
  /\ seen' = [seen EXCEPT ![u] = None]

Succeeds(u) ==
  \/ phase[u] = "pre" /\ Begins(u, "register")
  \/ phase[u] = "register" /\ Settles(u, "active", "get")
  \/ phase[u] = "post" /\ Settles(u, "inactive", "waiting")
  \/ phase[u] = "undo" /\ Settles(u, "failed", "refused")

\* Mutant of Fails: an ExecStartPre that fails does not fail the unit.
RegisterIgnored(u) ==
  \/ phase[u] = "pre" /\ Begins(u, "register")
  \/ phase[u] = "register" /\ Settles(u, "active", "get")
  \/ phase[u] = "post" /\ Settles(u, "failed", "waiting")
  \/ phase[u] = "undo" /\ Settles(u, "failed", "refused")

Fails(u) ==
  \/ phase[u] = "pre" /\ Begins(u, "register") \* ExecStartPre=-
  \/ phase[u] = "register" /\ Begins(u, "undo")
  \/ phase[u] = "post" /\ Settles(u, "failed", "waiting")
  \/ phase[u] = "undo" /\ Settles(u, "failed", "refused")

\* Mutants of CanRetry: without a limit, and not at all.
CanRetryForever(u) == IsDeployment(u) /\ ~Registers(u)
NeverRetries(u) == FALSE

\* A command is retried once, but for the registration of a deployment: the retry
\* asks systemd to reload the service's unit first, which has no ExecReload.
CanRetry(u) == IsDeployment(u) /\ ~Registers(u) /\ attempt[u] = 1

\* configs is in the order of the last attempt, and reversed once more.
Retries(u) ==
  /\ attempt' = [attempt EXCEPT ![u] = @ + 1]
  /\ backward' = [backward EXCEPT ![u] = ~@]
  /\ pos' = [pos EXCEPT ![u] = 1]
  /\ pc' = [pc EXCEPT ![u] = "get"]
  /\ seen' = [seen EXCEPT ![u] = None]
  /\ UNCHANGED phase

AttemptFails(u) == IF CanRetry(u) THEN Retries(u) ELSE Fails(u)

NextItem(u) ==
  /\ pos' = [pos EXCEPT ![u] = @ + 1]
  /\ pc' = [pc EXCEPT ![u] = "get"]
  /\ seen' = [seen EXCEPT ![u] = None]
  /\ UNCHANGED <<phase, backward, attempt>>

\* A write is applied; the client learns of it unless the answer is lost.
Applied(u, a) ==
  /\ array' = a
  /\ UNCHANGED again
  /\ \/ NextItem(u) /\ NoFault
     \/ AttemptFails(u) /\ Fault("lost")
-----------------------------------------------------------------------------
(* The jobs of the units.                                                  *)

\* systemctl start, by a deployment, a service or an operator.
AskStart(u) ==
  /\ phase[u] \in {"inactive", "failed"}
  /\ u \notin again
  /\ Order("start")
  /\ again' = again \union {u}
  /\ UNCHANGED <<array, phase, command>>

UnitStarts(u) ==
  /\ u \in again
  /\ phase[u] \in {"inactive", "failed"}
  /\ again' = again \ {u}
  /\ Begins(u, "pre")
  /\ NoFault
  /\ UNCHANGED array

\* systemctl stop, by the deployment or its removal.  The unit of a service is
\* never stopped.
UnitStops(u) ==
  /\ IsDeployment(u)
  /\ phase[u] \in {"pre", "register", "active"}
  /\ again' = again \ {u}
  /\ Begins(u, "post")
  /\ Order("stop")
  /\ UNCHANGED array

\* Caddy restarts: what was registered is lost, and PartOf=caddy.service restarts
\* the units that are up or on their way.
CaddyRestarts ==
  LET up == {u \in Units : phase[u] \in {"pre", "register", "active"}}
  IN  /\ Fault("restart")
      /\ array' = [m \in Mounts |-> Nothing]
      /\ again' = again \union up
      /\ phase' = [u \in Units |-> IF u \in up THEN "post" ELSE phase[u]]
      /\ pc' = [u \in Units |-> IF u \in up THEN "get" ELSE pc[u]]
      /\ pos' = [u \in Units |-> IF u \in up THEN 1 ELSE pos[u]]
      /\ backward' = [u \in Units |-> IF u \in up THEN TRUE ELSE backward[u]]
      /\ attempt' = [u \in Units |-> IF u \in up THEN 1 ELSE attempt[u]]
      /\ seen' = [u \in Units |-> IF u \in up THEN None ELSE seen[u]]

\* Mutant of AskParent: systemctl start is not waited for.
AskParentOnly(u) ==
  /\ pc[u] = "parent"
  /\ pc' = [pc EXCEPT ![u] = "get"]
  /\ again' = IF phase[Parent[u]] \in {"inactive", "failed", "post"}
              THEN again \union {Parent[u]} ELSE again
  /\ NoFault
  /\ UNCHANGED <<array, phase, pos, backward, attempt, seen>>

\* A deployment registers once the unit of its service is active.
AskParent(u) ==
  /\ pc[u] = "parent"
  /\ IF phase[Parent[u]] = "active"
     THEN pc' = [pc EXCEPT ![u] = "get"] /\ UNCHANGED again
     ELSE /\ pc' = [pc EXCEPT ![u] = "waiting"]
          /\ again' = IF phase[Parent[u]] \in {"pre", "register", "undo"}
                      THEN again ELSE again \union {Parent[u]}
  /\ NoFault
  /\ UNCHANGED <<array, phase, pos, backward, attempt, seen>>

ParentFailed(u) ==
  /\ pc[u] = "refused"
  /\ AttemptFails(u)
  /\ NoFault
  /\ UNCHANGED <<array, again>>
-----------------------------------------------------------------------------
(* Register: one item after the other, up to the first error.              *)

Completed(u) ==
  /\ pc[u] = "get"
  /\ ~HasItem(u)
  /\ Succeeds(u)
  /\ NoFault
  /\ UNCHANGED <<array, again>>

\* An item without @id and an array that is not there, or register_only and an
\* @id.
ItemFails(u) ==
  /\ pc[u] = "get" /\ HasItem(u)
  /\ IF IsScalar(Item(u)) THEN ~Exists(Item(u).mount) ELSE Item(u).only
  /\ AttemptFails(u)
  /\ NoFault
  /\ UNCHANGED <<array, again>>

\* Mutant of GetScalar: the value is taken for gone with the object around it.
GetScalarToAdd(u) ==
  LET i == Item(u)
  IN  /\ pc[u] = "get" /\ HasItem(u)
      /\ IsScalar(i) /\ Exists(i.mount)
      /\ IF There(i) \/ ~Registers(u)
         THEN NextItem(u)
         ELSE /\ pc' = [pc EXCEPT ![u] = "put"]
              /\ seen' = [seen EXCEPT ![u] = ArrayTag(i.mount)]
              /\ UNCHANGED <<phase, pos, backward, attempt>>
      /\ NoFault
      /\ UNCHANGED <<array, again>>

\* registerScalar, deregisterScalar: is the value in the array?
GetScalar(u) ==
  LET i == Item(u)
  IN  /\ pc[u] = "get" /\ HasItem(u)
      /\ IsScalar(i) /\ Exists(i.mount)
      /\ IF There(i) <=> Registers(u)
         THEN NextItem(u)
         ELSE /\ pc' = [pc EXCEPT ![u] = "put"]
              /\ seen' = [seen EXCEPT ![u] = ArrayTag(i.mount)]
              /\ UNCHANGED <<phase, pos, backward, attempt>>
      /\ NoFault
      /\ UNCHANGED <<array, again>>

\* Mutant of GetObject: registerAggregate posts without looking.
PostsAlways(u) ==
  /\ pc[u] = "get" /\ HasItem(u)
  /\ ~IsScalar(Item(u)) /\ ~Item(u).only /\ Registers(u)
  /\ pc' = [pc EXCEPT ![u] = "put"]
  /\ NoFault
  /\ UNCHANGED <<array, again, phase, pos, backward, attempt, seen>>

\* registerAggregate: no Etag comes with the answer that there is no such @id.
GetObject(u) ==
  LET i == Item(u)
  IN  /\ pc[u] = "get" /\ HasItem(u)
      /\ ~IsScalar(i) /\ ~i.only /\ Registers(u)
      /\ \/ Holders(i) = {} /\ UNCHANGED seen
         \/ \E e \in Holders(i) : seen' = [seen EXCEPT ![u] = ObjectTag(e)]
      /\ pc' = [pc EXCEPT ![u] = "put"]
      /\ NoFault
      /\ UNCHANGED <<array, again, phase, pos, backward, attempt>>

\* getConfig takes any status but 2xx for "not present": an object is then posted
\* although it is there.  (A scalar fails: RequestRefused.)
GetMisread(u) ==
  LET i == Item(u)
  IN  /\ pc[u] = "get" /\ HasItem(u)
      /\ ~IsScalar(i) /\ ~i.only /\ Registers(u)
      /\ Holders(i) # {}
      /\ pc' = [pc EXCEPT ![u] = "put"]
      /\ Fault("status")
      /\ UNCHANGED <<array, again, phase, pos, backward, attempt, seen>>

\* Mutant of PutScalar: without If-Match.
PutScalarBlindly(u) ==
  LET i == Item(u)
      m == i.mount
  IN  /\ pc[u] = "put" /\ IsScalar(i) /\ Exists(m)
      /\ IF Registers(u)
         THEN Applied(u, [array EXCEPT ![m][Entry(i)] = @ + 1])
         ELSE Applied(u, [array EXCEPT ![m] = [seen[u].content EXCEPT ![Entry(i)] = 0]])

\* POST of a scalar appends it, PATCH of the array puts back what was seen
\* without it; both If-Match.
PutScalar(u) ==
  LET i == Item(u)
      m == i.mount
  IN  /\ pc[u] = "put" /\ IsScalar(i)
      /\ Exists(m) /\ ArrayTag(m) = seen[u]
      /\ IF Registers(u)
         THEN Applied(u, [array EXCEPT ![m][Entry(i)] = @ + 1])
         ELSE Applied(u, [array EXCEPT ![m] = [seen[u].content EXCEPT ![Entry(i)] = 0]])

\* POST of an object that was not there, or so it seemed, without If-Match.
PostObject(u) ==
  LET i == Item(u)
  IN  /\ pc[u] = "put" /\ ~IsScalar(i)
      /\ seen[u] = None /\ Exists(i.mount)
      /\ Applied(u, [Emptied(i.key) EXCEPT ![i.mount][Entry(i)] = @ + 1])

\* PATCH of an object that was there replaces it and what it held.
PatchObject(u) ==
  LET i == Item(u)
  IN  /\ pc[u] = "put" /\ ~IsScalar(i)
      /\ \E e \in Holders(i) :
           LET without == [Emptied(i.key) EXCEPT ![i.mount][e] = @ - 1]
           IN  /\ ObjectTag(e) = seen[u]
               /\ Applied(u, [without EXCEPT ![i.mount][Entry(i)] = @ + 1])

\* Deregistering an object: DELETE, without looking.  404 is as good.
DeleteObject(u) ==
  LET i == Item(u)
  IN  /\ pc[u] = "get" /\ HasItem(u)
      /\ ~IsScalar(i) /\ ~i.only /\ ~Registers(u)
      /\ \/ Holders(i) = {} /\ Applied(u, array)
         \/ \E e \in Holders(i) :
              Applied(u, [Emptied(i.key) EXCEPT ![i.mount][e] = @ - 1])

\* 412: somebody else has written; read again.
PreconditionFails(u) ==
  LET i == Item(u)
  IN  /\ pc[u] = "put" /\ seen[u] # None
      /\ IF IsScalar(i) THEN Exists(i.mount) /\ ArrayTag(i.mount) # seen[u]
         ELSE \E e \in Holders(i) : ObjectTag(e) # seen[u]
      /\ pc' = [pc EXCEPT ![u] = "get"]
      /\ seen' = [seen EXCEPT ![u] = None]
      /\ NoFault
      /\ UNCHANGED <<array, again, phase, pos, backward, attempt>>

\* 404: what the write was for has gone since the read.
PutFails(u) ==
  LET i == Item(u)
  IN  /\ pc[u] = "put"
      /\ IF IsScalar(i) \/ seen[u] = None THEN ~Exists(i.mount) ELSE Holders(i) = {}
      /\ AttemptFails(u)
      /\ NoFault
      /\ UNCHANGED <<array, again>>

\* No answer to any request, or an error status to a write or to the GET of a scalar.
RequestRefused(u) ==
  /\ pc[u] \in {"get", "put"} /\ HasItem(u)
  /\ AttemptFails(u)
  /\ Fault("refused")
  /\ UNCHANGED <<array, again>>

Command(u) ==
  \/ AskParent(u) \/ ParentFailed(u) \/ Completed(u) \/ ItemFails(u)
  \/ GetScalar(u) \/ GetObject(u) \/ GetMisread(u) \/ PutScalar(u) \/ PostObject(u)
  \/ PatchObject(u) \/ DeleteObject(u) \/ PreconditionFails(u) \/ PutFails(u)
  \/ RequestRefused(u)

Next ==
  \/ \E u \in Units : AskStart(u) \/ UnitStarts(u) \/ UnitStops(u) \/ Command(u)
  \/ CaddyRestarts

\* systemd works off the jobs it has, and a command runs on.
Fairness == \A u \in Units : WF_vars(UnitStarts(u)) /\ WF_vars(Command(u))

Spec == Init /\ [][Next]_vars
FairSpec == Spec /\ Fairness
-----------------------------------------------------------------------------
TypeOK ==
  /\ array \in [Mounts -> [Entries -> Nat]]
  /\ phase \in [Units -> Phases]
  /\ again \in SUBSET Units
  /\ pc \in [Units -> Labels]
  /\ pos \in [Units -> Nat \ {0}]
  /\ backward \in [Units -> BOOLEAN]
  /\ attempt \in [Units -> {1, 2}]
  /\ seen \in [Units -> Tags \union {None}]
  /\ misread \in BOOLEAN
  /\ faults \in 0..MaxFaults
  /\ orders \in 0..MaxOrders

\* While a unit is active all its items are in Caddy's configuration, whatever
\* other units write there between its requests and whatever Caddy loses.
ActiveMeansRegistered ==
  \A u \in Units : phase[u] = "active" => \A i \in Range(Items[u]) : There(i)

\* A unit that stopped without error has left nothing behind, also when a request
\* failed, or was applied and its answer lost, on the way.  But a GET of an object that
\* is there and is answered with an error status passes for absence (client.go:61): the
\* object is posted a second time, and one DELETE leaves the other.
InactiveMeansGone ==
  ~misread => \A u \in Units : phase[u] = "inactive" => \A i \in Range(Items[u]) : ~There(i)

\* No array holds an entry twice: what is registered again, after a lost answer
\* or by two units at once, is not appended again, unless a GET of an object that is
\* there was answered with an error status.
NoDuplicate == ~misread => \A m \in Mounts, e \in Entries : array[m][e] <= 1

\* The retry of a deregistration makes up for one failure other than a misread GET:
\* nothing of the deployment is left ("ERROR, will retry", CaddyRegister).
RetryDeregisters ==
  ~misread /\ faults <= 1 =>
    \A u \in Units : IsDeployment(u) /\ phase[u] = "failed" =>
      \A i \in Range(Items[u]) : ~There(i)

\* A unit that starts, or that is restarted because Caddy was, ends up active with
\* all its items in Caddy's configuration, however its requests and those of other
\* units interleave.
Refreshed ==
  \A u \in Units : phase[u] \in {"pre", "register", "post"} ~>
    phase[u] = "active" /\ \A i \in Range(Items[u]) : There(i)

\* What a reader of the units may assume: see ConfigUnits.
Registry == INSTANCE ConfigUnits WITH
  there <- {i \in AllItems : There(i)},
  state <- [u \in Units |-> CASE phase[u] = "inactive" -> "down"
                              [] phase[u] = "active" -> "up"
                              [] OTHER -> "changing"]

\* Each request, with all that may come between it and the next, is an atomic
\* change of one item in the set of registered items, made by a unit that is
\* starting or stopping, until the GET of an object that is there is answered with
\* an error status.
ImplementsConfigUnits ==
  Registry!Init /\ [][Registry!Next \/ misread']_Registry!vars
=============================================================================
