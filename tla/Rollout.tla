------------------------------ MODULE Rollout ------------------------------
(***************************************************************************)
(* The rollout of one service: StartOrReload brings up one deployment per  *)
(* part of the service with the current configuration, then removes every  *)
(* other deployment of the service.  Everything a run knows it reads from  *)
(* the deployment directories and from systemd; nothing locks them, and    *)
(* several runs (the service unit, a reload, a rolling-restart typed by an *)
(* operator) may be under way at once.                                     *)
(*                                                                         *)
(* A deployment name is <<part, index>>: AppName-InstanceName-part-index.  *)
(***************************************************************************)
EXTENDS Integers, FiniteSets

CONSTANTS
  Runs,          \* executions of conductor that may overlap
  NumParts,      \* service.Parts(): the pods and functions, in order
  FunctionParts, \* the parts that are CGI functions; the others are pods
  MaxIndex,      \* opts.MaxDeploymentIndex
  PartIds,       \* the values a part id (hash of the configuration) may take
  Modes,         \* which operations the runs perform
  Serial,        \* TRUE: one run at a time, as systemd serialises its own jobs
  FaultKinds,    \* which failures may happen
  MaxFaults,     \* bound on the failures of a behaviour
  MaxEdits       \* bound on the edits of the service configuration

\* "start" is ExecStart, "reload" ExecReload, "fresh" the rolling-restart
\* command; "stop" is ExecStop, "purge" the second half of `stop --force`.
RolloutModes == {"start", "reload", "fresh"}
AllModes == RolloutModes \union {"stop", "purge"}
AllFaults == {"hook", "start", "crash", "kill", "timeout"}

ASSUME NumPartsAssumption == NumParts \in Nat \ {0}
ASSUME MaxIndexAssumption == MaxIndex \in Nat \ {0}
ASSUME FunctionPartsAssumption == FunctionParts \subseteq 1..NumParts
ASSUME ModesAssumption == Modes \subseteq AllModes
ASSUME SerialAssumption == Serial \in BOOLEAN
ASSUME FaultsAssumption == FaultKinds \subseteq AllFaults /\ MaxFaults \in Nat
ASSUME EditsAssumption == MaxEdits \in Nat

Parts == 1..NumParts
Names == Parts \X (1..MaxIndex)
Files == {"dir", "link", "seed"}
UnitStates == {"inactive", "activating", "active", "deactivating", "failed"}

VARIABLES
  partId,  \* the part ids that the configuration on disk gives
  files,   \* what exists of each deployment directory
  seedId,  \* part_id written in the deployment's seed
  unit,    \* ActiveState of conductor-deployment@NAME.service
  sock,    \* the deployments whose conductor-cgi-function socket listens
  pc,      \* where each run is
  mode,    \* the operation it performs
  conf,    \* the configuration it loaded
  idx,     \* the part it works on; NumParts + 1 once all parts are up
  cand,    \* the deployments that match the part, as listed
  target,  \* the deployment it creates, waits for or removes
  kept,    \* depl_names: the deployments the service is to keep
  started, \* started_services: the units to stop if the rollout fails
  doomed,  \* the obsolete deployments left to remove
  before,  \* history: the deployments that served when the run began
  faults, edits

world == <<partId, files, seedId, unit, sock>>
local == <<mode, conf, idx, cand, target, kept, started, doomed, before>>
budget == <<faults, edits>>
vars == <<world, pc, local, budget>>

\* "failed": the operation returned an error; "killed": its process was killed;
\* "dead": the main process of the service unit is gone and ExecStopPost, which
\* stops the deployments, is still to run.
Idle == {"done", "failed", "killed", "dead"}
Labels == Idle \union
  {"list", "show", "stop", "stopping", "rmfiles", "rmdir", "mkdir", "symlink",
   "seed", "launch", "await", "undo", "undoing", "listall", "cleanup", "monitor"}

TypeOK ==
  /\ partId \in [Parts -> PartIds]
  /\ files \in [Names -> SUBSET Files]
  /\ seedId \in [Names -> PartIds]
  /\ unit \in [Names -> UnitStates]
  /\ sock \in SUBSET Names
  /\ pc \in [Runs -> Labels]
  /\ mode \in [Runs -> AllModes]
  /\ conf \in [Runs -> [Parts -> PartIds]]
  /\ idx \in [Runs -> 1..(NumParts + 1)]
  /\ cand \in [Runs -> SUBSET Names]
  /\ target \in [Runs -> Names]
  /\ kept \in [Runs -> SUBSET Names]
  /\ started \in [Runs -> SUBSET Names]
  /\ doomed \in [Runs -> SUBSET Names]
  /\ before \in [Runs -> SUBSET Names]
  /\ faults \in 0..MaxFaults
  /\ edits \in 0..MaxEdits

\* A machine that has just booted: $RUNTIME/conductor/deployments is empty.
Init ==
  /\ \E id \in PartIds : partId = [p \in Parts |-> id]
  /\ files = [d \in Names |-> {}]
  /\ seedId = [d \in Names |-> partId[d[1]]]
  /\ unit = [d \in Names |-> "inactive"]
  /\ sock = {}
  /\ pc = [r \in Runs |-> "done"]
  /\ mode = [r \in Runs |-> "stop"]
  /\ conf = [r \in Runs |-> partId]
  /\ idx = [r \in Runs |-> 1]
  /\ cand = [r \in Runs |-> {}]
  /\ target = [r \in Runs |-> <<1, 1>>]
  /\ kept = [r \in Runs |-> {}]
  /\ started = [r \in Runs |-> {}]
  /\ doomed = [r \in Runs |-> {}]
  /\ before = [r \in Runs |-> {}]
  /\ faults = 0
  /\ edits = 0
-----------------------------------------------------------------------------
Goto(r, label) == pc' = [pc EXCEPT ![r] = label]

\* The run goes on and its local variables stay.
Step(r, label) == Goto(r, label) /\ UNCHANGED local

\* The run is over, or its rollout is: its local variables are forgotten (the
\* monitor loads the service again each time).
End(r, label) ==
  /\ Goto(r, label)
  /\ mode' = [mode EXCEPT ![r] = IF label = "monitor" THEN "start" ELSE "stop"]
  /\ conf' = [conf EXCEPT ![r] = partId]
  /\ idx' = [idx EXCEPT ![r] = 1]
  /\ cand' = [cand EXCEPT ![r] = {}]
  /\ target' = [target EXCEPT ![r] = <<1, 1>>]
  /\ kept' = [kept EXCEPT ![r] = {}]
  /\ started' = [started EXCEPT ![r] = {}]
  /\ doomed' = [doomed EXCEPT ![r] = {}]
  /\ before' = [before EXCEPT ![r] = {}]

\* The run is over with an error; the function deferred by a reload or a rolling
\* restart tells systemd READY all the same (TellsReady).
Fails(r) == End(r, IF mode[r] = "start" THEN "dead" ELSE "failed")

\* A failure of this kind happens now, within the bound MaxFaults.
Fault(kind) ==
  /\ kind \in FaultKinds
  /\ faults < MaxFaults
  /\ faults' = faults + 1
  /\ UNCHANGED edits

IsFunction(d) == d[1] \in FunctionParts

\* What a client of the service reaches: the pod, or the socket of a function.
Serving(d) == IF IsFunction(d) THEN d \in sock ELSE unit[d] = "active"

\* List fails as a whole when a directory holds no service configuration.
Unreadable == \E d \in Names : "dir" \in files[d] /\ "link" \notin files[d]

Seeded(d) == {"dir", "link", "seed"} \subseteq files[d]

\* systemctl start and stop issue a job; the unit changes state on its own.
AfterStartJob(s) == IF s \in {"inactive", "failed"} THEN "activating" ELSE s
AfterStopJob(s) == IF s \in {"active", "activating"} THEN "deactivating" ELSE s
-----------------------------------------------------------------------------
(***************************************************************************)
(* systemd and the operator                                                *)
(***************************************************************************)

\* An operator edits the service: the part ids change.
EditConfig(p, id) ==
  /\ edits < MaxEdits
  /\ id # partId[p]
  /\ partId' = [partId EXCEPT ![p] = id]
  /\ edits' = edits + 1
  /\ UNCHANGED <<files, seedId, unit, sock, pc, local, faults>>

SetUnit(d, s) ==
  /\ unit' = [unit EXCEPT ![d] = s]
  /\ UNCHANGED <<partId, files, seedId, sock, pc, local>>

\* prepare and start succeed: they read the configuration and the seed.
UnitUp(d) ==
  /\ unit[d] = "activating"
  /\ Seeded(d)
  /\ SetUnit(d, "active")
  /\ UNCHANGED budget

\* Exit status 11, or Restart=always gives up at the start limit.
UnitFails(d) ==
  /\ unit[d] = "activating"
  /\ SetUnit(d, "failed")
  /\ \/ ~Seeded(d) /\ UNCHANGED budget
     \/ Fault("start")

UnitDown(d) ==
  /\ unit[d] = "deactivating"
  /\ SetUnit(d, "inactive")
  /\ UNCHANGED budget

\* A running pod dies; Restart=always starts it again.
UnitCrashes(d) ==
  /\ unit[d] = "active"
  /\ ~IsFunction(d)
  /\ SetUnit(d, "activating")
  /\ Fault("crash")
-----------------------------------------------------------------------------
(***************************************************************************)
(* Beginning a run                                                         *)
(***************************************************************************)

\* systemd has one main process (ExecStart) per service unit, and when it is
\* gone runs the cleanup, which is a stop, before it starts another; everything
\* else may also be typed by an operator at any time.
CanBegin(r, m) ==
  /\ pc[r] \in Idle
  /\ IF pc[r] = "dead" THEN m = "stop" ELSE m \in Modes
  /\ m = "start" => \A q \in Runs : pc[q] # "dead" /\ (pc[q] \in Idle \/ mode[q] # "start")
  /\ Serial => \A q \in Runs : pc[q] \in Idle \union {"monitor"}

\* The service is loaded and its pre hook run; stop sends SIGTERM to the
\* process that monitors, which ends.
Begin(r, m) ==
  /\ CanBegin(r, m)
  /\ pc' = [q \in Runs |->
              IF q = r THEN IF m \in RolloutModes THEN "list" ELSE "listall"
              ELSE IF m = "stop" /\ pc[q] = "monitor" THEN "dead" ELSE pc[q]]
  /\ mode' = [mode EXCEPT ![r] = m]
  /\ conf' = [conf EXCEPT ![r] = partId]
  /\ idx' = [idx EXCEPT ![r] = IF m \in RolloutModes THEN 1 ELSE NumParts + 1]
  /\ kept' = [kept EXCEPT ![r] = {}]
  /\ started' = [started EXCEPT ![r] = {}]
  /\ doomed' = [doomed EXCEPT ![r] = {}]
  /\ cand' = [cand EXCEPT ![r] = {}]
  /\ before' = [before EXCEPT ![r] = {d \in Names : Serving(d)}]
  /\ UNCHANGED <<world, target, budget>>

\* The configuration does not load or the pre hook fails.
BeginFails(r, m) ==
  /\ CanBegin(r, m)
  /\ End(r, IF m = "start" THEN "dead" ELSE "failed")
  /\ Fault("hook")
  /\ UNCHANGED world

\* A List meets a half made directory: the run returns the error.
ListFails(r) ==
  /\ pc[r] \in {"list", "listall", "monitor"}
  /\ Unreadable
  /\ Fails(r)
  /\ UNCHANGED <<world, budget>>

\* The process is killed; what it did so far stays, and nothing deferred runs.
Killed(r) ==
  /\ pc[r] \notin Idle
  /\ End(r, IF mode[r] = "start" THEN "dead" ELSE "killed")
  /\ Fault("kill")
  /\ UNCHANGED world
-----------------------------------------------------------------------------
(***************************************************************************)
(* Choosing the deployment of a part: StartNewOrExistingFromService        *)
(***************************************************************************)

\* The deployments of the part that have the part id of the loaded service.
ListPart(r) ==
  /\ pc[r] = "list"
  /\ ~Unreadable
  /\ cand' = [cand EXCEPT ![r] =
       {d \in Names : d[1] = idx[r] /\ Seeded(d) /\ seedId[d] = conf[r][idx[r]]}]
  /\ Goto(r, "show")
  /\ UNCHANGED <<world, mode, conf, idx, target, kept, started, doomed, before, budget>>

InState(r, s) == {d \in cand[r] : unit[d] = s}
Acceptable(r) == IF mode[r] = "fresh" THEN {} ELSE InState(r, "active")

NoFreeName(r) == \A i \in 1..MaxIndex : files[<<idx[r], i>>] # {}
FirstFree(r, i) ==
  /\ files[<<idx[r], i>>] = {}
  /\ \A j \in 1..(i - 1) : files[<<idx[r], j>>] # {}

\* The part is settled: on to the next one, or to the cleanup.
NextPart(r) ==
  /\ idx' = [idx EXCEPT ![r] = @ + 1]
  /\ cand' = [cand EXCEPT ![r] = {}]
  /\ Goto(r, IF idx[r] = NumParts THEN "listall" ELSE "list")

Keep(r, d) ==
  /\ target' = [target EXCEPT ![r] = d]
  /\ kept' = [kept EXCEPT ![r] = @ \union {d}]

\* A started deployment is used as it is (a function's socket is started
\* again); a fresh rollout falls back on it when every name is taken.
UseStarted(r, d) ==
  /\ pc[r] = "show"
  /\ \/ d \in Acceptable(r)
     \/ /\ d \in InState(r, "active")
        /\ InState(r, "activating") = {} /\ InState(r, "inactive") = {}
        /\ NoFreeName(r)
  /\ Keep(r, d)
  /\ IF IsFunction(d) THEN Goto(r, "launch") /\ UNCHANGED <<idx, cand>> ELSE NextPart(r)
  /\ UNCHANGED <<world, mode, conf, started, doomed, before, budget>>

\* A starting deployment is waited for.
UseStarting(r, d) ==
  /\ pc[r] = "show"
  /\ Acceptable(r) = {}
  /\ d \in InState(r, "activating")
  /\ Keep(r, d)
  /\ Goto(r, "launch")
  /\ UNCHANGED <<world, mode, conf, idx, cand, started, doomed, before, budget>>

\* A stopped deployment is removed, to be created again under its name.
UseStopped(r, d) ==
  /\ pc[r] = "show"
  /\ Acceptable(r) = {} /\ InState(r, "activating") = {}
  /\ d \in InState(r, "inactive")
  /\ target' = [target EXCEPT ![r] = d]
  /\ Goto(r, "stop")
  /\ UNCHANGED <<world, mode, conf, idx, cand, kept, started, doomed, before, budget>>

\* Mutant of NewName: names count from 0.
NewNameFromZero(r, i) ==
  /\ pc[r] = "show"
  /\ Acceptable(r) = {}
  /\ InState(r, "activating") = {} /\ InState(r, "inactive") = {}
  /\ FirstFree(r, i)
  /\ target' = [target EXCEPT ![r] = <<idx[r], i - 1>>]
  /\ Goto(r, "mkdir")
  /\ UNCHANGED <<world, mode, conf, idx, cand, kept, started, doomed, before, budget>>

\* None fits: the first index without a directory names a new deployment.
NewName(r, i) ==
  /\ pc[r] = "show"
  /\ Acceptable(r) = {}
  /\ InState(r, "activating") = {} /\ InState(r, "inactive") = {}
  /\ FirstFree(r, i)
  /\ target' = [target EXCEPT ![r] = <<idx[r], i>>]
  /\ Goto(r, "mkdir")
  /\ UNCHANGED <<world, mode, conf, idx, cand, kept, started, doomed, before, budget>>

\* "Failed to find free deployment name"
NamesExhausted(r) ==
  /\ pc[r] = "show"
  /\ InState(r, "active") = {}
  /\ InState(r, "activating") = {} /\ InState(r, "inactive") = {}
  /\ NoFreeName(r)
  /\ Fails(r)
  /\ UNCHANGED <<world, budget>>
-----------------------------------------------------------------------------
(***************************************************************************)
(* RemoveTimeout, called to create a deployment again (target[r] belongs   *)
(* to the part at hand) and from the cleanup (every part is up)            *)
(***************************************************************************)

InCleanup(r) == idx[r] > NumParts

\* The cleanup logs the error and continues; a creation is given up.
RemoveFails(r) == IF InCleanup(r) THEN Step(r, "cleanup") ELSE Fails(r)

\* systemctl stop; the socket of a function Requires= the unit and goes too.
StopUnit(r) ==
  /\ pc[r] = "stop"
  /\ unit' = [unit EXCEPT ![target[r]] = AfterStopJob(@)]
  /\ sock' = sock \ {target[r]}
  /\ Goto(r, "stopping")
  /\ UNCHANGED <<partId, files, seedId, local, budget>>

\* Mutant of UnitStopped: systemctl stop --no-block.
UnitStopNotAwaited(r) ==
  /\ pc[r] = "stopping"
  /\ Step(r, IF mode[r] = "stop" THEN "cleanup" ELSE "rmfiles")
  /\ UNCHANGED <<world, budget>>

\* The stop job has ended.  Where another run has started the unit again the
\* job may have been cancelled, which is an error.  The stop operation goes no
\* further than this.
UnitStopped(r) ==
  /\ pc[r] = "stopping"
  /\ unit[target[r]] # "deactivating"
  /\ \/ Step(r, IF mode[r] = "stop" THEN "cleanup" ELSE "rmfiles")
     \/ unit[target[r]] \in {"activating", "active"} /\ RemoveFails(r)
  /\ UNCHANGED <<world, budget>>

\* rolling-restart --stop-timeout: SIGTERM and SIGKILL are sent, and the run
\* goes on without waiting for the unit; or reset-failed reports an error.
StopTimesOut(r) ==
  /\ pc[r] = "stopping"
  /\ mode[r] = "fresh" /\ InCleanup(r)
  /\ unit[target[r]] = "deactivating"
  /\ Step(r, "rmfiles") \/ RemoveFails(r)
  /\ Fault("timeout")
  /\ UNCHANGED world

\* rm -rf: the files first ...
RemoveFiles(r) ==
  /\ pc[r] = "rmfiles"
  /\ files' = [files EXCEPT ![target[r]] = @ \intersect {"dir"}]
  /\ sock' = sock \ {target[r]}
  /\ Goto(r, "rmdir")
  /\ UNCHANGED <<partId, seedId, unit, local, budget>>

\* ... then the directory, unless something was put there in between.
RemoveDir(r) ==
  /\ pc[r] = "rmdir"
  /\ IF files[target[r]] \subseteq {"dir"}
     THEN /\ files' = [files EXCEPT ![target[r]] = {}]
          /\ Step(r, IF InCleanup(r) THEN "cleanup" ELSE "mkdir")
     ELSE RemoveFails(r) /\ UNCHANGED files
  /\ UNCHANGED <<partId, seedId, unit, sock, budget>>
-----------------------------------------------------------------------------
(***************************************************************************)
(* CreateDeploymentFromService                                             *)
(***************************************************************************)

MakeDir(r) ==
  /\ pc[r] = "mkdir"
  /\ files' = [files EXCEPT ![target[r]] = @ \union {"dir"}]
  /\ Goto(r, "symlink")
  /\ UNCHANGED <<partId, seedId, unit, sock, local, budget>>

\* The symlink fails when it exists already, which is what keeps two runs
\* from creating the same deployment, or when the directory is gone.
SymlinkConfig(r) ==
  /\ pc[r] = "symlink"
  /\ IF "dir" \in files[target[r]] /\ "link" \notin files[target[r]]
     THEN /\ files' = [files EXCEPT ![target[r]] = @ \union {"link"}]
          /\ Step(r, "seed")
     ELSE Fails(r) /\ UNCHANGED files
  /\ UNCHANGED <<partId, seedId, unit, sock, budget>>

\* The seed and the systemd drop-ins are written, then the deployment read
\* back, which fails when the configuration has been removed meanwhile.
WriteSeed(r) ==
  /\ pc[r] = "seed"
  /\ IF "dir" \in files[target[r]]
     THEN /\ files' = [files EXCEPT ![target[r]] = @ \union {"seed"}]
          /\ seedId' = [seedId EXCEPT ![target[r]] = conf[r][idx[r]]]
     ELSE UNCHANGED <<files, seedId>>
  /\ IF {"dir", "link"} \subseteq files[target[r]]
     THEN /\ Goto(r, "launch")
          /\ Keep(r, target[r])
          /\ UNCHANGED <<mode, conf, idx, cand, started, doomed, before>>
     ELSE Fails(r)
  /\ UNCHANGED <<partId, unit, sock, budget>>
-----------------------------------------------------------------------------
(***************************************************************************)
(* Starting the deployment                                                 *)
(***************************************************************************)

Remember(r) == started' = [started EXCEPT ![r] = @ \union {target[r]}]

\* systemctl start of a pod's unit; a unit that is stopping is waited for.
LaunchPod(r) ==
  /\ pc[r] = "launch"
  /\ ~IsFunction(target[r])
  /\ unit[target[r]] # "deactivating"
  /\ unit' = [unit EXCEPT ![target[r]] = AfterStartJob(@)]
  /\ Remember(r)
  /\ Goto(r, "await")
  /\ UNCHANGED <<partId, files, seedId, sock, mode, conf, idx, cand, target, kept,
                 doomed, before, budget>>

\* systemctl start of a function's socket, which is bound in the directory
\* and pulls the deployment unit in without waiting for it.
LaunchFunction(r) ==
  /\ pc[r] = "launch"
  /\ IsFunction(target[r])
  /\ unit[target[r]] # "deactivating"
  /\ Remember(r)
  /\ \/ /\ "dir" \in files[target[r]]
        /\ unit' = [unit EXCEPT ![target[r]] = AfterStartJob(@)]
        /\ sock' = sock \union {target[r]}
        /\ NextPart(r)
        /\ UNCHANGED budget
     \/ /\ \/ "dir" \notin files[target[r]] /\ UNCHANGED budget
           \/ target[r] \notin sock /\ Fault("start")
        /\ Goto(r, "undo")
        /\ UNCHANGED <<unit, sock, idx, cand>>
  /\ UNCHANGED <<partId, files, seedId, mode, conf, target, kept, doomed, before>>

\* Mutant of PodStarted: systemctl start --no-block.
PodNotAwaited(r) ==
  /\ pc[r] = "await"
  /\ NextPart(r)
  /\ UNCHANGED <<world, mode, conf, target, kept, started, doomed, before, budget>>

\* The start job has succeeded.
PodStarted(r) ==
  /\ pc[r] = "await"
  /\ unit[target[r]] = "active"
  /\ NextPart(r)
  /\ UNCHANGED <<world, mode, conf, target, kept, started, doomed, before, budget>>

\* The start job failed, or a stop by another run cancelled it; a unit with
\* Restart=always may still be activating.
PodNotStarted(r) ==
  /\ pc[r] = "await"
  /\ \/ unit[target[r]] \in {"failed", "inactive", "deactivating"} /\ UNCHANGED budget
     \/ unit[target[r]] = "activating" /\ Fault("start")
  /\ Step(r, "undo")
  /\ UNCHANGED world

\* stopServicesOrLog: what this run started is stopped, one unit at a time.
Undo(r) ==
  /\ pc[r] = "undo"
  /\ IF started[r] = {}
     THEN Fails(r) /\ UNCHANGED <<unit, sock>>
     ELSE \E d \in started[r] :
            /\ target' = [target EXCEPT ![r] = d]
            /\ IF IsFunction(d)
               THEN sock' = sock \ {d} /\ UNCHANGED unit
               ELSE unit' = [unit EXCEPT ![d] = AfterStopJob(@)] /\ UNCHANGED sock
            /\ Goto(r, "undoing")
            /\ UNCHANGED <<mode, conf, idx, cand, kept, started, doomed, before>>
  /\ UNCHANGED <<partId, files, seedId, budget>>

\* Mutant of UndoNext: the list of started units is not consumed.
UndoAgain(r) ==
  /\ pc[r] = "undoing"
  /\ IsFunction(target[r]) \/ unit[target[r]] # "deactivating"
  /\ Goto(r, "undo")
  /\ UNCHANGED <<world, local, budget>>

\* The stop of one unit has ended (its error is only logged): to the next.
UndoNext(r) ==
  /\ pc[r] = "undoing"
  /\ IsFunction(target[r]) \/ unit[target[r]] # "deactivating"
  /\ started' = [started EXCEPT ![r] = @ \ {target[r]}]
  /\ Goto(r, "undo")
  /\ UNCHANGED <<world, mode, conf, idx, cand, target, kept, doomed, before, budget>>
-----------------------------------------------------------------------------
(***************************************************************************)
(* Removing (or, for stop, stopping) the other deployments                 *)
(***************************************************************************)

\* Mutants of ListAll: the deployments to keep are forgotten, and only those
\* of the current configuration are listed.
ListAllForgetsKept(r) ==
  /\ pc[r] = "listall"
  /\ ~Unreadable
  /\ doomed' = [doomed EXCEPT ![r] = {d \in Names : "link" \in files[d]}]
  /\ Goto(r, "cleanup")
  /\ UNCHANGED <<world, mode, conf, idx, cand, target, kept, started, before, budget>>

ListAllCurrent(r) ==
  /\ pc[r] = "listall"
  /\ ~Unreadable
  /\ doomed' = [doomed EXCEPT ![r] =
       {d \in Names : "link" \in files[d] /\ seedId[d] = conf[r][d[1]]} \ kept[r]]
  /\ Goto(r, "cleanup")
  /\ UNCHANGED <<world, mode, conf, idx, cand, target, kept, started, before, budget>>

\* Every readable directory of the service counts, seeded or not.
ListAll(r) ==
  /\ pc[r] = "listall"
  /\ ~Unreadable
  /\ doomed' = [doomed EXCEPT ![r] = {d \in Names : "link" \in files[d]} \ kept[r]]
  /\ Goto(r, "cleanup")
  /\ UNCHANGED <<world, mode, conf, idx, cand, target, kept, started, before, budget>>

\* On to the next deployment of the list, in the order of the directory.
NextDoomed(r, d) ==
  /\ pc[r] = "cleanup"
  /\ d \in doomed[r]
  /\ target' = [target EXCEPT ![r] = d]
  /\ doomed' = [doomed EXCEPT ![r] = @ \ {d}]
  /\ Goto(r, "stop")
  /\ UNCHANGED <<world, mode, conf, idx, cand, kept, started, before, budget>>

\* The post hook runs and, if it works, the operation has succeeded; `service
\* start` stays to monitor, the other operations end.
Finish(r) ==
  /\ pc[r] = "cleanup"
  /\ doomed[r] = {}
  /\ \/ End(r, IF mode[r] = "start" THEN "monitor" ELSE "done") /\ UNCHANGED budget
     \/ Fails(r) /\ Fault("hook")
  /\ UNCHANGED world

\* Every 30 seconds: a part without a deployment of its current part id ends
\* the run with an error.
PartMissing(p) == ~ \E d \in Names : d[1] = p /\ Seeded(d) /\ seedId[d] = partId[p]

\* Mutant of MonitorFails: the service is not loaded again.
MonitorStale(r) ==
  /\ pc[r] = "monitor"
  /\ ~Unreadable
  /\ \E p \in Parts :
       ~ \E d \in Names : d[1] = p /\ Seeded(d) /\ seedId[d] = conf[r][p]
  /\ Fails(r)
  /\ UNCHANGED <<world, budget>>

MonitorFails(r) ==
  /\ pc[r] = "monitor"
  /\ ~Unreadable
  /\ \E p \in Parts : PartMissing(p)
  /\ Fails(r)
  /\ UNCHANGED <<world, budget>>
-----------------------------------------------------------------------------
Systemd(d) == UnitUp(d) \/ UnitFails(d) \/ UnitDown(d) \/ UnitCrashes(d)

Remove(r) == StopUnit(r) \/ UnitStopped(r) \/ StopTimesOut(r) \/ RemoveFiles(r) \/ RemoveDir(r)
Create(r) == MakeDir(r) \/ SymlinkConfig(r) \/ WriteSeed(r)
Choose(r) ==
  \/ ListPart(r) \/ NamesExhausted(r)
  \/ \E d \in Names : UseStarted(r, d) \/ UseStarting(r, d) \/ UseStopped(r, d)
  \/ \E i \in 1..MaxIndex : NewName(r, i)
Launch(r) ==
  LaunchPod(r) \/ LaunchFunction(r) \/ PodStarted(r) \/ PodNotStarted(r) \/ Undo(r) \/ UndoNext(r)
Cleanup(r) ==
  ListAll(r) \/ (\E d \in Names : NextDoomed(r, d)) \/ Finish(r) \/ MonitorFails(r) \/ ListFails(r)

Run(r) == Choose(r) \/ Remove(r) \/ Create(r) \/ Launch(r) \/ Cleanup(r)

Next ==
  \/ \E p \in Parts, id \in PartIds : EditConfig(p, id)
  \/ \E d \in Names : Systemd(d)
  \/ \E r \in Runs : Run(r) \/ Killed(r)
  \/ \E r \in Runs, m \in AllModes : Begin(r, m) \/ BeginFails(r, m)

Spec == Init /\ [][Next]_vars

\* systemd works its jobs off and the processes run on, woken when the job they
\* wait for ends even if another run queues the next one at once (hence SF); a
\* service unit that has failed is cleaned up and begun again
\* (Restart=on-failure).
Fairness ==
  /\ \A d \in Names : WF_vars(UnitUp(d)) /\ WF_vars(UnitDown(d))
  /\ \A d \in Names : WF_vars(~Seeded(d) /\ UnitFails(d))
  /\ \A r \in Runs : SF_vars(Run(r))
  /\ \A r \in Runs : WF_vars(Begin(r, "start")) /\ WF_vars(pc[r] = "dead" /\ Begin(r, "stop"))

FairSpec == Spec /\ Fairness
-----------------------------------------------------------------------------
(***************************************************************************)
(* Properties                                                              *)
(***************************************************************************)

\* A rollout is under way (a run that monitors has finished its rollout).
RollingOut(r) == mode[r] \in RolloutModes /\ pc[r] \notin Idle \union {"monitor"}

\* Zero downtime: while a rollout is under way, also one that fails and undoes
\* what it did, each part that was served when it began is served by some
\* deployment.  It does not hold when rollouts overlap, nor when a part fails after
\* a function was found active: the undo closes the function's socket.
NoDowntime ==
  \A r \in Runs : RollingOut(r) =>
    \A d \in before[r] : \E e \in Names : e[1] = d[1] /\ Serving(e)

Served(p) == \E d \in Names : d[1] = p /\ Serving(d)

\* The step tells systemd READY.  A start does when it has succeeded; a reload or a
\* rolling restart has told STOPPING at its beginning and tells READY on every
\* return, also of an error.
TellsReady(r) ==
  /\ RollingOut(r)
  /\ pc'[r] \in IF mode[r] = "start" THEN {"monitor"} ELSE {"done", "failed"}

\* READY of an operation that succeeded means that each part is served by a
\* deployment the run kept and that has the configuration the run loaded.  READY
\* of a reload that failed promises no more than that nobody has lost anything: a
\* part is served, though by an older deployment, if it was when the reload began
\* (not for a function, whose socket the undo may have closed).
ReadyMeansServed ==
  [][\A r \in Runs : TellsReady(r) =>
       \A p \in Parts :
         IF pc'[r] = "failed"
         THEN p \notin FunctionParts /\ (\E d \in before[r] : d[1] = p) => Served(p)
         ELSE \E d \in kept[r] : d[1] = p /\ Serving(d) /\ seedId[d] = conf[r][p]]_vars

\* The configuration of a deployment is removed only when its unit has ended,
\* since the unit's ExecStopPost still reads it; but for a rolling restart whose
\* stop has timed out, which kills the unit and does not wait for it.
RemovedOnlyWhenStopped ==
  [][\A d \in Names :
       "link" \in files[d] /\ "link" \notin files'[d]
       => /\ d \notin sock'
          /\ \/ unit[d] \in {"inactive", "failed"}
             \/ /\ unit[d] = "deactivating" /\ faults > 0
                /\ \E r \in Runs : mode[r] = "fresh" /\ target[r] = d]_vars

\* `service stop` leaves nothing running: when it succeeds nothing is served and
\* each deployment is stopped, but for one that a rolling restart has killed and
\* removed and that has not ended yet.
StopStopsAll ==
  [][\A r \in Runs :
       mode[r] = "stop" /\ pc[r] = "cleanup" /\ pc'[r] = "done"
       => \A d \in Names :
            /\ ~Serving(d)
            /\ unit[d] \notin {"inactive", "failed"} =>
                 unit[d] = "deactivating" /\ files[d] = {} /\ faults > 0]_vars

\* As long as reloads and rolling restarts follow each other, without a monitor that
\* stops all, a part that is served stays served, also between them, whatever edits of the
\* configuration, failures and kills leave behind; only what a rollout that
\* failed has itself started goes again.
StaysServed ==
  [][(\A r \in Runs : pc[r] \in Idle \/ (mode[r] \in {"reload", "fresh"} /\ pc[r] # "undo"))
     => \A p \in Parts : Served(p) => Served(p)']_vars

Current(p) == \E d \in Names : d[1] = p /\ Serving(d) /\ Seeded(d) /\ seedId[d] = partId[p]

\* What no run gets out of by itself: a directory without configuration (List
\* fails for ever), names that are all taken by what no run uses again, and a
\* deployment of the current configuration that does not serve, whose directory is
\* all that the monitor looks at (start_service.go:304; README.md:110 promises that
\* "if deployments are inactive, the service will fail and systemd will restart it").
Exhausted(p) ==
  \A i \in 1..MaxIndex :
    LET d == <<p, i>> IN files[d] # {} /\ ~(Seeded(d) /\ seedId[d] = partId[p] /\ unit[d] # "failed")
Unnoticed == (\E r \in Runs : pc[r] = "monitor") /\ \E p \in Parts : ~PartMissing(p) /\ ~Current(p)
Stuck == Unreadable \/ Unnoticed \/ \E p \in Parts : Exhausted(p)

\* After an edit, a failure or a kill at any point the service ends up served with its
\* current configuration, as systemd starts it again, or is stuck for good in one
\* of the three ways above.
Converges == <>[](\A p \in Parts : Current(p)) \/ <>[]Stuck

\* Whatever the other runs do, an operation ends: no run waits for ever for a
\* unit, and neither the undo nor the cleanup goes round in circles.
RunEnds ==
  \A r \in Runs :
    pc[r] \notin Idle \union {"monitor"} ~> pc[r] \in Idle \union {"monitor"}
=============================================================================
