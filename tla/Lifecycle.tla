------------------------------ MODULE Lifecycle ------------------------------
(***************************************************************************)
(* The life of the deployment of a pod: the programs systemd runs for its  *)
(* unit, the pod, the deployment's configuration file, its configuration   *)
(* unit and what Caddy has of it, and the removal of the deployment.       *)
(*                                                                         *)
(* A pod that is started gets an address nobody had before.  The unit's    *)
(* processes include those of the containers (ExitType=cgroup): when the   *)
(* last one has gone the unit stops, and systemd kills them before         *)
(* ExecStopPost.                                                           *)
(***************************************************************************)
EXTENDS Naturals

CONSTANTS
  MaxStarts,    \* bound on the systemctl start of the deployment
  MaxFaults     \* bound on what fails, is killed, times out or restarts

ASSUME BoundsAssumption == MaxStarts \in Nat /\ MaxFaults \in Nat

VARIABLES
  phase,        \* of the deployment's unit: the step it is at, or where it rests
  asked,        \* has systemd been asked to stop it?
  dir,          \* is the deployment's directory there?
  file,         \* conductor-deployment.json: can it be decoded, and its ip_address
  ip,           \* the address the running program has in memory
  pod,          \* "absent", "running" or "exited", with its address
  config,       \* the configuration unit
  caddy,        \* the address Caddy has, or None
  remover,      \* where RemoveTimeout is
  starts, faults,
  cut           \* history: was a start or a stop cut short with the configuration unit up?

unit == <<phase, asked, ip, pod>>
vars == <<unit, dir, file, config, caddy, remover, starts, faults, cut>>

None == 0
Addresses == 0..(MaxStarts + MaxFaults)

Starting == {"template", "saveTemplate", "preStart", "play", "find", "truncate", "save",
             "postStart", "register", "ready"}
Stopping == {"preStop", "deregister", "down"}
Resting == {"inactive", "failed"}

TypeOK ==
  /\ phase \in Starting \union Stopping \union Resting \union {"active", "cleanup", "restart"}
  /\ asked \in BOOLEAN /\ dir \in BOOLEAN /\ cut \in BOOLEAN
  /\ file \in [ok : BOOLEAN, ip : Addresses] /\ ip \in Addresses /\ caddy \in Addresses
  /\ pod \in [is : {"absent", "running", "exited"}, ip : Addresses]
  /\ config \in {"inactive", "active", "restarting", "failed"}
  /\ remover \in {"idle", "stop", "config", "rm", "done"}
  /\ starts \in 0..MaxStarts /\ faults \in 0..MaxFaults

Init ==
  /\ phase = "inactive" /\ asked = FALSE /\ dir = TRUE
  /\ file = [ok |-> TRUE, ip |-> None] /\ ip = None
  /\ pod = [is |-> "absent", ip |-> None]
  /\ config = "inactive" /\ caddy = None /\ remover = "idle"
  /\ starts = 0 /\ faults = 0 /\ cut = FALSE

\* Mutant of Fault: there is always another one.
FaultAlways == faults' = faults + 1
Fault == faults < MaxFaults /\ faults' = faults + 1
Killed == pod' = IF pod.is = "running" THEN [pod EXCEPT !.is = "exited"] ELSE pod
Readable == dir /\ file.ok
Outside == UNCHANGED <<config, caddy, remover, starts, cut>>

\* A program has done its step, without touching anything but the variables named by
\* the actions below.
Step(at, next) == phase = at /\ phase' = next /\ UNCHANGED <<asked, dir>> /\ Outside
Quietly(at, next) == Step(at, next) /\ UNCHANGED <<file, ip, pod, faults>>

\* A start that fails goes on to ExecStopPost; ExecStop is passed over.
FailsAt(at) == Step(at, "cleanup") /\ Killed /\ UNCHANGED <<file, ip>>

(***************************************************************************)
(* ExecStartPre and ExecStart                                              *)
(***************************************************************************)
StartUnit ==
  /\ phase \in Resting /\ dir /\ remover = "idle" /\ starts < MaxStarts
  /\ phase' = "template" /\ asked' = FALSE /\ starts' = starts + 1
  /\ UNCHANGED <<dir, file, ip, pod, config, caddy, remover, faults, cut>>

\* Prepare reads the file if there is one, with the address of last time, runs the
\* templates and saves it: it is truncated, then written.
Prepare ==
  \/ /\ Step("template", "saveTemplate") /\ Readable
     /\ ip' = file.ip /\ file' = [file EXCEPT !.ok = FALSE]
     /\ UNCHANGED <<pod, faults>>
  \/ FailsAt("template") /\ ~Readable /\ UNCHANGED faults
  \/ FailsAt("template") /\ Fault

SaveConfig(at, next) ==
  /\ Step(at, next)
  /\ file' = [ok |-> TRUE, ip |-> ip]
  /\ UNCHANGED <<ip, pod, faults>>

PreStart ==
  \/ Quietly("preStart", "play")
  \/ FailsAt("preStart") /\ Fault

\* podman kube play --replace
Play ==
  \/ /\ Step("play", "find")
     /\ pod' = [is |-> "running", ip |-> pod.ip + 1]
     /\ UNCHANGED <<file, ip, faults>>
  \/ /\ Step("play", "cleanup") /\ Fault
     /\ pod' = [pod EXCEPT !.is = "exited"]
     /\ UNCHANGED <<file, ip>>

FindPodIPAddress ==
  \/ /\ Step("find", "truncate") /\ pod.is = "running"
     /\ ip' = pod.ip
     /\ UNCHANGED <<file, pod, faults>>
  \/ FailsAt("find") /\ pod.is # "running" /\ UNCHANGED faults
  \/ FailsAt("find") /\ Fault

\* Mutant of Truncate: the address is not saved.
NotSaved == Quietly("truncate", "postStart")

Truncate ==
  /\ Step("truncate", "save")
  /\ file' = [file EXCEPT !.ok = FALSE]
  /\ UNCHANGED <<ip, pod, faults>>

\* The hooks may fail.
PostStart == Quietly("postStart", "register")

\* systemctl start of the configuration unit: nothing if it is active; otherwise it
\* registers the address in the file, or fails and deregisters.
Register ==
  /\ phase = "register" /\ config # "restarting"
  /\ \/ /\ phase' = "ready" /\ UNCHANGED <<pod, faults>>
        /\ config' = "active" /\ caddy' = IF config = "active" THEN caddy ELSE file.ip
     \/ /\ phase' = "cleanup" /\ Killed /\ Fault /\ config # "active"
        /\ config' = "failed" /\ caddy' = None
  /\ UNCHANGED <<asked, dir, file, ip, remover, starts, cut>>

NotifyReady == Quietly("ready", "active")

StartStep ==
  \/ Prepare \/ PreStart \/ Play \/ FindPodIPAddress \/ Truncate \/ PostStart \/ Register \/ NotifyReady
  \/ SaveConfig("saveTemplate", "preStart") \/ SaveConfig("save", "postStart")

(***************************************************************************)
(* ExecStop and ExecStopPost                                               *)
(***************************************************************************)
\* The containers end by themselves, and systemd finds that no process is left.
ContainersExit ==
  /\ pod.is = "running" /\ Fault
  /\ Killed
  /\ UNCHANGED <<phase, asked, dir, file, ip>> /\ Outside

CgroupEmpty == pod.is # "running" /\ Quietly("active", "preStop")

\* Mutant of PreStop: the containers are stopped first.
PreStopDown == Quietly("preStop", "down")

\* The hooks may fail.
PreStop == Quietly("preStop", "deregister")

\* Deregistering fails if the file is not readable; the unit is not active then either.
StopConfig ==
  IF config # "active" THEN UNCHANGED <<config, caddy, faults>>
  ELSE \/ Readable /\ config' = "inactive" /\ caddy' = None /\ UNCHANGED faults
       \/ ~Readable /\ config' = "failed" /\ UNCHANGED <<caddy, faults>>
       \/ config' = "failed" /\ UNCHANGED caddy /\ Fault

\* An error is logged.
Deregister ==
  /\ phase = "deregister" /\ phase' = "down" /\ config # "restarting"
  /\ StopConfig
  /\ UNCHANGED <<asked, ip, pod, dir, file, remover, starts, cut>>

\* podman kube down
Down ==
  /\ Step("down", "cleanup")
  /\ \/ pod' = [pod EXCEPT !.is = "absent"] /\ UNCHANGED faults
     \/ Killed /\ Fault
  /\ UNCHANGED <<file, ip>>

\* Mutant of Cleanup: Restart=no.
CleanupOnly ==
  /\ phase = "cleanup"
  /\ phase' \in Resting
  /\ UNCHANGED <<asked, dir, file, ip, pod, faults>> /\ Outside

\* Restart=always, unless it was to stop.  The post-stop hooks may fail.
Cleanup ==
  /\ phase = "cleanup"
  /\ phase' \in IF asked THEN Resting ELSE {"restart"}
  /\ UNCHANGED <<asked, dir, file, ip, pod, faults>> /\ Outside

Restart == phase = "restart" /\ Quietly("restart", "template")

StopStep == CgroupEmpty \/ PreStop \/ Deregister \/ Down \/ Cleanup \/ Restart

\* ExecStop, which would stop the configuration unit, is passed over.
CutShort == cut' = (cut \/ config \in {"active", "restarting"})

\* systemctl stop: a unit that starts is killed.
AskStop ==
  /\ asked' = TRUE
  /\ phase' = CASE phase \in Starting -> "cleanup"
                [] phase = "active" -> "preStop"
                [] phase = "restart" -> "inactive"
                [] OTHER -> phase
  /\ IF phase \in Starting THEN Killed /\ CutShort ELSE UNCHANGED <<pod, cut>>

Stop ==
  /\ phase \notin Resting /\ ~asked /\ remover = "idle" /\ Fault
  /\ AskStop
  /\ UNCHANGED <<dir, file, ip, config, caddy, remover, starts>>

\* A time out of the unit, or a signal to all its processes.
KillAll ==
  /\ phase' = IF phase = "cleanup" THEN IF asked THEN "failed" ELSE "restart" ELSE "cleanup"
  /\ Killed /\ CutShort
  /\ UNCHANGED <<asked, ip>>

TimesOut ==
  /\ phase \in Starting \union Stopping \union {"cleanup"} /\ Fault
  /\ KillAll
  /\ UNCHANGED <<dir, file, config, caddy, remover, starts>>

(***************************************************************************)
(* Caddy, and the removal                                                  *)
(***************************************************************************)
\* PartOf=caddy.service
CaddyRestarts ==
  /\ Fault
  /\ caddy' = None
  /\ config' = IF config = "active" THEN "restarting" ELSE config
  /\ UNCHANGED <<unit, dir, file, remover, starts, cut>>

ConfigRestarts ==
  /\ config = "restarting"
  /\ \/ Readable /\ config' = "active" /\ caddy' = file.ip /\ UNCHANGED faults
     \/ ~Readable /\ config' = "failed" /\ UNCHANGED <<caddy, faults>>
     \/ config' = "failed" /\ UNCHANGED caddy /\ Fault
  /\ UNCHANGED <<unit, dir, file, remover, starts, cut>>

Remove ==
  /\ remover = "idle" /\ dir
  /\ remover' = "stop"
  /\ AskStop
  /\ UNCHANGED <<dir, file, ip, config, caddy, starts, faults>>

Stopped ==
  /\ remover = "stop" /\ phase \in Resting
  /\ remover' = "config"
  /\ UNCHANGED <<unit, dir, file, config, caddy, starts, faults, cut>>

\* The stop takes too long: everything is killed, and not waited for.
RemoverKills ==
  /\ remover = "stop" /\ phase \notin Resting /\ Fault
  /\ remover' = "config"
  /\ KillAll
  /\ UNCHANGED <<dir, file, config, caddy, starts>>

\* Mutant of RemoveConfig: ExecStop is relied on.
RemoveConfigLeft ==
  /\ remover = "config" /\ remover' = "rm"
  /\ UNCHANGED <<unit, dir, file, config, caddy, starts, faults, cut>>

\* An error ends the removal.
RemoveConfig ==
  /\ remover = "config" /\ config # "restarting"
  /\ StopConfig
  /\ remover' = IF config' = "failed" /\ config # "failed" THEN "idle" ELSE "rm"
  /\ UNCHANGED <<unit, dir, file, starts, cut>>

RemoveAll ==
  /\ remover = "rm"
  /\ remover' = "done" /\ dir' = FALSE
  /\ UNCHANGED <<unit, file, config, caddy, starts, faults, cut>>

Progress == StartStep \/ StopStep \/ ConfigRestarts \/ Stopped \/ RemoveConfig \/ RemoveAll

Next ==
  \/ Progress
  \/ StartUnit \/ ContainersExit \/ Stop \/ TimesOut \/ CaddyRestarts \/ Remove \/ RemoverKills

Spec == Init /\ [][Next]_vars
\* systemd runs what it has to run, and the programs go on: each ends or times out.
FairSpec == Spec /\ WF_vars(Progress)

(***************************************************************************)
(* Properties                                                              *)
(***************************************************************************)
Served == phase = "active" /\ pod.is = "running" /\ config = "active"

\* "Add IP address to load balancer", then "Notify that the deployment is ready"
\* (start_stop_pod.go:88, 106): what Caddy has for a deployment that is ready is the
\* address of its pod.
ReadyIsReached == Served => caddy = pod.ip

\* It is so whatever fails, exits, restarts, is stopped, times out or is killed, Caddy too,
\* as long as no start and no stop is cut short while the configuration unit is up: that
\* unit is then down before each start, so it takes the new address and not the one the
\* file had.
ReadyIsReachedUncut == ~cut => ReadyIsReached

\* The pod, also one whose containers have ended by themselves, is taken down only when
\* Caddy has nothing of it any more (start_stop_pod.go:131), but for a configuration unit
\* that failed and for a stop cut short before.
DeregisteredFirst ==
  [][phase = "down" /\ phase' = "cleanup" /\ ~cut' /\ config # "failed" => caddy = None]_vars

\* RemoveTimeout that ends well leaves nothing of the deployment with Caddy, even if it had
\* to kill the unit and what is left of it still runs, or if a start had been cut short
\* after registering (remove_deployment.go:119): unless deregistering has failed.
RemovedClean == remover = "done" /\ config # "failed" => config = "inactive" /\ caddy = None

\* A unit that is to run comes back to READY, after its containers exit, a start fails or
\* anything times out, each time.  The one end there is: a program was killed between
\* truncating and writing the file, which nobody can read from then on.
Torn == ~file.ok /\ phase \notin {"saveTemplate", "save"}
Recovers == (phase \notin Resting /\ ~asked) ~> (phase = "active" \/ asked \/ Torn)
=============================================================================
