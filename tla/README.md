# Conductor: models and proofs

Conductor is a light orchestrator: it runs the *deployments* of a *service*
(Podman pods and CGI functions) as systemd units, replaces them without downtime
when the configuration changes, and keeps a Caddy reverse proxy informed of what
runs. It has no daemon. Everything is done by short-lived `conductor` processes
that systemd or an operator starts, that read what they know from directories,
from systemd and from Caddy's admin API, and that take no lock. What is hard
about it is therefore what several of these processes, systemd and failures do
to each other; that is what the modules here are about.

Paths are relative to the repository (`src/service_internal/...`).

## 1. Inventory

| component | state it keeps | operations | interacts with | what makes it correct | modelled by |
|---|---|---|---|---|---|
| service rollout (`src/service_internal/start_service.go`, `src/deployment_util`) | deployment directories in `$RUNTIME/conductor/deployments`; `started_services`, `depl_names` of a run | start, reload, rolling-restart, monitor | systemctl (start, stop, show), service configuration, other runs | zero downtime; READY means served, or at least nothing lost; undo takes back only its own; every run ends; a failed service comes back | Rollout |
| service stop and cleanup (`stop_service.go`, `stop --force`) | the same directories | stop, cleanup (ExecStopPost), removal of all | systemctl, the monitoring process (SIGTERM) | stop leaves nothing running | Rollout |
| unit files (`src/install/files`) | systemd's unit states | ExecStartPre, ExecStart, ExecReload, ExecStop, ExecStopPost, restarts | call the operations above and below | order of the hooks, restarts | Rollout, Lifecycle, Registration |
| deployment lifecycle (`src/deployment_internal`, `src/deployment`) | `conductor-deployment.json`, the pod and its address | prepare, start, stop, cleanup, remove | podman, its configuration unit | what Caddy has of a ready deployment is its pod's address; what stops is deregistered first; removal leaves nothing; the unit comes back | Lifecycle |
| configuration units (`conductor-service-config@`, `conductor-deployment-config@`, `CaddyRegister`) | systemd's unit states; the position and the retry of a running command | start, stop, restart with Caddy; register, deregister | Caddy client; a deployment's unit starts its service's | active means registered, inactive means gone; one failure is made up for | Registration, ConfigUnits |
| Caddy client (`src/caddy`) | none; Caddy's configuration is shared | register, deregister scalar and aggregate items | Caddy's admin API with Etag / If-Match | no update lost, no duplicate, what is deregistered is gone | Registration |
| service configuration (`src/service`) | `conductor-service.json`, its parents and set files | load, inherit, name, part ids, conditions, items for Caddy | hooks, templates | the last file wins and its paths are its own; a service is found by its name; an edit changes the ids of the parts it touches | ServiceConfig, ServiceLoad |
| service commands (`src/service_public`, `cmd/conductor/service.go`) | enablement, set file | start, stop, restart, reload, enable, disable, config set, reload of all services | systemctl, service configuration | what was reported stays so; a reload leaves each unit as the configuration says | Services |
| policies (`src/policies`), peers (`src/peers`) | policy directories | match, authorize (server), migrate, find, create | HTTP, the file system | a request is granted only by a match; migration loses nothing | PolicyMatcher, Policies |
| API server (`src/api`), idle server (`lib/idlehttp`), pipe listener (`lib/pipehttp`), policy server, CGI functions (`src/cgi`, `start_stop_function.go`, `cmd/cgi-adapter`) | timers, channels, the connection | accept, serve, shut down, run a program for a request | sockets of systemd | nothing is dropped before the time to end; who waits is taken; CGI passes on paths, bodies and headers | Cgi, Serving |
| printing, installation, templates, utilities | none | | | they format and copy | not modelled |

The hard behaviours, each with its line, are the `hazards` of `PROJECT.json`.

## 2. What is modelled

### Rollout.tla — the rollout of one service

One module for `StartOrReload`, `StartNewOrExistingFromService`,
`CreateDeploymentFromService`, `RemoveTimeout`, `Stop` and the unit files that
call them, because they share all their state: the deployment directories and
the unit states.

* **State of the world.** A deployment name is `<<part, index>>`. `files[d]`
  says what exists of its directory (`dir`, the `link` to the service
  configuration, the `seed`), `seedId[d]` is the part id in the seed, `unit[d]`
  the ActiveState of its unit, `sock` the function sockets that listen, `partId`
  what the configuration on disk gives at the moment.
* **State of a run.** A run is one `conductor` process: `mode` is the operation,
  `pc` the place, and `conf`, `idx`, `cand`, `target`, `kept` (`depl_names`),
  `started` (`started_services`) and `doomed` are the variables of the Go code.
  `before` is a history variable.
* **Actions.** One per step between two moments at which another process can
  see a difference: the list and the shows of a part, the choice of a
  deployment (used as it is, waited for, removed and created again, or a new
  name), `mkdir`, `symlink`, the seed, `systemctl start` and the wait for its
  job, the undo, the cleanup with each removal's stop, wait, `rm` of files and
  of the directory, and READY. systemd's jobs (`UnitUp`, `UnitFails`,
  `UnitDown`, `UnitCrashes`), the operator's edit and the death of a run are
  actions of their own.
* **READY.** A start sends it when it has succeeded. A reload and a rolling restart
  defer it to every return, so that a run which ends as "failed" has sent it as one
  that ends as "done"; only one that is killed ("killed") has not. `TellsReady` is the
  step that does.
* **The unit of the service.** `service start` stays as the monitor. When the
  main process is gone (`pc = "dead"`) systemd runs ExecStopPost, which is a
  stop, before it starts the service again.
* **Abstractions.** A part id is a value that an edit may change; hooks, config
  load and templates either work or fail (fault `hook`). `systemctl` itself
  fails only with its job. One service: the directories of others only matter
  in that an unreadable one of theirs is as bad as one of ours. `auto_restart`
  false and foreground starts end where the monitor begins.
* `Serial` makes operations exclusive, as systemd does for the jobs of one unit
  while nobody runs `rolling-restart` or a foreground operation by hand.

### Registration.tla — configuration units and the Caddy client

What a service or a deployment has in Caddy's configuration is put there and
taken out by its *configuration unit*, whose Exec lines run `conductor _ ...
register` and `deregister`. The module models the unit, the command
(`CaddyRegister`) and the client (`Register` and the four functions it calls)
down to the single request, because all its hazards lie between two requests.

* **State.** `array` is Caddy's configuration: how often each entry is in each
  array. `phase` is where a unit is between its Exec lines, `again` the units
  systemd is to start again; `pc`, `pos`, `backward` (has `slices.Reverse` been
  applied), `attempt` (`retry`) and `seen` (what the Etag stands for) are the
  command's.
* **Actions.** For a scalar: the GET that decides (`GetScalar`), the POST or
  PATCH If-Match (`PutScalar`); for an object the GET (`GetObject`), then POST
  (`PostObject`) or PATCH (`PatchObject`), and the DELETE; 412 reads again
  (`PreconditionFails`), 404 and refused requests end the attempt, but for a GET of an
  object that is answered with an error status: the client takes it for the absence of
  the object (`GetMisread`, fault `status`; when the object is there, the history
  variable `misread` remembers it). A write may be applied and its answer lost.
  `AskParent` is the `systemctl start` of the service's unit by a deployment.
  `UnitStarts`, `UnitStops` and `CaddyRestarts` are systemd's: PartOf restarts every
  unit that is up, in any order.
* **Caddy is external.** Its admin API is modelled from how the client uses it:
  objects have an `@id` (`Holders`), an array that lies in an object (`Home`)
  comes and goes with it, and an Etag stands for the content of what was read
  and of all inside. The order of the entries of an array is left out, so that a
  change of order alone, which would also give 412, is not seen.
* **Abstractions.** What a unit registers is the same each time (templates are
  run on the deployment's own copy of the configuration); loading it and running
  templates does not fail. A request is answered or not within the life of the
  command: it does not arrive after the command was killed. The unit of a service
  is never stopped: no code does it. While two objects have the same `@id`, what
  lies in the one that `/id` does not show counts as empty.

`ConfigUnits.tla` is what the rest of the system may rely on: a set of registered
items which units that are starting or stopping change by one item at a time, and
a unit that says it is up has all of its own in it. `ImplementsConfigUnits` is the
refinement: every step of `Registration`, requests of other units in between
included, is a step of it or none.

### ServiceConfig.tla, ServiceLoad.tla, ServiceSources.tla — the configuration of a service

`ServiceConfig` is the pure part: operators from the files to what a command
works with. A file is a record of the fields it has, `None` where it says nothing.

* **Loading.** `loadService` walks the `inherit` list before the file itself,
  the deepest first, overlaying each file in place. The module takes this apart,
  without losing the order: which files are laid over each other (`Visited`: the
  list of the paths, with `None` where the load fails), what they give together
  (`Overlaid`), and the file that changes go to (`SetFile`: a function from the place
  set before a file is entered to the one set after it, as the code hands
  `ConfigSetFile` on in the service; `SetByEntries` is the loop over a file's entries).
  `Overlay` merges scalars by `Given`, parts by name and kind, hooks by id,
  conditions as `encoding/json` fills a slice, with the stale elements beyond its
  length (`Slice`, `OverlaySlice`). `fix_path` joins a path to the directory of the
  file at hand, once. Then the defaults and the name (`ServiceNameFromFile`,
  `ServiceFileByName` over the ordered directories of services). The recursion is
  in functions over a depth or a position, so that the module can be proved about;
  `FuelOfLoad` bounds the depth, and what goes deeper has a cycle.
* **Computing.** `PartIds` and `ComputeId` (the id is the record of what goes
  into the hash, or the output of a template, which is the set of variables it
  prints), `ProxyConfig` and `DeploymentProxyConfig` (the `@id` of each item: what the
  dots of the string separate, dots in names included, which `Dotted` takes apart),
  `EvaluateCondition` and `ShouldStart`. A computation can end in an error or in a
  nil dereference; both are outcomes.
* `ServiceLoad` is the machine around it: the service is loaded by any of its
  names, by any command, while a file it comes from is edited. `ServiceSources` says
  what the result should be by other definitions, recursive on the files: the last file of
  those a service comes from that gives a field, for every field but the proxies of parts,
  and the first file entered that says where changes go.
* **Abstractions.** A hash is injective. Not in the records: display columns,
  commands, the hooks' `when`, and the items that a `proxy-config.template`
  prints, which are one item of their own.

### Services.tla — the commands and the units of all services

A command is a record with the list of steps it still has to do (`todo`, from
`Program`), and what it has found out so far (`unit`, `setFile`, `content`, ...); a
step, which goes on to the next one (`Advance`) or ends, is what it does between two moments another command or systemd can come in. `config set`,
`enable` and `disable` load the service, read the file the value is set in,
truncate it and write it, in four steps. `reloadAll` is `ReloadServices`: one
entry of the directories after the other, the list of loaded units, the stops,
the starts. `Foreground` has what `--foreground` and `auto_restart: false` change.

* **State.** `files` with the operators of `ServiceConfig` over it, `units` what
  systemd has of each service, `proc` the commands. `said` and `touched` are
  history: what a command reported to be so, and whether commands for one service
  have overlapped. A command that is killed between truncating and writing the file
  takes all reports of its service with it (`Unsettled`), as it does in the code.
* **Abstractions.** A rollout works or fails as a whole (Rollout has the rest).
  systemd stops a unit when asked to; it may or may not have loaded a unit that is
  enabled and inactive. One write of a file is atomic once it is truncated.

### Lifecycle.tla — one deployment of a pod

The programs of `conductor-deployment@.service` with the unit around them:
ExecStartPre (`Prepare`, `SaveConfig`, `PreStart`), ExecStart (`Play`,
`FindPodIPAddress`, `Truncate`, `SaveConfig`, `PostStart`, `Register`,
`NotifyReady`), ExecStop (`PreStop`, `Deregister`, `Down`), ExecStopPost (`Cleanup`)
and `RemoveTimeout` with its stop, its kill, its stop of the configuration unit and
its `rm`.

* **State.** The step the unit is at, the deployment's file (can it be decoded;
  the address in it), the address the program has in memory, the pod and its
  address, the configuration unit, and the address Caddy has.
* **systemd** is modelled from the unit files: a start that is cut short passes
  over ExecStop; `ExitType=cgroup` stops the unit when the last container is gone;
  `Restart=always` starts it again unless it was asked to stop; `PartOf=caddy.service`
  restarts the configuration unit.
* **Abstractions.** The configuration unit registers or fails in one step
  (Registration has its requests). A pod gets an address nobody had before, so that
  an old one is told from the new one. No start while the deployment is removed.

### PolicyMatcher.tla, Policies.tla, PolicyServer.tla — policies and their server

`PolicyMatcher` is `Matcher.Matching` section by section: a section that is not
defined is not counted, none counted does not match, and the authorization is
mapped on the way down. A policy that refers to another is looked up in what the
request has listed; recursion is bounded by `Depth`, and a cycle is reported as one.

`Policies` is the machine around it, with each call on the file system as a step, because all
hazards lie between two of them: `PolicyList` reads the directory, migrates each
plain file (`RenameAway`, `MakeDir`, `MoveIn`) and looks for `policy.json`
(`StatConfig`); `ReadPolicy` reads them one after the other; `CheckPolicies`
answers. A `conductor peer` or `policy create` looks for a policy and writes it if
it is not found (`CreateDir`, `CreateFile`, `Encode`). The server and each command
may be killed anywhere (`Kill`). What the matcher answers is a constant operator there
(`Verdict`), so that the machine can be proved about without the RECURSIVE matcher;
`PolicyServer` puts the two together (`Status`) and has the properties about answers.

* **State.** What is in the place of an entry is a file below a number of directories
  (`Nodes`): a migration that goes wrong nests them. An entry of the directory is a name
  with ".json" appended any number of times.
* **External**: `rename` and `mkdir` (`CanRename`, `MkdirAll`): what they do where
  a file or a directory is already.
* **Abstractions.** A token, an origin and an authorization are values; checking a
  JWT succeeds for the tokens its key signed. HTTP is the request and the status.

### Cgi.tla, Serving.tla — servers that systemd starts for a connection

`Cgi` has the pure parts: the split of a path at `path_info_strip`, the parsing of
a CGI response and of its status, the body that is read from stdin, and what net/http
makes of the response (`Written`, external: a Content-Length bounds the body, and one
that is not the body's length is an error once the body has been written).

`Serving` has the five kinds of servers on one socket: the API server with the
`IdleTracker` (`ConnState`, `Fire`, `Shutdown`), the policy server that never ends
by itself, the HTTP server of a single connection (`ServeConn`: the pipe listener
hands the connection over, or its context is done first), the CGI adapter and the
CGI function (one program for one request).

* **State.** What each connection is to the server, the tracker's set and its timer,
  where the program is and what it has read and written. `late` is history: the
  connections that came when the server was already to end. The output of a function
  begins with what it is configured to add (`Preambles`: `response_headers`, and the
  empty line of `no_response_headers`).
* **Abstractions.** A line of output is its kind (`status` with a blank after the colon,
  `bare-status` without, `header`, ...) and a number; a body is a sequence of lines, and
  lengths are counted in lines. Reads and writes on a connection do not
  fail.

## 3. Runs

The `MC*.tla` modules declare the values; every run names its bounds.

| run | question | instance | result |
|---|---|---|---|
| RolloutSerial | all operations, one at a time, with an edit and a failure anywhere | 2 runs, a pod and a function, 2 names each, 1 fault (hook, start, kill, stop time out), 1 edit; 1.9 million states | NoDowntime, ReadyMeansServed, StopStopsAll, RemovedOnlyWhenStopped, StaysServed hold |
| RolloutConverges | recovery | start and reload, 2 runs one at a time, 1 pod, 2 names, 2 faults (hook, start, kill, crash), 1 edit, fair; 162 084 states | Converges holds |
| RolloutRunsEnd | termination when runs overlap | 2 concurrent runs, 1 pod, 1 name, 1 fault, fair | RunEnds holds |
| RegistrationUnits | units with items of their own, any failure | service + 2 deployments with two items each, arrays inside the route, 4 jobs, 5 faults (refused, status, lost, restart); 303 057 states | ActiveMeansRegistered, and until a GET is misread InactiveMeansGone, NoDuplicate, RetryDeregisters and ImplementsConfigUnits, hold |
| RegistrationRefreshed | recovery from restarts of Caddy | service + 2 deployments, 3 jobs, 2 restarts, fair | Refreshed holds |
| RegistrationSameId | upstreams of two deployments of a part | the default `@id`, no failure | **ActiveMeansRegistered violated** |
| ServiceLoad | what loading gives, over layouts of files | some 900 layouts: inheritance three deep with missing and broken files, two directories of services, parts with all kinds of proxies and templates; 1 edit | LastFileWins, SetFileIsFirst, NameIsFound, ItemsDistinct, EditsChangeIds hold |
| Services | commands on two services, two at a time | 15 commands, 2 commands, 1 fault (failed job, kill), any initial units, three sets of files; 187 253 states up to symmetry | AcknowledgedApplied, ReloadConverges hold |
| Lifecycle | failures at every step of one deployment | 3 starts, 5 faults, fair; 70 574 states | ReadyIsReachedUncut, RemovedClean, DeregisteredFirst, Recovers hold |
| LifecycleCut | the same, with starts that are cut short | 3 starts, 5 faults | **ReadyIsReached violated** |
| Policies | requests that migrate and match | 2 requests at a time, 1 peer, 1 kill; three directories with plain files, and some 150 policies for single requests; 547 526 states | GrantedOnlyByMatch, AnswerIsRight, NothingLost hold |
| Serving | connections against the time to end | each of 5 kinds, 3 connections, 3 requests, 1 SIGTERM, fair; 225 069 states | TimerMeansIdle, DroppedOnlyLate, CgiIsTransparent, WaitingIsTaken, EndsWhenIdle hold |

*Bounds.* Two runs are enough for every pairwise race; two parts for "one part
fails after another is up"; two names per part for an old and a new deployment
side by side, and a full index range. In `RolloutConverges` two names and two
faults are what it takes to exhaust the names: the directory of a deployment whose
unit failed is reclaimed only by the cleanup of a rollout that succeeds. `Converges`
allows a service to be stuck for good (`Stuck`) in three ways, each of which occurs in the
run: `Unreadable`, `Exhausted` and `Unnoticed`. In `RolloutSerial` the function is the
second part, so that a failure of the pod after the function was reused does not happen:
the undo would stop the function that served before (below).

Two deployments and their service are enough for a race of two writers and for
an array that is emptied under both; four jobs bring both up and stop one or start it
again. Three faults fail an attempt, its retry and what follows, which is what it takes
for a registration to find its own object still there; the fourth misreads the GET of
that object, so that it is posted again, and a fifth comes after that.

In `ServiceLoad` an inherited file inherits itself, which is what it takes for
"last" to differ from "deepest"; one edit shows its effect between two loads. Functions
whose `part_id_template` another file gives than their `exec`, and names with dots, are
among the layouts: there the code does not do what it should (below), and `LastFileWins`
(by `TemplateDeclared`) and `ItemsDistinct` (by `WithoutDots`) except them by name.
In `Services` two commands overlap in every way; one that follows others starts
from any state of the units, which are all initial. In `Lifecycle` five faults are
a fault in each of two starts, the stop, the removal and a restart of Caddy. In
`Policies` two requests at once are every pair of migrations, a third comes after
them; `MaxSuffix` 3 is never reached (4 gives the same states). In `Serving`
three connections have one with a request, one idle and one that waits.

`CHECK_DEADLOCK FALSE` is where the system may come to rest for good: no more
requests (Policies, Serving), commands (Services) or faults and removals (Lifecycle).

*Fairness.* systemd works off its jobs (WF on `UnitUp`, `UnitDown` and the
failure of a unit that cannot start). Processes run on; the fairness is strong
because a process that waits for a job is woken when it ends, even if another
run queues the next one at once. A failed service unit is cleaned up and started
again (`Restart=on-failure`), without the start limit systemd would apply to a
unit that fails five times in ten seconds.

In `RegistrationRefreshed` a unit that is to be started is started and a command
runs on (WF on `UnitStarts` and `Command`); 412 is met only when somebody else
has written, so the loop that reads again needs no stronger assumption. There are
no failed requests in that run, since a unit whose command fails stays failed.

In `Lifecycle` systemd runs what it has to run and a program ends or times out
(WF on `Progress`); nobody has to start, stop or remove anything. In `Serving` the
server goes on and its timer fires (WF on `System`), a handler answers
(`Respond`), a client that has had no answer to wait for goes away (`Leaves`), and
a process accepts what waits sooner or later (SF on `Accept`: a connection may
always come just when the timer has fired, but not for ever). With the API server
a client may keep its connection after a request.

### What the violations say

1. *RegistrationSameId.* The upstreams of the old and the new deployment of a
   part have one `@id`: the new one's start deletes the old one's upstream, and
   the old one's stop then deletes the new one's.
2. *LifecycleCut.* A start that is cut short between the registration and READY
   leaves the configuration unit active. The next start, of a pod with a new
   address, starts a unit that is active: nothing is registered, READY is sent, and
   Caddy has the address of a pod that is gone.

### Divergences that have no run of their own

These were met while modelling; each is part of the models, or of what they leave
out, as said.

*Rollout.* The monitor compares part ids of directories and never asks for the state of
a unit (`start_service.go:304`): a pod that has failed for good keeps its directory, which
matches. README.md:110-113 says that inactive deployments make the service fail and be
started again (`Unnoticed`). What a rollout has started, for the undo, includes the
sockets of functions it only found active (`start_service.go:195`): when a later part
fails, a function that served all the time is closed. Rolling restarts run outside the
jobs of the unit: the second one finds the first one's new deployment inactive, just
before its unit is started, and removes it on that word when it is all that serves
(`create_deployment.go:134`); the cleanups do the same to each other
(`start_service.go:217`). The last two are why `NoDowntime` is about serialised operations
with the function as the last part.
A reload that fails, or is undone, still tells systemd READY
(`start_service.go:74`; `ReadyMeansServed` says what is left of READY then). One that
fails after it has made the directory of a new deployment leaves it there, and the
monitor takes it for a match: the edit is never applied (`Unnoticed`). A run killed between
MkdirAll and Symlink leaves a directory that makes every later `List` fail
(`create_deployment.go:203`, `Unreadable`). With the
monitor on, an edit leads within 30 seconds to the full stop of the service: the
monitor fails and ExecStopPost stops all deployments before new ones are made
(`MonitorFails`).

*Registration.* A GET with an error status is taken for absence (`client.go:61`), the
object is posted again, and one DELETE leaves the other (`misread`). The retry of a deregistration goes through the items in the order of
registration, since the slice is reversed twice (`caddy_config.go:46`): an item inside
another of the same deployment is then not found and what follows stays (`PlainItems`). The retry of a
registration asks systemd to reload a unit without ExecReload (`CanRetry`).
`register_only`, which README.md:173 says is "to only register but never deregister",
is not looked at when a scalar is deregistered.

*Lifecycle.* A program killed between truncating `conductor-deployment.json` and
writing it makes the deployment unstartable and its registration undeletable
(`Torn`, the one end that `Recovers` allows; `RemovedClean` excepts a configuration unit
that has failed). A pod can stay in podman after a start that was
cut short. A failed restart of a configuration unit with Caddy is not retried. A hook
with `TimeoutSec` 0 extends the unit's time out for ever.

*Service configuration.* A function's `part_id_template` is joined to a directory only
when the function has an `exec` (`functions.go:59`): one that is declared by a file before
the `exec` is, comes to be relative to the file of the `exec`, against README.md:233
(`TemplateDeclared`). Names are joined with dots and may have dots (`pods.go:124`,
`functions.go:178`), so that two proxies can have one `@id` (`WithoutDots`). An
entry of a directory of services without a configuration hides the name behind it.
`functions.go:121` dereferences `DefaultReverseProxy` also when it is not set and
proxies are. `route: false` is an error, though `functions.go:34` says otherwise; a proxy
of a pod without route makes ProxyConfig fail. JSON slices reuse the elements of the file
before. A cycle of inheritance is not detected. An excluded variable is still part of
`CONDUCTOR_SERVICE_ID`. Changing `disable` changes every id.

*Service commands.* `conductor reload` that scans while `config set` has truncated the
file passes the service over and then stops and disables it (`service.go:66` "ignore
service, cannot load configuration"; `ReloadConverges` excepts services with a command
under way). Two commands that write one file lose an update (`AcknowledgedApplied`
excepts them), and one that is killed between truncating and writing the file loses all
that was set (`service.go:482`; `Unsettled`). `config set` and `reload` start a service that is disabled. A reload in the
foreground never starts the unit (README.md:119-124). `disable` in the set file is
overridden by the service's own. ReloadServices scans entries that earlier directories hide.

*Policies.* A policy is not found while it is being moved, and a matcher with `none`
of another policy then matches (`GrantedOnlyByMatch` leaves those worlds out).
Creating a policy that is being migrated truncates it. A created policy has the name
"" and is unknown to the server (`policy.go:16`). Two policies of a function are joined
by a blank in one header, which the server answers with 500 (`functions.go:28`). Policies
that refer to each other are followed until the stack ends. Two migrations at a time nest
a directory (CHANGES.md:9). A plain file `foo` is renamed to `foo.json` on the way
(`policy_list.go:15`), which replaces a plain file of a policy that has that name
(`OnePerName` in section 4 leaves it out; TLC loses a policy without it).

*Serving.* SIGTERM to the policy server is swallowed: the context of NotifyContext is
not used (`policy_server.go:67`). Serve returns as soon as Shutdown begins and the
process ends with 1, so requests that came in the window are cut (`idlehttp.go:84`;
`late`). A program whose body is not as long as its Content-Length is not waited for
(`cgi.go:172`). `cgi.go:113` has `e != nil` the wrong way round, and does not trim: a
status that is a number is ignored, and one behind a blank gives code 0. SCRIPT_NAME
begins with "//" (`cgi.go:65`). ExecCGI drops the last argument.
ExecuteDecodedFunction does not use its `stdin`, so that the part of a body that was read
ahead is lost (`CgiIsTransparent` asks for the body of the adapter only).

## 4. Proofs

The first part of `Rollout_proofs.tla` has the type invariant and the absence of downtime.
`TypeCorrect == Spec => []TypeOK` is proved for all values of the constants under the named assumptions of `Rollout.tla` only. The inductive
invariant `TypeInv` adds `PhaseOK`, which ties `pc` to `idx` and `mode`: without
it `idx` could leave its range in `NextPart`, and a stop could be in the loop
over the parts.

Its second part proves `ZeroDowntime == ASSUME PodsSerialised PROVE Spec => []NoDowntime`, where
`PodsSerialised` says that operations are serialised, all parts are pods and no
pod dies by itself; section 3 says what happens without the first two. The
inductive invariant `DowntimeInv` has `TypeInv`, at most one busy run (`Alone`),
a live unit has its directory (`LiveHasDir`, so the search for a free name never
hits one), what is being removed has been stopped (`StoppedFirst`), and for a
rollout: until the cleanup nothing that served before it has been touched
(`BeforeServes`), the parts it is through with are served by deployments it keeps
(`SettledServes`), the deployment at hand is one of the part at hand (`AtHand`)
and the cleanup never takes what is kept (`KeepsKept`). TLC checked `DowntimeInv`
on an instance of two pods before it was proved.

Its last part proves, for pods *and* functions in any order, what the
steps of serialised operations never do: `RemovalAwaited` (RemovedOnlyWhenStopped)
and `StopLeavesNothing` (StopStopsAll) under `Serial` alone, whatever dies by itself;
`SuccessServed` (a rollout that succeeds has all parts served) and `ServedStays`
(StaysServed) when moreover nothing does (`"crash" \notin FaultKinds`; a pod that dies
just before READY refutes both). `ReadyServed` (ReadyMeansServed) adds to
`SuccessServed` the READY of reloads and rolling restarts that failed, by `DowntimeInv`
and so under `PodsSerialised`. The
inductive invariant `SerialInv` says of the world (`WorldInv`) that a directory is made
first and removed last, that a unit which does not rest has its configuration unless
a rolling restart has killed it (`Loose`), and that a socket which listens has one
too; of a run, that what it removes has been stopped (`TargetStopped`), that a stop
has all that is not quiet on its list or at hand (`StopsAll`: without it an
`ExecStopPost` that follows a killed removal could miss what the removal left), that
the deployment at hand has the configuration the run loaded (`PartAtHand`) and that
the parts a rollout is through with are served by ones it keeps (`PartsServed`). TLC
checked `SerialInv` on instances with a function before and after a pod and with
crashes before it was proved. NoDowntime does not hold for functions that are not the
last part, which is why `ZeroDowntime` is about pods: the undo closes the sockets of
functions it only found active (section 3).

`Registration_proofs.tla` proves `ActiveRegistered`, `InactiveGone`,
`RegisteredOnce` and `RegistrationTypeCorrect` for any number of units, items,
jobs and faults, `InactiveGone` and `RegisteredOnce` until the GET of an object that is
there is answered with an error status (`misread`: what the code does then is in the
model, and does break both), and all of them assuming `OwnItems`: each item belongs to
one unit and is listed once, and the object its array lies in is an earlier item of the
same unit or an item of the service. `RegistrationSameId` shows that the assumption is needed, and
that the default items of the code break it. The inductive invariant `RegistryInv`
says what a command has done so far and nobody undoes: `Kept` (what a registering
unit is past is there), `Gone` (what a stopping one is past is not), `Fresh` (what
is about to be added was not there when the Etag was taken), and `ParentUp` (a
deployment registers only under an active service, so that nobody replaces the
object its arrays lie in). The proof first shows that each of the fourteen actions
of a command has one of four outcomes (`Outcomes`) and changes Caddy's
configuration only at its own item or inside its own object (`Touches`); each part
of the invariant is then preserved by an outcome, not by an action. TLC checked
`RegistryInv` on the instance of `RegistrationUnits`.

`RetrySuffices` (RetryDeregisters, until a GET is misread) needs one more assumption,
`PlainItems`: the items
of a deployment are not `register_only` and do not lie inside another item of the same
deployment. TLC shows why: the retry goes through the items in the other order, so with
a value inside a route it deletes the route first and then fails on the value, which is
gone with it, and stops there; what follows on the list stays. The default items of
the code are plain, those of a `proxy-config.template` need not be. The invariant
`RetryInv` counts: a deployment that still has something in Caddy and is at its second
attempt, or has failed, has used up a fault, or two, as its service's unit is active
and nothing else refuses it (`OnlyFaultsFail`).

The last part of `Registration_proofs.tla` proves `UnitsImplemented`, under `OwnItems`:
the initial states map to those of `ConfigUnits`, and until a GET is misread every
request, job and restart is a step of it or none. The map (`Registered`, `State`) has no
memory, so that the proof is about single steps: a write is about one item and what lies in it (`WriteIsOne`), what
lies in it is not there because of `ParentUp` and `Gone`, and a unit is up or down only
with all or nothing of its own, by `Kept` and `Gone`.

`Lifecycle_proofs.tla` proves `LifecycleTypeCorrect` (TypeOK), `ReadyReached`
(ReadyIsReachedUncut), `RemovalClean` (RemovedClean) and `DeregisteredBeforeDown`
(DeregisteredFirst) for any number of starts and faults. `LifecycleInv` adds: an address
is one that a start or an exit has accounted for (`AddressLeft`, which bounds the
addresses of pods); what is being removed has been asked to stop and is down or about to
be when its configuration unit is stopped, so that nothing registers after that
(`RemovalInv`); and as long as nothing was cut short while the configuration unit was up, that unit is down from
each stop to the next registration, and the file has the address of the pod from the
second save on (`RegisteredInv`) — the step that `LifecycleCut` breaks.

`Serving_proofs.tla` proves `ServingTypeCorrect` (TypeOK), `TimerRunsWhenIdle`
(TimerMeansIdle) and `OnlyLateDropped` (DroppedOnlyLate) for any set of connections, of
requests and of the five kinds of servers. `ServingInv` says that the tracker has exactly
the busy connections of the API server and the timer runs exactly when there is none
(`TrackerInv`), that a process is there for whatever is held, one connection at most where
one is accepted (`ConnInv`), and which servers may be ending, with whom, as long as
nobody sent SIGTERM (`DroppedInv`): for the API server only with connections that came
late, for the others with none; of CGI programs it says nothing. `CgiWhole`
(CgiIsTransparent) is about any path, body and
output of a program: the two pieces the path is cut into are all of it, unless
path_info_strip is negative (`PathIsWhole`); the headers of a response are those before
the first empty line, its body is all that follows it, and its length is one of a header
or not known (`ResponseIsWhole`); what is written of that is all, or what a
Content-Length allows (`WrittenIsBounded`). The status is not part of it (section 3).
`CgiInv` says that what is at work was made of the request, what has been read of the
output, and what has been written of what was read.

`Policies_proofs.tla` proves `PoliciesTypeCorrect` (TypeOK) and, under `OnePerName`,
`MigrationKeeps` (NothingLost) and `DecidesWithStored`, for any number of requests,
commands and kills. `OnePerName` says of the directory to begin with that a name has its
policy in one entry at most, and that a policy which commands look for or create is not
there: creating one that is being migrated does lose it. The inductive invariant
`PolicyInv` says that this stays so (`OneEach`), since all that a step does is to move a
node onto an entry of the same name that holds no policy (`MoveKept`), to make a
directory where nothing is (`MkdirKept`), or to write a file of a new name (`CreateKept`,
`EncodeKept`); and that what a request has read is in the directory under its name
(`KnownInv`), which needs NothingLost, as others move it meanwhile. So a request is
decided with stored policies only; that the decision is right is the matcher's part,
which TLC checks (GrantedOnlyByMatch). TLC checked `PolicyInv` on the instance of
`Policies`.

`ServiceConfig_proofs.tla` has what the proofs about `Services` need of loading. A
recursive function of TLA+ is a CHOOSE, of which nothing is known until a function
of that kind is shown to exist; the first part does that for `Overlaid`,
`FlattenSeq`, `Visited` and `SetFile`, by induction. The library's induction theorems
take a predicate as a parameter, which the provers cannot instantiate; `NatSet`
states induction for a *set* of numbers, which they can, from the well-foundedness
of < (`LeastExists`). The lemmas about loading compare two states of the files:

* `VisitedSame`, `LoadSame`: a service depends only on the files it reaches
  (`FilesOf`, the least set that is closed under inheritance), so that a command for
  another service makes no difference to it, whatever it does to its own file.
* `AlikeLoads`: a file that is written with its `inherit` kept leaves the list of the
  files, and the file changes go to, as they were, also when it was missing before and
  could be passed over.
* `WrittenLoads`, `DisableDecided`, `ConfigDecided`: of the files laid over each other
  the last one that says something of a field decides it; when one of them is replaced
  by the same with another `disable` or variable, the service has either what it had or
  exactly what was written.

`ServiceLoad_proofs.tla` proves `LoadedNameIsFound` (NameIsFound) for all files and
directories: the first directory that has the name given to a file is the one that gave
it (`NameFindsFile`), since a name is not given where an earlier directory has it, service
or not. `LoadedEditsChangeIds` (EditsChangeIds) needs `OwnVariables`: no file has a variable
CONDUCTOR_SERVICE_ID, which would hide the id of the service from a template. The invariant
`LoadInv` says that what is loaded comes from files which said then what they say now, but
of variables (`FilesAlike`), as no state has the files as they were; that two such states
give services alike but for their variables is an induction over the files laid over each
other (`OverlaidAlike`, `LoadsAlike`). The id of a part then differs exactly if one of
the variables that go into it does (`PartIdChanges`): as a hash of a record (`IdSame`), or
as what a template prints (`PrintedSame`). `LoadInv` speaks of all states of the files that
there may have been, which TLC cannot enumerate; it checked the two properties.

`Services_proofs.tla` proves `TypeCorrect` (TypeOK) for all values of the constants;
`ReloadsConverge` (ReloadConverges) under `OwnSetFiles`, and `ReportsHold`
(AcknowledgedApplied) under `OwnSetFiles` and `DecidesDisable`, for any number of
services, directories, sets of files, commands at a time, kills and failed jobs.

* `TypeInv` adds to TypeOK what a command at a place has found out: a command that
  reads, writes or checks has a unit, which is the one it was asked for, and a file to
  write, and what it still has to do is the end of one of the programs (`Follows`).
* `SeparateInv` says that the files are those of one of the `Worlds`, except for the
  fields that commands write: a file keeps its `inherit`, and is broken only where some
  service is configured in it (`Anchor`, `Anchored`). So each service keeps the file it
  is configured in, no other service ever reads that file, and a command for one service
  cannot disturb another one, not even when it is killed between truncating and writing.
  `TouchedOK` counts the commands that are for a service.
* `ReloadInv` follows one `conductor reload` (`Reloading`): a service which nobody else
  touches is on the list of starts, or of stops, exactly if its configuration says so,
  from the moment the scan has passed all its entries, and off it only once its unit is
  as it should be. A service under two names or behind a hidden entry is on one list
  only, since both loads give the same.
* `ReportInv` says that a report is true of the service as it would be loaded, or will
  be once the command now writing has put back what it read (`Pending`, `Confirmed`):
  between truncate and write the file says nothing, so the truth of all earlier reports
  is in `content` only, which must be the whole file as it was (`ContentOK`): a kill there
loses them all, which `said` accounts for, and a kill anywhere else none
(`KilledConfirmed`). Setting a
  variable to another value makes an earlier report false a step before the check drops
  it (`Changing`).

*Assumptions of the theorems.* Those named in the modules (`BoundsAssumption`,
`FaultsAssumption`, `ParentAssumption`, ...) say that a bound is a number, a parent is a
unit and the like. `Serial`, `PodsSerialised`, `OwnItems`, `PlainItems`, `OnePerName`,
`OwnSetFiles`, `DecidesDisable` and `OwnVariables` restrict what a theorem is about and are hypotheses of
the theorem itself; each is met by an instance of a passing run (`MCServices` has
`OwnSetFiles` and `DecidesDisable` and `MCServiceLoad` `OwnVariables` as an ASSUME, which TLC
evaluates), except that `RolloutSerial` has a function beside
its pod, so that `PodsSerialised` was checked on an instance of its own. `OwnSetFiles` is
about the files to begin with: no service is configured in a file another one is loaded
from; `DecidesDisable`: once `disable` is written to the file a service is configured in,
the service is disabled or not as written. Section 3 says what happens otherwise. The
proof shows that commands keep both so.

*Only model-checked.* Everything under fairness (Converges, RunEnds, Refreshed, Recovers,
WaitingIsTaken, EndsWhenIdle) is beyond the prover. PolicyMatcher, with matchers in matchers, has a RECURSIVE
operator, and PolicyServer (GrantedOnlyByMatch, AnswerIsRight) is built on it.
`ServiceSources` compares loading with RECURSIVE reference definitions (LastFileWins,
SetFileIsFirst), for TLC only. ItemsDistinct and TypeOK of `ServiceLoad` are about items
that are folded and filtered (`ProxyConfig`, `ReverseProxy`), operators of the library of
which the provers know nothing.

## 5. Plan

1. `ZeroDowntime` for functions that are the last parts of a service; an abstract
   service specification that `Rollout` implements when serialised.
2. The reference definitions of `ServiceSources` as recursive functions, to prove
   LastFileWins and SetFileIsFirst with the lemmas of `ServiceConfig_proofs`.
3. The configuration of the service edited while its unit is active: nothing
   restarts it, so the old route stays.
4. The units of a function in `Lifecycle`, with its socket.

## 6. Not modelled

* *Printing* (`service_print*.go`, `service_inspect.go`, `print_deployment.go`,
  `policy_print*.go`): formats tables and JSON, changes nothing.
* *Installation*: copies the binary and the unit files once, one after the other.
* *Templates, utilities, directories*: run a program, sort, join paths. What a
  template gives is modelled where it counts (the id of a part); else it works or fails.
* *Of the service commands*: `deploy`, `--no-block`, set files that several services
  share, the start of the configuration unit by a rollout in the foreground, status and
  logs.
* *Of the servers*: functions of type http-stdio pass the connection on to a program
  and do nothing with it; sdactivate for pods; `PipeListener` beyond its only use, where
  a send on a closed channel cannot happen.
* *Examples* (`examples/`) use `pipehttp` and `idlehttp`, which are modelled.
