------------------------------ MODULE Services ------------------------------
(***************************************************************************)
(* The service commands and systemd's units of services.  Commands are     *)
(* processes; a command that changes the configuration reads the file it   *)
(* is set in, truncates it and writes it, with nothing to serialise it     *)
(* with others.  A command is the list of the steps it has still to do.    *)
(***************************************************************************)
EXTENDS ServiceConfig, FiniteSets

CONSTANTS
  Dirs,         \* the directories of services, in order: name -> file or None
  Worlds,       \* what the files may say to begin with
  Commands,     \* what is asked: [cmd, name] and the options of the command
  Processes,
  MaxCommands,  \* bound on the commands
  MaxFaults,    \* bound on the jobs that fail and the commands that are killed
  Overlapping   \* may commands overlap?

VARIABLES
  files,
  units,        \* service unit, by the service's file -> [enabled, active]
  proc,         \* process -> its command: what was asked, the steps left to do, and
                \* what it has read meanwhile
  commands, faults,
  said,         \* <<file, <<>>>> -> whether a command reported it disabled, <<file, <<v>>>>
                \* -> the value of v reported, until commands for that service overlap or
                \* one is killed at a point where that loses it
  touched       \* file -> how many commands for that service there have been since no
                \* command was running

vars == <<files, units, proc, commands, faults, said, touched>>

Entries == UNION {{<<i, n>> : n \in DOMAIN Dirs[i]} : i \in DOMAIN Dirs}
Definitions == {Dirs[e[1]][e[2]] : e \in Entries} \ {None}

ASSUME DirsAssumption == /\ Len(Dirs) \in Nat /\ DOMAIN Dirs = 1..Len(Dirs)
                         /\ Definitions \subseteq DOMAIN DirOf
ASSUME WorldsAssumption == \A W \in Worlds : DOMAIN W = DOMAIN DirOf /\ WellFormed(W)
Asked ==
  [cmd : {"enable", "disable", "set", "start", "stop", "restart", "reload", "rollingRestart",
          "reloadAll"},
   name : STRING, mode : {"", "foreground", "background"}, var : STRING, value : STRING,
   now : BOOLEAN, noReload : BOOLEAN, inclusive : BOOLEAN]
ASSUME CommandsAssumption == Commands \subseteq Asked
ASSUME BoundsAssumption == MaxCommands \in Nat /\ MaxFaults \in Nat

Labels == {"load", "read", "truncate", "write", "check", "rollout", "query", "control",
           "scan", "list", "stop", "start"}
\* What each command does, in order; "control" is its systemctl, and "config set" goes
\* on as a reload.
Program ==
  [enable |-> <<"load", "read", "truncate", "write", "control">>,
   disable |-> <<"load", "read", "truncate", "write", "control">>,
   set |-> <<"load", "read", "truncate", "write", "check">>,
   start |-> <<"load", "control">>,
   stop |-> <<"control">>,
   restart |-> <<"load", "control">>,
   reload |-> <<"load", "query", "control">>,
   rollingRestart |-> <<"load", "rollout">>,
   reloadAll |-> <<"scan", "list", "stop", "start">>]
\* In the foreground, by option or by auto_restart, the command does the rollout.
Foreground ==
  [start |-> <<"rollout", "control">>, restart |-> <<"stop">>, reload |-> <<"rollout">>]

NoCommand == [ask |-> None, todo |-> <<>>, result |-> "none", unit |-> None, setFile |-> None,
              content |-> NoContent, wasActive |-> FALSE, left |-> {}, starts |-> {}, stops |-> {}]

TypeOK ==
  /\ \A f \in DOMAIN files : files[f].json \in {"missing", "broken", "valid"}
  /\ \A d \in Definitions : /\ units[d] \in [enabled : BOOLEAN, active : BOOLEAN]
                             /\ touched[d] \in 0..MaxCommands
  /\ \A p \in Processes : /\ proc[p].todo \in Seq(Labels)
                          /\ proc[p].result \in {"none", "ok", "failed"}
                          /\ proc[p].starts \union proc[p].stops \subseteq Definitions
  /\ commands \in 0..MaxCommands /\ faults \in 0..MaxFaults
  /\ \A k \in DOMAIN said : k[1] \in Definitions

Init ==
  /\ files \in Worlds
  /\ units \in [Definitions -> {[enabled |-> b, active |-> b] : b \in BOOLEAN}]
  /\ proc = [p \in Processes |-> NoCommand]
  /\ commands = 0 /\ faults = 0 /\ said = <<>> /\ touched = [d \in Definitions |-> 0]

Busy(p) == proc[p].todo # <<>>
At(p, label) == Busy(p) /\ Head(proc[p].todo) = label
Done(result) == [NoCommand EXCEPT !.result = result]
Become(p, c) == proc' = [proc EXCEPT ![p] = c]
\* On to the next step, the end of the command if there is none.
Advance(p, c) ==
  Become(p, IF Tail(c.todo) = <<>> THEN Done("ok") ELSE [c EXCEPT !.todo = Tail(@)])
Finish(p) == Become(p, Done("ok"))
Fail(p) == Become(p, Done("failed"))
Quietly == UNCHANGED <<commands, faults, said, touched>>
\* Mutant of Fault: there is always another one.
FaultAlways == faults' = faults + 1
Fault == faults < MaxFaults /\ faults' = faults + 1

\* "conductor reload" is for no service in particular.
Target(c) == ServiceFileByName(Dirs, c.name)
Except(d) == [k \in {k \in DOMAIN said : k[1] # d} |-> said[k]]

Begin(p, c) ==
  LET others == \E q \in Processes : Busy(q)
      before == IF others THEN touched ELSE [d \in Definitions |-> 0]
      d == Target(c)
  IN
  /\ ~Busy(p) /\ commands < MaxCommands
  /\ others => Overlapping
  /\ Become(p, [NoCommand EXCEPT !.ask = c, !.todo = Program[c.cmd],
                                 !.left = IF c.cmd = "reloadAll" THEN Entries ELSE {}])
  /\ commands' = commands + 1
  /\ touched' = IF d = None THEN before ELSE [before EXCEPT ![d] = @ + 1]
  /\ said' = IF d # None /\ before[d] > 0 THEN Except(d) ELSE said
  /\ UNCHANGED <<files, units, faults>>

(***************************************************************************)
(* Configuration                                                           *)
(***************************************************************************)
Loaded(name) == LoadServiceByName(files, Dirs, name)
AlreadySet(c, s) == c.cmd = "set" /\ c.var \in DOMAIN s.config /\ s.config[c.var] = c.value

\* The service says which file to write, and whether systemd does the rollout; a value
\* that is already so ends the command.
Load(p) ==
  /\ At(p, "load")
  /\ LET c == proc[p].ask
         s == Loaded(c.name)
         foreground == /\ c.cmd \in DOMAIN Foreground
                       /\ c.mode = "foreground" \/ (c.mode = "" /\ ~s.autoRestart)
     IN IF ~s.ok THEN Fail(p)
        ELSE IF AlreadySet(c, s) THEN Finish(p)
        ELSE IF foreground
        THEN Become(p, [proc[p] EXCEPT !.todo = Foreground[c.cmd], !.unit = s.fileName])
        ELSE Advance(p, [proc[p] EXCEPT !.setFile = s.configSetFile, !.unit = s.fileName])
  /\ UNCHANGED <<files, units>> /\ Quietly

\* Mutant of ReadSetFile: the file is written anew with what is asked only.
ReadNothing(p) ==
  /\ At(p, "read")
  /\ Advance(p, proc[p])
  /\ UNCHANGED <<files, units>> /\ Quietly

ReadSetFile(p) ==
  /\ At(p, "read")
  /\ LET c == files[proc[p].setFile] IN
     IF c.json = "broken" THEN Fail(p)
     ELSE Advance(p, [proc[p] EXCEPT !.content = IF Exists(c) THEN c ELSE NoContent])
  /\ UNCHANGED <<files, units>> /\ Quietly

Truncate(p) ==
  /\ At(p, "truncate")
  /\ files' = [files EXCEPT ![proc[p].setFile] = Broken]
  /\ Advance(p, proc[p])
  /\ UNCHANGED units /\ Quietly

\* What overlapping commands for a service report is not counted on.
Report(d, field, value) ==
  said' = IF touched[d] > 1 THEN said
          ELSE [k \in DOMAIN said \union {<<d, field>>} |->
                  IF k = <<d, field>> THEN value ELSE said[k]]

\* What it has read, with what it was asked to set.
WithDisable(content, disable) == [content EXCEPT !.disable = disable]
WithConfig(content, var, value) == [content EXCEPT !.config = MergeConfig([v \in {var} |-> value], @)]
Write(p) ==
  /\ At(p, "write")
  /\ LET c == proc[p].ask
         new == IF c.cmd = "set" THEN WithConfig(proc[p].content, c.var, c.value)
                ELSE WithDisable(proc[p].content, c.cmd = "disable")
     IN /\ files' = [files EXCEPT ![proc[p].setFile] = new]
        /\ IF c.cmd = "set" THEN UNCHANGED said
           ELSE Report(proc[p].unit, <<>>, c.cmd = "disable")
  /\ Advance(p, proc[p])
  /\ UNCHANGED <<units, commands, faults, touched>>

\* "Check configuration has been applied", then reload unless told not to.
Check(p) ==
  /\ At(p, "check")
  /\ LET c == proc[p].ask
         s == Loaded(c.name)
     IN IF s.ok /\ AlreadySet(c, s)
        THEN /\ Report(proc[p].unit, <<c.var>>, c.value)
             /\ IF c.noReload THEN Finish(p)
                ELSE Become(p, [proc[p] EXCEPT !.ask.cmd = "reload", !.todo = Program.reload])
        ELSE Fail(p) /\ UNCHANGED said
  /\ UNCHANGED <<files, units, commands, faults, touched>>

(***************************************************************************)
(* Units                                                                   *)
(***************************************************************************)
UnitOf(p) == IF proc[p].ask.cmd = "stop" THEN Target(proc[p].ask) ELSE proc[p].unit
SetUnit(d, enabled, active) == units' = [units EXCEPT ![d] = [enabled |-> enabled, active |-> active]]

\* StartOrReload in the command itself: it works, or fails.
Rollout(p) ==
  /\ At(p, "rollout")
  /\ \/ Advance(p, proc[p]) /\ UNCHANGED faults
     \/ Fail(p) /\ Fault
  /\ UNCHANGED <<files, units, commands, said, touched>>

Query(p) ==
  /\ At(p, "query")
  /\ Advance(p, [proc[p] EXCEPT !.wasActive = units[proc[p].unit].active])
  /\ UNCHANGED <<files, units>> /\ Quietly

Systemctl(p) ==
  LET c == proc[p].ask
      d == UnitOf(p)
      u == units[d]
  IN CASE c.cmd = "enable" -> SetUnit(d, TRUE, u.active \/ c.now)
       [] c.cmd = "disable" -> SetUnit(d, FALSE, u.active /\ ~c.now)
       [] c.cmd = "stop" -> SetUnit(d, u.enabled, FALSE)
       [] OTHER -> SetUnit(d, u.enabled, TRUE)

\* A unit that was active is reloaded, which fails if it has stopped meanwhile; another
\* one is started.
Control(p) ==
  /\ At(p, "control")
  /\ UnitOf(p) # None
  /\ IF proc[p].ask.cmd = "reload" /\ proc[p].wasActive /\ ~units[UnitOf(p)].active
     THEN Fail(p) /\ UNCHANGED units
     ELSE Systemctl(p) /\ Advance(p, proc[p])
  /\ UNCHANGED files /\ Quietly

\* A start or reload job fails: there is no job to start what is active, and what fails
\* to reload stays active.
ControlFails(p) ==
  /\ At(p, "control") /\ UnitOf(p) # None
  /\ LET cmd == proc[p].ask.cmd
         u == units[UnitOf(p)]
     IN /\ \/ cmd \in {"restart", "reload"}
           \/ ~u.active /\ (cmd = "start" \/ (cmd = "enable" /\ proc[p].ask.now))
        /\ SetUnit(UnitOf(p), u.enabled \/ cmd = "enable", u.active /\ cmd = "reload")
  /\ Fail(p) /\ Fault
  /\ UNCHANGED <<files, commands, said, touched>>

\* The unit of a name that is none.
NotFound(p) ==
  /\ At(p, "control") /\ UnitOf(p) = None
  /\ Fail(p)
  /\ UNCHANGED <<files, units>> /\ Quietly

\* A restart in the foreground stops the service, removes its deployments and starts it
\* in the foreground.
StopFirst(p) ==
  /\ At(p, "stop") /\ proc[p].ask.cmd = "restart"
  /\ SetUnit(proc[p].unit, units[proc[p].unit].enabled, FALSE)
  /\ Become(p, [proc[p] EXCEPT !.ask.cmd = "start", !.ask.mode = "foreground",
                               !.todo = Program.start])
  /\ UNCHANGED files /\ Quietly

(***************************************************************************)
(* conductor reload                                                        *)
(***************************************************************************)
\* One entry after the other, the directories in order, those hidden by others too.  What
\* cannot be loaded is passed over, and not among those seen.
OfFile(d) == LoadServiceFile(files, Dirs, d)
Scan(p) ==
  /\ At(p, "scan")
  /\ LET c == proc[p] IN
     IF c.left = {} THEN Advance(p, c)
     ELSE \E e \in c.left :
       LET d == Dirs[e[1]][e[2]]
           rest == [c EXCEPT !.left = @ \ {e}]
       IN /\ \A f \in c.left : e[1] <= f[1]
          /\ Become(p, IF d = None THEN rest
                       ELSE IF ~OfFile(d).ok THEN rest
                       ELSE IF ShouldStart(OfFile(d)) THEN [rest EXCEPT !.starts = @ \union {d}]
                       ELSE [rest EXCEPT !.stops = @ \union {d}])
  /\ UNCHANGED <<files, units>> /\ Quietly

\* Without --inclusive the other units that systemd has loaded are stopped too: the
\* active ones, and of those that are enabled any.
ListUnits(p) ==
  /\ At(p, "list")
  /\ LET c == proc[p]
         other == Definitions \ (c.starts \union c.stops)
         active == {d \in other : units[d].active}
     IN \E idle \in SUBSET {d \in other \ active : units[d].enabled} :
          Advance(p, [c EXCEPT !.stops = @ \union IF c.ask.inclusive THEN {} ELSE active \union idle])
  /\ UNCHANGED <<files, units>> /\ Quietly

\* Mutant of StopOne: systemctl stop instead of disable --now.
StopOneEnabled(p) ==
  /\ At(p, "stop") /\ proc[p].ask.cmd = "reloadAll"
  /\ IF proc[p].stops = {} THEN Advance(p, proc[p]) /\ UNCHANGED units
     ELSE \E d \in proc[p].stops :
            /\ SetUnit(d, units[d].enabled, FALSE)
            /\ Become(p, [proc[p] EXCEPT !.stops = @ \ {d}])
  /\ UNCHANGED files /\ Quietly

StopOne(p) ==
  /\ At(p, "stop") /\ proc[p].ask.cmd = "reloadAll"
  /\ IF proc[p].stops = {} THEN Advance(p, proc[p]) /\ UNCHANGED units
     ELSE \E d \in proc[p].stops :
            /\ SetUnit(d, FALSE, FALSE)
            /\ Become(p, [proc[p] EXCEPT !.stops = @ \ {d}])
  /\ UNCHANGED files /\ Quietly

StartOne(p) ==
  /\ At(p, "start")
  /\ IF proc[p].starts = {} THEN Advance(p, proc[p]) /\ UNCHANGED units
     ELSE \E d \in proc[p].starts :
            /\ SetUnit(d, TRUE, TRUE)
            /\ Become(p, [proc[p] EXCEPT !.starts = @ \ {d}])
  /\ UNCHANGED files /\ Quietly

\* The first unit that does not start ends the command.
StartFails(p) ==
  /\ At(p, "start")
  /\ \E d \in proc[p].starts : ~units[d].active /\ SetUnit(d, TRUE, FALSE)
  /\ Fail(p) /\ Fault
  /\ UNCHANGED <<files, commands, said, touched>>

\* A command that is killed after it has truncated the file and before it has written it
\* loses all that was reported of the service; one that has set a variable and not yet
\* checked that leaves it at a value that is not reported.
Unsettled(p) ==
  {k \in DOMAIN said :
     /\ k[1] = Target(proc[p].ask)
     /\ At(p, "write") \/ (At(p, "check") /\ k[2] = <<proc[p].ask.var>>)}

Kill(p) ==
  /\ Busy(p)
  /\ Fail(p) /\ Fault
  /\ said' = [k \in DOMAIN said \ Unsettled(p) |-> said[k]]
  /\ UNCHANGED <<files, units, commands, touched>>

Step(p) ==
  \/ Load(p) \/ ReadSetFile(p) \/ Truncate(p) \/ Write(p) \/ Check(p)
  \/ Rollout(p) \/ Query(p) \/ Control(p) \/ ControlFails(p) \/ NotFound(p) \/ StopFirst(p)
  \/ Scan(p) \/ ListUnits(p) \/ StopOne(p) \/ StartOne(p) \/ StartFails(p)

Next == \E p \in Processes : Step(p) \/ Kill(p) \/ \E c \in Commands : Begin(p, c)

Spec == Init /\ [][Next]_vars

(***************************************************************************)
(* Properties                                                              *)
(***************************************************************************)
\* What the properties need of the files as they are to begin with.  No service is
\* configured in a file of another one, nor two in one file.
SetIn(W, d, f) == LET s == LoadServiceFile(W, Dirs, d) IN s.ok /\ s.configSetFile = f
OwnSetFiles ==
  \A W \in Worlds : \A d, e \in Definitions :
    d # e => \A f \in FilesOf(W, d) : ~SetIn(W, e, f)
\* And what is written of a service being disabled is not overridden by another file.
Base(c) == IF Exists(c) THEN c ELSE NoContent
DecidesDisable ==
  \A W \in Worlds : \A d \in Definitions : \A f \in DOMAIN W : \A b \in BOOLEAN :
    SetIn(W, d, f) /\ W[f].json # "broken" =>
      LoadServiceFile([W EXCEPT ![f] = WithDisable(Base(W[f]), b)], Dirs, d).disable = b

\* What "enable", "disable" and "config set" have reported stays so, through all commands
\* that follow: each rewrites the whole file from what it read, and none loses a field it
\* was not asked to set, whether it ends well, fails or is killed (service.go:140, 497;
\* "Check configuration has been applied" is done only once).  Two cases are left out, in
\* both of which reports are lost: two commands for one service overlap, and a command is
\* killed between the truncating and the writing of the file (service.go:482).
AcknowledgedApplied ==
  (\A p \in Processes : ~Busy(p)) =>
    \A k \in DOMAIN said :
      LET s == OfFile(k[1]) IN
      s.ok /\ said[k] = IF k[2] = <<>> THEN s.disable ELSE s.config[k[2][1]]

\* A reload that reports success leaves systemd as the configuration says
\* (service.go:73-135): whatever the units were, each service that can be loaded runs and
\* is enabled exactly if it should, though it may be found under several names; without
\* --inclusive no other one runs.  Commands for a service and the reload may spoil it for
\* that service only, and two reloads at a time for none.
ReloadConverges ==
  [][\A p \in Processes :
       /\ At(p, "start") /\ proc[p].ask.cmd = "reloadAll" /\ proc'[p] = Done("ok")
       => \A d \in {d \in Definitions : touched[d] = 0} :
            LET s == OfFile(d) IN
            IF s.ok THEN units'[d] = [enabled |-> ShouldStart(s), active |-> ShouldStart(s)]
            ELSE proc[p].ask.inclusive \/ ~units'[d].active]_vars
=============================================================================
