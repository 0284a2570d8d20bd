---------------------------- MODULE Rollout_proofs ---------------------------
(***************************************************************************)
(* Type correctness of Rollout; zero downtime for a service made of pods   *)
(* whose operations are serialised: whatever the number of parts, names,   *)
(* runs and failures, no part that was served when a rollout began is      *)
(* without a deployment that serves while the rollout is under way (the    *)
(* excluded failure is a pod that dies by itself); and what the steps of   *)
(* serialised operations may never do, for pods and functions.             *)
(***************************************************************************)
EXTENDS Rollout, TLAPS

\* The labels of the loop over the parts, and those that follow it.
LoopLabels == {"list", "show", "mkdir", "symlink", "seed", "launch", "await", "undo", "undoing"}
Removing == {"stop", "stopping", "rmfiles", "rmdir"}

\* A rollout is in the loop over the parts or, in the cleanup, through with all
\* of them; the operations that only stop or remove are never in the loop.
PhaseOK ==
  \A r \in Runs :
    /\ pc[r] \in LoopLabels => idx[r] \in Parts /\ mode[r] \in RolloutModes
    /\ pc[r] \in {"listall", "cleanup"} => idx[r] = NumParts + 1
    /\ pc[r] \in Removing /\ mode[r] \notin RolloutModes => idx[r] = NumParts + 1

TypeInv == TypeOK /\ PhaseOK
-----------------------------------------------------------------------------
LEMMA NamesFacts ==
  /\ \A p \in Parts, i \in 1..MaxIndex : <<p, i>> \in Names
  /\ <<1, 1>> \in Names
  /\ \A d \in Names : d[1] \in Parts
BY NumPartsAssumption, MaxIndexAssumption DEF Parts, Names

LEMMA PartsFacts ==
  /\ Parts \subseteq Nat
  /\ NumParts \in Parts /\ 1 \in Parts
  /\ \A p \in Parts : p \in 1..(NumParts + 1) /\ p + 1 \in 1..(NumParts + 1) /\ p # NumParts + 1
  /\ \A p \in 1..(NumParts + 1) : p \in Parts \/ p = NumParts + 1
  /\ \A p \in Parts : p # NumParts => p + 1 \in Parts
  /\ NumParts + 1 \in 1..(NumParts + 1)
BY NumPartsAssumption DEF Parts

LEMMA TypeInit == Init => TypeInv
<1> SUFFICES ASSUME Init PROVE TypeInv
  OBVIOUS
<1>1. TypeOK
  BY NamesFacts, PartsFacts, FaultsAssumption, EditsAssumption
  DEF Init, TypeOK, Files, UnitStates, Labels, Idle, AllModes, RolloutModes
<1>2. PhaseOK
  BY <1>1 DEF Init, PhaseOK, LoopLabels, Removing
<1> QED
  BY <1>1, <1>2 DEF TypeInv

\* The part of TypeInv that is about the runs, and the part about the rest.
RunTypes ==
  /\ pc \in [Runs -> Labels]
  /\ mode \in [Runs -> AllModes]
  /\ conf \in [Runs -> [Parts -> PartIds]]
  /\ idx \in [Runs -> 1..(NumParts + 1)]
  /\ cand \in [Runs -> SUBSET Names]
  /\ target \in [Runs -> Names]
  /\ kept \in [Runs -> SUBSET Names]
  /\ started \in [Runs -> SUBSET Names]
  /\ doomed \in [Runs -> SUBSET Names]
  /\ before \in [Runs -> SUBSET Names]
  /\ PhaseOK

WorldTypes ==
  /\ partId \in [Parts -> PartIds]
  /\ files \in [Names -> SUBSET Files]
  /\ seedId \in [Names -> PartIds]
  /\ unit \in [Names -> UnitStates]
  /\ sock \in SUBSET Names
  /\ faults \in 0..MaxFaults
  /\ edits \in 0..MaxEdits

LEMMA TypeParts == RunTypes' /\ WorldTypes' => TypeInv'
BY DEF TypeInv, TypeOK, RunTypes, WorldTypes

\* A run that ends has well typed local variables, in a phase of its own.
LEMMA EndTypes ==
  ASSUME TypeInv, NEW r \in Runs, NEW label \in Idle \union {"monitor"}, End(r, label)
  PROVE  RunTypes'
BY NamesFacts, PartsFacts
DEF TypeInv, TypeOK, RunTypes, PhaseOK, End, Goto, LoopLabels, Removing, Idle, Labels,
    AllModes, RolloutModes

\* A run that goes on with its local variables unchanged.
LEMMA StepTypes ==
  ASSUME TypeInv, NEW r \in Runs, NEW label \in Labels, Step(r, label),
         label \in LoopLabels => idx[r] \in Parts /\ mode[r] \in RolloutModes,
         label \in {"listall", "cleanup"} => idx[r] = NumParts + 1,
         label \in Removing /\ mode[r] \notin RolloutModes => idx[r] = NumParts + 1
  PROVE  RunTypes'
BY DEF TypeInv, TypeOK, RunTypes, PhaseOK, Step, Goto, local, LoopLabels, Removing

\* What a run may do when a removal fails.
LEMMA RemoveFailsTypes ==
  ASSUME TypeInv, NEW r \in Runs, RemoveFails(r)
  PROVE  RunTypes'
<1>1. CASE InCleanup(r)
  <2>1. Step(r, "cleanup") /\ idx[r] = NumParts + 1
    BY <1>1, PartsFacts, NumPartsAssumption DEF RemoveFails, InCleanup, TypeInv, TypeOK
  <2> QED
    BY <2>1, StepTypes DEF Labels, LoopLabels, Removing
<1>2. CASE ~InCleanup(r)
  BY <1>2, EndTypes DEF RemoveFails, Idle, Fails
<1> QED
  BY <1>1, <1>2

LEMMA FaultTypes ==
  ASSUME TypeInv, NEW kind, Fault(kind)
  PROVE  faults' \in 0..MaxFaults /\ edits' \in 0..MaxEdits
BY FaultsAssumption DEF TypeInv, TypeOK, Fault

LEMMA UseStartedTypes ==
  ASSUME TypeInv, NEW r \in Runs, NEW d \in Names, UseStarted(r, d)
  PROVE  TypeInv'
<1>1. idx[r] \in Parts /\ mode[r] \in RolloutModes /\ target' = [target EXCEPT ![r] = d]
      /\ kept' = [kept EXCEPT ![r] = @ \union {d}]
  BY DEF UseStarted, Keep, TypeInv, PhaseOK, LoopLabels, Removing
<1>2. UNCHANGED <<mode, conf, started, doomed, before, world, budget>>
  BY DEF UseStarted
<1>3. CASE Goto(r, "launch") /\ UNCHANGED <<idx, cand>>
  BY <1>1, <1>2, <1>3
  DEF TypeInv, TypeOK, PhaseOK, Goto, LoopLabels, Removing, Labels, world, budget
<1>4. CASE NextPart(r)
  BY <1>1, <1>2, <1>4, PartsFacts
  DEF TypeInv, TypeOK, PhaseOK, NextPart, Goto, LoopLabels, Removing, Labels, world, budget
<1> QED
  BY <1>3, <1>4 DEF UseStarted

LEMMA UseStoppedTypes ==
  ASSUME TypeInv, NEW r \in Runs, NEW d \in Names, UseStopped(r, d)
  PROVE  TypeInv'
<1>1. mode[r] \in RolloutModes
  BY DEF UseStopped, TypeInv, PhaseOK, LoopLabels, Removing
<1> QED
  BY <1>1
  DEF TypeInv, TypeOK, PhaseOK, UseStopped, Goto, LoopLabels, Removing, Labels, world, budget

LEMMA UnitStoppedTypes ==
  ASSUME TypeInv, NEW r \in Runs, UnitStopped(r)
  PROVE  TypeInv'
<1>1. WorldTypes'
  BY DEF UnitStopped, TypeInv, TypeOK, WorldTypes, world, budget
<1>2. CASE Step(r, IF mode[r] = "stop" THEN "cleanup" ELSE "rmfiles")
  <2>1. mode[r] \notin RolloutModes => idx[r] = NumParts + 1
    BY DEF UnitStopped, TypeInv, PhaseOK, Removing
  <2>2. "stop" \notin RolloutModes
    BY DEF RolloutModes
  <2> QED
    BY <1>1, <1>2, <2>1, <2>2, StepTypes, TypeParts DEF Labels, LoopLabels, Removing
<1>3. CASE RemoveFails(r)
  BY <1>1, <1>3, RemoveFailsTypes, TypeParts
<1> QED
  BY <1>2, <1>3 DEF UnitStopped

LEMMA StopTimesOutTypes ==
  ASSUME TypeInv, NEW r \in Runs, StopTimesOut(r)
  PROVE  TypeInv'
<1>1. WorldTypes'
  BY FaultTypes DEF StopTimesOut, TypeInv, TypeOK, WorldTypes, world
<1>2. CASE Step(r, "rmfiles")
  <2>1. mode[r] \in RolloutModes
    BY DEF StopTimesOut, RolloutModes
  <2> QED
    BY <1>1, <1>2, <2>1, StepTypes, TypeParts DEF Labels, LoopLabels, Removing
<1>3. CASE RemoveFails(r)
  BY <1>1, <1>3, RemoveFailsTypes, TypeParts
<1> QED
  BY <1>2, <1>3 DEF StopTimesOut

LEMMA RemoveDirTypes ==
  ASSUME TypeInv, NEW r \in Runs, RemoveDir(r)
  PROVE  TypeInv'
<1>1. WorldTypes'
  BY DEF RemoveDir, TypeInv, TypeOK, WorldTypes, budget
<1>2. CASE Step(r, IF InCleanup(r) THEN "cleanup" ELSE "mkdir")
  <2>1. InCleanup(r) => idx[r] = NumParts + 1
    BY PartsFacts, NumPartsAssumption DEF InCleanup, TypeInv, TypeOK
  <2>2. ~InCleanup(r) => idx[r] \in Parts
    BY PartsFacts, NumPartsAssumption DEF InCleanup, TypeInv, TypeOK
  <2>3. mode[r] \notin RolloutModes => idx[r] = NumParts + 1
    BY DEF RemoveDir, TypeInv, PhaseOK, Removing
  <2>4. NumParts + 1 \notin Parts
    BY NumPartsAssumption DEF Parts
  <2> QED
    BY <1>1, <1>2, <2>1, <2>2, <2>3, <2>4, StepTypes, TypeParts
    DEF Labels, LoopLabels, Removing
<1>3. CASE RemoveFails(r)
  BY <1>1, <1>3, RemoveFailsTypes, TypeParts
<1> QED
  BY <1>2, <1>3 DEF RemoveDir

LEMMA SymlinkConfigTypes ==
  ASSUME TypeInv, NEW r \in Runs, SymlinkConfig(r)
  PROVE  TypeInv'
<1>1. WorldTypes'
  <2>1. \/ files' = [files EXCEPT ![target[r]] = @ \union {"link"}]
        \/ UNCHANGED files
    BY DEF SymlinkConfig
  <2>2. files' \in [Names -> SUBSET Files]
    BY <2>1 DEF TypeInv, TypeOK, Files
  <2> QED
    BY <2>2 DEF SymlinkConfig, TypeInv, TypeOK, WorldTypes, budget
<1>2. CASE Step(r, "seed")
  <2>1. idx[r] \in Parts /\ mode[r] \in RolloutModes
    BY DEF SymlinkConfig, TypeInv, PhaseOK, LoopLabels, Removing
  <2> QED
    BY <1>1, <1>2, <2>1, StepTypes, TypeParts DEF Labels
<1>3. CASE Fails(r)
  BY <1>1, <1>3, EndTypes, TypeParts DEF Idle, Fails
<1> QED
  BY <1>2, <1>3 DEF SymlinkConfig

LEMMA WriteSeedTypes ==
  ASSUME TypeInv, NEW r \in Runs, WriteSeed(r)
  PROVE  TypeInv'
<1>1. idx[r] \in Parts /\ mode[r] \in RolloutModes
  BY DEF WriteSeed, TypeInv, PhaseOK, LoopLabels, Removing
<1>2. WorldTypes'
  <2>1. \/ /\ files' = [files EXCEPT ![target[r]] = @ \union {"seed"}]
           /\ seedId' = [seedId EXCEPT ![target[r]] = conf[r][idx[r]]]
        \/ UNCHANGED <<files, seedId>>
    BY DEF WriteSeed
  <2>2. files' \in [Names -> SUBSET Files]
    BY <2>1 DEF TypeInv, TypeOK, Files
  <2>3. seedId' \in [Names -> PartIds]
    <3>1. conf[r][idx[r]] \in PartIds
      BY <1>1 DEF TypeInv, TypeOK
    <3> QED
      BY <2>1, <3>1 DEF TypeInv, TypeOK
  <2> QED
    BY <2>2, <2>3 DEF WriteSeed, TypeInv, TypeOK, WorldTypes, budget
<1>3. CASE /\ Goto(r, "launch")
           /\ Keep(r, target[r])
           /\ UNCHANGED <<mode, conf, idx, cand, started, doomed, before>>
  <2>1. RunTypes'
    BY <1>1, <1>3
    DEF TypeInv, TypeOK, RunTypes, PhaseOK, Goto, Keep, LoopLabels, Removing, Labels
  <2> QED
    BY <1>2, <2>1, TypeParts
<1>4. CASE Fails(r)
  BY <1>2, <1>4, EndTypes, TypeParts DEF Idle, Fails
<1> QED
  BY <1>3, <1>4 DEF WriteSeed

LEMMA LaunchFunctionTypes ==
  ASSUME TypeInv, NEW r \in Runs, LaunchFunction(r)
  PROVE  TypeInv'
<1>1. idx[r] \in Parts /\ mode[r] \in RolloutModes
  BY DEF LaunchFunction, TypeInv, PhaseOK, LoopLabels, Removing
<1>2. WorldTypes'
  <2>1. \/ /\ unit' = [unit EXCEPT ![target[r]] = AfterStartJob(@)]
           /\ sock' = sock \union {target[r]}
        \/ UNCHANGED <<unit, sock>>
    BY DEF LaunchFunction
  <2>2. unit' \in [Names -> UnitStates] /\ sock' \in SUBSET Names
    <3>1. unit \in [Names -> UnitStates] /\ sock \in SUBSET Names /\ target[r] \in Names
      BY DEF TypeInv, TypeOK
    <3>2. AfterStartJob(unit[target[r]]) \in UnitStates
      BY <3>1 DEF AfterStartJob, UnitStates
    <3> QED
      BY <2>1, <3>1, <3>2
  <2>3. faults' \in 0..MaxFaults /\ edits' \in 0..MaxEdits
    <3>1. UNCHANGED budget \/ Fault("start")
      BY DEF LaunchFunction
    <3> QED
      BY <3>1, FaultTypes DEF TypeInv, TypeOK, budget
  <2> QED
    BY <2>2, <2>3 DEF LaunchFunction, TypeInv, TypeOK, WorldTypes
<1>3. /\ Remember(r)
      /\ UNCHANGED <<mode, conf, target, kept, doomed, before>>
  BY DEF LaunchFunction
<1>4. CASE NextPart(r)
  <2>1. RunTypes'
    BY <1>1, <1>3, <1>4, PartsFacts
    DEF TypeInv, TypeOK, RunTypes, PhaseOK, NextPart, Goto, Remember, LoopLabels, Removing,
        Labels
  <2> QED
    BY <1>2, <2>1, TypeParts
<1>5. CASE Goto(r, "undo") /\ UNCHANGED <<idx, cand>>
  <2>1. RunTypes'
    BY <1>1, <1>3, <1>5
    DEF TypeInv, TypeOK, RunTypes, PhaseOK, Goto, Remember, LoopLabels, Removing, Labels
  <2> QED
    BY <1>2, <2>1, TypeParts
<1> QED
  BY <1>4, <1>5 DEF LaunchFunction

LEMMA UndoTypes ==
  ASSUME TypeInv, NEW r \in Runs, Undo(r)
  PROVE  TypeInv'
<1>1. CASE started[r] = {}
  <2>1. WorldTypes'
    BY <1>1 DEF Undo, TypeInv, TypeOK, WorldTypes, budget
  <2>2. Fails(r)
    BY <1>1 DEF Undo
  <2> QED
    BY <2>1, <2>2, EndTypes, TypeParts DEF Idle, Fails
<1>2. CASE started[r] # {}
  <2>1. PICK d \in started[r] :
          /\ target' = [target EXCEPT ![r] = d]
          /\ IF IsFunction(d)
             THEN sock' = sock \ {d} /\ UNCHANGED unit
             ELSE unit' = [unit EXCEPT ![d] = AfterStopJob(@)] /\ UNCHANGED sock
          /\ Goto(r, "undoing")
          /\ UNCHANGED <<mode, conf, idx, cand, kept, started, doomed, before>>
    BY <1>2 DEF Undo
  <2>2. idx[r] \in Parts /\ mode[r] \in RolloutModes /\ d \in Names
    BY DEF Undo, TypeInv, TypeOK, PhaseOK, LoopLabels, Removing
  <2>3. WorldTypes'
    BY <2>1 DEF Undo, TypeInv, TypeOK, WorldTypes, AfterStopJob, UnitStates, budget
  <2>4. RunTypes'
    BY <2>1, <2>2 DEF TypeInv, TypeOK, RunTypes, PhaseOK, Goto, LoopLabels, Removing, Labels
  <2> QED
    BY <2>3, <2>4, TypeParts
<1> QED
  BY <1>1, <1>2

LEMMA FinishTypes ==
  ASSUME TypeInv, NEW r \in Runs, Finish(r)
  PROVE  TypeInv'
<1>1. RunTypes'
  BY EndTypes DEF Finish, Idle, Fails
<1>2. WorldTypes'
  BY FaultTypes DEF Finish, TypeInv, TypeOK, WorldTypes, world, budget
<1> QED
  BY <1>1, <1>2, TypeParts

LEMMA TypeStep == TypeInv /\ [Next]_vars => TypeInv'
<1> SUFFICES ASSUME TypeInv, [Next]_vars PROVE TypeInv'
  OBVIOUS
<1> USE NamesFacts, PartsFacts, ModesAssumption, FaultsAssumption, EditsAssumption
    DEF TypeInv, TypeOK, PhaseOK, LoopLabels, Removing, Labels, Idle, AllModes, RolloutModes,
        Files, UnitStates, SetUnit, Goto, Step, End, Fails, Fault, NextPart, Keep, Remember,
        world, local, budget, AfterStartJob, AfterStopJob, InState, Acceptable
<1>1. ASSUME NEW p \in Parts, NEW id \in PartIds, EditConfig(p, id) PROVE TypeInv'
  BY <1>1 DEF EditConfig
<1>2. ASSUME NEW d \in Names, UnitUp(d) PROVE TypeInv'
  BY <1>2 DEF UnitUp
<1>3. ASSUME NEW d \in Names, UnitFails(d) PROVE TypeInv'
  BY <1>3 DEF UnitFails
<1>4. ASSUME NEW d \in Names, UnitDown(d) PROVE TypeInv'
  BY <1>4 DEF UnitDown
<1>5. ASSUME NEW d \in Names, UnitCrashes(d) PROVE TypeInv'
  BY <1>5 DEF UnitCrashes
<1>6. ASSUME NEW r \in Runs, NEW m \in AllModes, Begin(r, m) PROVE TypeInv'
  BY <1>6 DEF Begin
<1>7. ASSUME NEW r \in Runs, NEW m \in AllModes, BeginFails(r, m) PROVE TypeInv'
  BY <1>7 DEF BeginFails
<1>8. ASSUME NEW r \in Runs, ListFails(r) PROVE TypeInv'
  BY <1>8 DEF ListFails
<1>9. ASSUME NEW r \in Runs, Killed(r) PROVE TypeInv'
  BY <1>9 DEF Killed
<1>10. ASSUME NEW r \in Runs, ListPart(r) PROVE TypeInv'
  BY <1>10 DEF ListPart
<1>11. ASSUME NEW r \in Runs, NEW d \in Names, UseStarted(r, d) PROVE TypeInv'
  BY <1>11, UseStartedTypes
<1>12. ASSUME NEW r \in Runs, NEW d \in Names, UseStarting(r, d) PROVE TypeInv'
  BY <1>12 DEF UseStarting
<1>13. ASSUME NEW r \in Runs, NEW d \in Names, UseStopped(r, d) PROVE TypeInv'
  BY <1>13, UseStoppedTypes
<1>14. ASSUME NEW r \in Runs, NEW i \in 1..MaxIndex, NewName(r, i) PROVE TypeInv'
  BY <1>14 DEF NewName
<1>15. ASSUME NEW r \in Runs, NamesExhausted(r) PROVE TypeInv'
  BY <1>15 DEF NamesExhausted
<1>16. ASSUME NEW r \in Runs, StopUnit(r) PROVE TypeInv'
  BY <1>16 DEF StopUnit
<1>17. ASSUME NEW r \in Runs, UnitStopped(r) PROVE TypeInv'
  BY <1>17, UnitStoppedTypes
<1>18. ASSUME NEW r \in Runs, StopTimesOut(r) PROVE TypeInv'
  BY <1>18, StopTimesOutTypes
<1>19. ASSUME NEW r \in Runs, RemoveFiles(r) PROVE TypeInv'
  BY <1>19 DEF RemoveFiles
<1>20. ASSUME NEW r \in Runs, RemoveDir(r) PROVE TypeInv'
  BY <1>20, RemoveDirTypes
<1>21. ASSUME NEW r \in Runs, MakeDir(r) PROVE TypeInv'
  BY <1>21 DEF MakeDir
<1>22. ASSUME NEW r \in Runs, SymlinkConfig(r) PROVE TypeInv'
  BY <1>22, SymlinkConfigTypes
<1>23. ASSUME NEW r \in Runs, WriteSeed(r) PROVE TypeInv'
  BY <1>23, WriteSeedTypes
<1>24. ASSUME NEW r \in Runs, LaunchPod(r) PROVE TypeInv'
  BY <1>24 DEF LaunchPod
<1>25. ASSUME NEW r \in Runs, LaunchFunction(r) PROVE TypeInv'
  BY <1>25, LaunchFunctionTypes
<1>26. ASSUME NEW r \in Runs, PodStarted(r) PROVE TypeInv'
  BY <1>26 DEF PodStarted
<1>27. ASSUME NEW r \in Runs, PodNotStarted(r) PROVE TypeInv'
  BY <1>27 DEF PodNotStarted
<1>28. ASSUME NEW r \in Runs, Undo(r) PROVE TypeInv'
  BY <1>28, UndoTypes
<1>29. ASSUME NEW r \in Runs, UndoNext(r) PROVE TypeInv'
  BY <1>29 DEF UndoNext
<1>30. ASSUME NEW r \in Runs, ListAll(r) PROVE TypeInv'
  BY <1>30 DEF ListAll
<1>31. ASSUME NEW r \in Runs, NEW d \in Names, NextDoomed(r, d) PROVE TypeInv'
  BY <1>31 DEF NextDoomed
<1>32. ASSUME NEW r \in Runs, Finish(r) PROVE TypeInv'
  BY <1>32, FinishTypes
<1>33. ASSUME NEW r \in Runs, MonitorFails(r) PROVE TypeInv'
  BY <1>33 DEF MonitorFails
<1>34. CASE UNCHANGED vars
  BY <1>34 DEF vars
<1> QED
  BY <1>1, <1>2, <1>3, <1>4, <1>5, <1>6, <1>7, <1>8, <1>9, <1>10, <1>11, <1>12, <1>13,
     <1>14, <1>15, <1>16, <1>17, <1>18, <1>19, <1>20, <1>21, <1>22, <1>23, <1>24, <1>25,
     <1>26, <1>27, <1>28, <1>29, <1>30, <1>31, <1>32, <1>33, <1>34
  DEF Next, Systemd, Run, Choose, Remove, Create, Launch, Cleanup

\* Every variable keeps its type, whatever the interleaving of the runs: in
\* particular each name that the naming loop, the undo and the cleanup work on
\* is the name of a deployment of a part of the service.
THEOREM TypeCorrect == Spec => []TypeOK
<1>1. TypeInv => TypeOK
  BY DEF TypeInv
<1> QED
  BY TypeInit, TypeStep, <1>1, PTL DEF Spec

(***************************************************************************)
(* Zero downtime                                                           *)
(***************************************************************************)
Live == {"active", "activating"}
Making == {"mkdir", "symlink", "seed"}
Starting == {"launch", "await"}
Busy(r) == pc[r] \notin Idle \union {"monitor"}

\* At most one run is under way.
Alone == \A r, q \in Runs : Busy(r) /\ Busy(q) => r = q

\* A unit that runs has its directory, so its name is not free.
LiveHasDir == \A d \in Names : unit[d] \in Live => "dir" \in files[d]

\* What is being removed has been stopped.
StoppedFirst(r) == pc[r] \in {"stopping", "rmfiles", "rmdir"} => unit[target[r]] \notin Live

\* Until the cleanup a rollout takes nothing away that served before it.
BeforeServes(r) ==
  idx[r] \in Parts =>
    /\ \A d \in before[r] : unit[d] = "active"
    /\ started[r] \intersect before[r] = {}
    /\ pc[r] = "stop" => unit[target[r]] = "inactive"
    /\ pc[r] \in Removing \union Making \union Starting => target[r] \notin before[r]

\* Until a failure makes it undo what it did, the parts that a rollout is
\* through with are served by deployments that it keeps.
SettledServes(r) ==
  pc[r] \notin {"undo", "undoing"} =>
    \A p \in Parts : p < idx[r] => \E d \in kept[r] : d[1] = p /\ unit[d] = "active"

\* The deployment at hand is one of the part at hand.
AtHand(r) ==
  /\ pc[r] = "show" => \A d \in cand[r] : d[1] = idx[r]
  /\ pc[r] \in Making \union Removing /\ idx[r] \in Parts => target[r][1] = idx[r]
  /\ pc[r] \in Starting =>
       target[r] \in kept[r] /\ target[r][1] = idx[r] /\ "dir" \in files[target[r]]

\* What the cleanup takes away is not what the rollout keeps.
KeepsKept(r) ==
  idx[r] = NumParts + 1 =>
    /\ pc[r] \in Removing \union {"cleanup"} => doomed[r] \intersect kept[r] = {}
    /\ pc[r] \in Removing => target[r] \notin kept[r]

RolloutInv(r) ==
  RollingOut(r) => BeforeServes(r) /\ SettledServes(r) /\ AtHand(r) /\ KeepsKept(r)

RunInv(r) == StoppedFirst(r) /\ RolloutInv(r)

DowntimeInv == TypeInv /\ Alone /\ LiveHasDir /\ \A r \in Runs : RunInv(r)

\* The services and the environments that the theorem is about.
PodsSerialised == Serial /\ FunctionParts = {} /\ "crash" \notin FaultKinds
-----------------------------------------------------------------------------
LEMMA DowntimeInit == Init => DowntimeInv
<1> SUFFICES ASSUME Init PROVE DowntimeInv
  OBVIOUS
<1>1. TypeInv
  BY TypeInit
<1>2. \A r \in Runs : ~Busy(r)
  BY DEF Init, Busy, Idle
<1>3. LiveHasDir
  BY DEF Init, LiveHasDir, Live
<1>4. \A r \in Runs : RunInv(r)
  BY DEF Init, RunInv, StoppedFirst, RolloutInv, RollingOut, Idle
<1> QED
  BY <1>1, <1>2, <1>3, <1>4 DEF DowntimeInv, Alone

LEMMA DowntimeImplies == ASSUME PodsSerialised, DowntimeInv PROVE NoDowntime
<1> SUFFICES ASSUME NEW r \in Runs, RollingOut(r), NEW d \in before[r]
             PROVE  \E e \in Names : e[1] = d[1] /\ Serving(e)
  BY DEF NoDowntime
<1>1. \A e : unit[e] = "active" => Serving(e)
  BY DEF PodsSerialised, Serving, IsFunction
<1>2. d \in Names /\ d[1] \in Parts /\ kept[r] \subseteq Names
  BY NamesFacts DEF DowntimeInv, TypeInv, TypeOK
<1>3. CASE idx[r] \in Parts
  <2>1. unit[d] = "active"
    BY <1>3 DEF DowntimeInv, RunInv, RolloutInv, BeforeServes
  <2> QED
    BY <1>1, <1>2, <2>1
<1>4. CASE idx[r] = NumParts + 1
  <2>1. d[1] < idx[r]
    BY <1>2, <1>4, NumPartsAssumption DEF Parts
  <2>2. pc[r] \notin {"undo", "undoing"}
    BY <1>4, PartsFacts DEF DowntimeInv, TypeInv, PhaseOK, LoopLabels
  <2>3. \E e \in kept[r] : e[1] = d[1] /\ unit[e] = "active"
    BY <1>2, <2>1, <2>2 DEF DowntimeInv, RunInv, RolloutInv, SettledServes
  <2> QED
    BY <1>1, <1>2, <2>3
<1> QED
  BY <1>3, <1>4, PartsFacts DEF DowntimeInv, TypeInv, TypeOK

\* A step of the only run that is under way, to a label where it still is.
LEMMA GoOn ==
  ASSUME DowntimeInv, TypeInv', NEW r \in Runs, Busy(r), NEW label, Goto(r, label),
         LiveHasDir', RunInv(r)'
  PROVE  DowntimeInv'
<1>1. \A q \in Runs : q # r => pc'[q] = pc[q] /\ ~Busy(q)
  BY DEF DowntimeInv, TypeInv, TypeOK, Goto, Alone
<1>2. Alone'
  BY <1>1 DEF Alone, Busy
<1>3. ASSUME NEW q \in Runs, q # r PROVE RunInv(q)'
  BY <1>1, <1>3 DEF RunInv, StoppedFirst, RolloutInv, RollingOut, Busy, Idle
<1> QED
  BY <1>2, <1>3 DEF DowntimeInv

\* The only run that is under way ends.
LEMMA Ends ==
  ASSUME DowntimeInv, TypeInv', NEW r \in Runs, Busy(r),
         NEW label \in Idle \union {"monitor"}, End(r, label), LiveHasDir'
  PROVE  DowntimeInv'
<1>1. pc'[r] = label /\ Goto(r, label)
  BY DEF End, Goto, DowntimeInv, TypeInv, TypeOK
<1>2. RunInv(r)'
  BY <1>1 DEF RunInv, StoppedFirst, RolloutInv, RollingOut, Idle
<1> QED
  BY <1>1, <1>2, GoOn

\* A run ends or gives up and leaves the world as it is.
LEMMA EndsQuietly ==
  ASSUME DowntimeInv, TypeInv', NEW r \in Runs,
         NEW label \in Idle \union {"monitor"}, End(r, label), UNCHANGED world
  PROVE  DowntimeInv'
<1>1. pc'[r] = label /\ \A q \in Runs : q # r => pc'[q] = pc[q]
  BY DEF End, Goto, DowntimeInv, TypeInv, TypeOK
<1>2. Alone'
  BY <1>1 DEF Alone, Busy, DowntimeInv, Idle
<1>3. LiveHasDir'
  BY DEF LiveHasDir, DowntimeInv, world
<1>4. RunInv(r)'
  BY <1>1 DEF RunInv, StoppedFirst, RolloutInv, RollingOut, Idle
<1>5. ASSUME NEW q \in Runs, q # r PROVE RunInv(q)'
  <2>1. /\ mode'[q] = mode[q] /\ idx'[q] = idx[q] /\ cand'[q] = cand[q] /\ target'[q] = target[q]
        /\ kept'[q] = kept[q] /\ started'[q] = started[q] /\ doomed'[q] = doomed[q]
        /\ before'[q] = before[q]
    BY <1>5 DEF End, DowntimeInv, TypeInv, TypeOK
  <2> QED
    BY <1>1, <1>5, <2>1
    DEF DowntimeInv, RunInv, StoppedFirst, RolloutInv, RollingOut, BeforeServes, SettledServes,
        AtHand, KeepsKept, world
<1> QED
  BY <1>2, <1>3, <1>4, <1>5 DEF DowntimeInv

\* systemd moves a unit on, unless it takes a pod away that serves.
LEMMA UnitMoves ==
  ASSUME DowntimeInv, TypeInv', NEW d \in Names, NEW s \in UnitStates, SetUnit(d, s),
         \/ unit[d] = "activating"
         \/ unit[d] = "deactivating" /\ s \notin Live
  PROVE  DowntimeInv'
<1>1. \A e \in Names : unit'[e] = IF e = d THEN s ELSE unit[e]
  BY DEF SetUnit, DowntimeInv, TypeInv, TypeOK
<1>2. UNCHANGED <<files, pc, mode, idx, cand, target, kept, started, doomed, before>>
  BY DEF SetUnit, local
<1>3. Alone'
  BY <1>2 DEF DowntimeInv, Alone, Busy
<1>4. LiveHasDir'
  BY <1>1, <1>2 DEF DowntimeInv, LiveHasDir, Live
<1>5. ASSUME NEW r \in Runs PROVE RunInv(r)'
  <2>1. target[r] \in Names /\ before[r] \subseteq Names /\ kept[r] \subseteq Names
    BY DEF DowntimeInv, TypeInv, TypeOK
  <2>2. StoppedFirst(r)'
    BY <1>1, <1>2, <2>1 DEF DowntimeInv, RunInv, StoppedFirst, Live
  <2>3. ASSUME RollingOut(r) PROVE BeforeServes(r)'
    BY <1>1, <1>2, <2>1, <2>3 DEF DowntimeInv, RunInv, RolloutInv, BeforeServes
  <2>4. ASSUME RollingOut(r) PROVE SettledServes(r)'
    BY <1>1, <1>2, <2>1, <2>4 DEF DowntimeInv, RunInv, RolloutInv, SettledServes
  <2>5. ASSUME RollingOut(r) PROVE AtHand(r)' /\ KeepsKept(r)'
    BY <1>2, <2>5 DEF DowntimeInv, RunInv, RolloutInv, AtHand, KeepsKept
  <2> QED
    BY <1>2, <2>2, <2>3, <2>4, <2>5 DEF RunInv, RolloutInv, RollingOut
<1> QED
  BY <1>3, <1>4, <1>5 DEF DowntimeInv

LEMMA BeginKeeps ==
  ASSUME PodsSerialised, DowntimeInv, TypeInv', NEW r \in Runs, NEW m \in AllModes, Begin(r, m)
  PROVE  DowntimeInv'
<1>1. \A q \in Runs : ~Busy(q)
  BY DEF PodsSerialised, Begin, CanBegin, Busy
<1>2. \A q \in Runs : pc'[q] = IF q = r THEN IF m \in RolloutModes THEN "list" ELSE "listall"
                               ELSE IF m = "stop" /\ pc[q] = "monitor" THEN "dead" ELSE pc[q]
  BY DEF Begin
<1>3. Alone'
  BY <1>1, <1>2 DEF Alone, Busy, Idle
<1>4. LiveHasDir'
  BY DEF Begin, DowntimeInv, LiveHasDir, world
<1>5. ASSUME NEW q \in Runs, q # r PROVE RunInv(q)'
  BY <1>1, <1>2, <1>5 DEF RunInv, StoppedFirst, RolloutInv, RollingOut, Busy, Idle
<1>6. RunInv(r)'
  <2>1. /\ mode'[r] = m /\ idx'[r] = IF m \in RolloutModes THEN 1 ELSE NumParts + 1
        /\ started'[r] = {} /\ kept'[r] = {}
        /\ before'[r] = {d \in Names : unit[d] = "active"} /\ unit' = unit
    BY DEF Begin, DowntimeInv, TypeInv, TypeOK, Serving, IsFunction, PodsSerialised, world
  <2>2. CASE m \in RolloutModes
    <3>1. pc'[r] = "list" /\ idx'[r] = 1
      BY <1>2, <2>1, <2>2
    <3>2. \A p \in Parts : ~(p < idx'[r])
      BY <3>1 DEF Parts
    <3>3. BeforeServes(r)'
      BY <2>1, <3>1 DEF BeforeServes, Removing, Making, Starting
    <3>4. SettledServes(r)'
      BY <3>2 DEF SettledServes
    <3>5. AtHand(r)' /\ KeepsKept(r)'
      BY <3>1, NumPartsAssumption DEF AtHand, KeepsKept, Removing, Making, Starting
    <3> QED
      BY <3>1, <3>3, <3>4, <3>5 DEF RunInv, StoppedFirst, RolloutInv
  <2>3. CASE m \notin RolloutModes
    BY <1>2, <2>1, <2>3 DEF RunInv, StoppedFirst, RolloutInv, RollingOut
  <2> QED
    BY <2>2, <2>3
<1> QED
  BY <1>3, <1>4, <1>5, <1>6 DEF DowntimeInv

LEMMA ListPartKeeps ==
  ASSUME DowntimeInv, TypeInv', NEW r \in Runs, ListPart(r)
  PROVE  DowntimeInv'
<1>1. Busy(r) /\ Goto(r, "show")
  BY DEF ListPart, Busy, Idle, Step, NextPart
<1>2. /\ pc[r] = "list" /\ pc'[r] = "show"
      /\ mode'[r] = mode[r] /\ idx'[r] = idx[r] /\ target'[r] = target[r] /\ kept'[r] = kept[r]
      /\ started'[r] = started[r] /\ doomed'[r] = doomed[r] /\ before'[r] = before[r]
      /\ cand'[r] = {d \in Names : d[1] = idx[r] /\ Seeded(d) /\ seedId[d] = conf[r][idx[r]]}
      /\ unit' = unit /\ files' = files
  BY DEF ListPart, Goto, Step, DowntimeInv, TypeInv, TypeOK, PhaseOK, LoopLabels, Removing,
         world, local
<1>3. LiveHasDir'
  BY <1>2 DEF DowntimeInv, LiveHasDir, Live
<1>4. /\ RunInv(r) /\ target[r] \in Names /\ idx[r] \in 1..(NumParts + 1)
      /\ before[r] \subseteq Names /\ kept[r] \subseteq Names /\ cand[r] \subseteq Names
      /\ started[r] \subseteq Names /\ doomed[r] \subseteq Names
  BY DEF DowntimeInv, TypeInv, TypeOK
<1>5. StoppedFirst(r)'
  BY <1>2, <1>4 DEF RunInv, StoppedFirst, Live
<1>6. ASSUME RollingOut(r) PROVE BeforeServes(r)'
  BY <1>2, <1>4, <1>6, PartsFacts
  DEF RunInv, RolloutInv, BeforeServes, Removing, Making, Starting
<1>7. ASSUME RollingOut(r) PROVE SettledServes(r)'
  BY <1>2, <1>4, <1>7, PartsFacts DEF RunInv, RolloutInv, SettledServes
<1>8. ASSUME RollingOut(r) PROVE AtHand(r)'
  BY <1>2, <1>4, <1>8, PartsFacts DEF RunInv, RolloutInv, AtHand, Removing, Making, Starting
<1>9. ASSUME RollingOut(r) PROVE KeepsKept(r)'
  BY <1>2, <1>4, <1>9, PartsFacts DEF RunInv, RolloutInv, KeepsKept, Removing, Starting
<1>10. RunInv(r)'
  BY <1>2, <1>5, <1>6, <1>7, <1>8, <1>9 DEF RunInv, RolloutInv, RollingOut, Idle
<1> QED
  BY <1>1, <1>3, <1>10, GoOn

LEMMA UseStartingKeeps ==
  ASSUME DowntimeInv, TypeInv', NEW r \in Runs, NEW d \in Names, UseStarting(r, d)
  PROVE  DowntimeInv'
<1>1. Busy(r) /\ Goto(r, "launch")
  BY DEF UseStarting, Busy, Idle, Step, NextPart
<1>2. /\ pc[r] = "show" /\ pc'[r] = "launch"
      /\ mode'[r] = mode[r] /\ idx'[r] = idx[r] /\ cand'[r] = cand[r] /\ started'[r] = started[r]
      /\ doomed'[r] = doomed[r] /\ before'[r] = before[r]
      /\ target'[r] = d
      /\ kept'[r] = kept[r] \union {d}
      /\ unit' = unit /\ files' = files
      /\ d \in cand[r] /\ unit[d] = "activating" /\ "dir" \in files[d] /\ idx[r] \in Parts
  BY DEF UseStarting, Goto, Step, DowntimeInv, TypeInv, TypeOK, PhaseOK, LoopLabels, Removing,
         world, local, LiveHasDir, Live, Keep, InState
<1>3. LiveHasDir'
  BY <1>2 DEF DowntimeInv, LiveHasDir, Live
<1>4. /\ RunInv(r) /\ target[r] \in Names /\ idx[r] \in 1..(NumParts + 1)
      /\ before[r] \subseteq Names /\ kept[r] \subseteq Names /\ cand[r] \subseteq Names
      /\ started[r] \subseteq Names /\ doomed[r] \subseteq Names
  BY DEF DowntimeInv, TypeInv, TypeOK
<1>5. StoppedFirst(r)'
  BY <1>2, <1>4 DEF RunInv, StoppedFirst, Live
<1>6. ASSUME RollingOut(r) PROVE BeforeServes(r)'
  BY <1>2, <1>4, <1>6, PartsFacts
  DEF RunInv, RolloutInv, BeforeServes, Removing, Making, Starting
<1>7. ASSUME RollingOut(r) PROVE SettledServes(r)'
  BY <1>2, <1>4, <1>7, PartsFacts DEF RunInv, RolloutInv, SettledServes
<1>8. ASSUME RollingOut(r) PROVE AtHand(r)'
  BY <1>2, <1>4, <1>8, PartsFacts DEF RunInv, RolloutInv, AtHand, Removing, Making, Starting
<1>9. ASSUME RollingOut(r) PROVE KeepsKept(r)'
  BY <1>2, <1>4, <1>9, PartsFacts DEF RunInv, RolloutInv, KeepsKept, Removing, Starting
<1>10. RunInv(r)'
  BY <1>2, <1>5, <1>6, <1>7, <1>8, <1>9 DEF RunInv, RolloutInv, RollingOut, Idle
<1> QED
  BY <1>1, <1>3, <1>10, GoOn

LEMMA UseStoppedKeeps ==
  ASSUME DowntimeInv, TypeInv', NEW r \in Runs, NEW d \in Names, UseStopped(r, d)
  PROVE  DowntimeInv'
<1>1. Busy(r) /\ Goto(r, "stop")
  BY DEF UseStopped, Busy, Idle, Step, NextPart
<1>2. /\ pc[r] = "show" /\ pc'[r] = "stop"
      /\ mode'[r] = mode[r] /\ idx'[r] = idx[r] /\ cand'[r] = cand[r] /\ kept'[r] = kept[r]
      /\ started'[r] = started[r] /\ doomed'[r] = doomed[r] /\ before'[r] = before[r]
      /\ target'[r] = d
      /\ unit' = unit /\ files' = files
      /\ d \in cand[r] /\ unit[d] = "inactive" /\ idx[r] \in Parts
  BY DEF UseStopped, Goto, Step, DowntimeInv, TypeInv, TypeOK, PhaseOK, LoopLabels, Removing,
         world, local, InState
<1>3. LiveHasDir'
  BY <1>2 DEF DowntimeInv, LiveHasDir, Live
<1>4. /\ RunInv(r) /\ target[r] \in Names /\ idx[r] \in 1..(NumParts + 1)
      /\ before[r] \subseteq Names /\ kept[r] \subseteq Names /\ cand[r] \subseteq Names
      /\ started[r] \subseteq Names /\ doomed[r] \subseteq Names
  BY DEF DowntimeInv, TypeInv, TypeOK
<1>5. StoppedFirst(r)'
  BY <1>2, <1>4 DEF RunInv, StoppedFirst, Live
<1>6. ASSUME RollingOut(r) PROVE BeforeServes(r)'
  BY <1>2, <1>4, <1>6, PartsFacts
  DEF RunInv, RolloutInv, BeforeServes, Removing, Making, Starting
<1>7. ASSUME RollingOut(r) PROVE SettledServes(r)'
  BY <1>2, <1>4, <1>7, PartsFacts DEF RunInv, RolloutInv, SettledServes
<1>8. ASSUME RollingOut(r) PROVE AtHand(r)'
  BY <1>2, <1>4, <1>8, PartsFacts DEF RunInv, RolloutInv, AtHand, Removing, Making, Starting
<1>9. ASSUME RollingOut(r) PROVE KeepsKept(r)'
  BY <1>2, <1>4, <1>9, PartsFacts DEF RunInv, RolloutInv, KeepsKept, Removing, Starting
<1>10. RunInv(r)'
  BY <1>2, <1>5, <1>6, <1>7, <1>8, <1>9 DEF RunInv, RolloutInv, RollingOut, Idle
<1> QED
  BY <1>1, <1>3, <1>10, GoOn

LEMMA NewNameKeeps ==
  ASSUME DowntimeInv, TypeInv', NEW r \in Runs, NEW i \in 1..MaxIndex, NewName(r, i)
  PROVE  DowntimeInv'
<1>1. Busy(r) /\ Goto(r, "mkdir")
  BY DEF NewName, Busy, Idle, Step, NextPart
<1>2. /\ pc[r] = "show" /\ pc'[r] = "mkdir"
      /\ mode'[r] = mode[r] /\ idx'[r] = idx[r] /\ cand'[r] = cand[r] /\ kept'[r] = kept[r]
      /\ started'[r] = started[r] /\ doomed'[r] = doomed[r] /\ before'[r] = before[r]
      /\ target'[r] = <<idx[r], i>>
      /\ unit' = unit /\ files' = files
      /\ unit[<<idx[r], i>>] # "active" /\ idx[r] \in Parts
  BY NamesFacts
  DEF NewName, Goto, Step, DowntimeInv, TypeInv, TypeOK, PhaseOK, LoopLabels, Removing,
      world, local, FirstFree, LiveHasDir, Live
<1>3. LiveHasDir'
  BY <1>2 DEF DowntimeInv, LiveHasDir, Live
<1>4. /\ RunInv(r) /\ target[r] \in Names /\ idx[r] \in 1..(NumParts + 1)
      /\ before[r] \subseteq Names /\ kept[r] \subseteq Names /\ cand[r] \subseteq Names
      /\ started[r] \subseteq Names /\ doomed[r] \subseteq Names
  BY DEF DowntimeInv, TypeInv, TypeOK
<1>5. StoppedFirst(r)'
  BY <1>2, <1>4 DEF RunInv, StoppedFirst, Live
<1>6. ASSUME RollingOut(r) PROVE BeforeServes(r)'
  BY <1>2, <1>4, <1>6, PartsFacts
  DEF RunInv, RolloutInv, BeforeServes, Removing, Making, Starting
<1>7. ASSUME RollingOut(r) PROVE SettledServes(r)'
  BY <1>2, <1>4, <1>7, PartsFacts DEF RunInv, RolloutInv, SettledServes
<1>8. ASSUME RollingOut(r) PROVE AtHand(r)'
  BY <1>2, <1>4, <1>8, PartsFacts DEF RunInv, RolloutInv, AtHand, Removing, Making, Starting
<1>9. ASSUME RollingOut(r) PROVE KeepsKept(r)'
  BY <1>2, <1>4, <1>9, PartsFacts DEF RunInv, RolloutInv, KeepsKept, Removing, Starting
<1>10. RunInv(r)'
  BY <1>2, <1>5, <1>6, <1>7, <1>8, <1>9 DEF RunInv, RolloutInv, RollingOut, Idle
<1> QED
  BY <1>1, <1>3, <1>10, GoOn

LEMMA PodNotStartedKeeps ==
  ASSUME DowntimeInv, TypeInv', NEW r \in Runs, PodNotStarted(r)
  PROVE  DowntimeInv'
<1>1. Busy(r) /\ Goto(r, "undo")
  BY DEF PodNotStarted, Busy, Idle, Step, NextPart
<1>2. /\ pc[r] = "await" /\ pc'[r] = "undo"
      /\ mode'[r] = mode[r] /\ idx'[r] = idx[r] /\ cand'[r] = cand[r] /\ target'[r] = target[r]
      /\ kept'[r] = kept[r] /\ started'[r] = started[r] /\ doomed'[r] = doomed[r] /\ before'[r] = before[r]
      /\ unit' = unit /\ files' = files
  BY DEF PodNotStarted, Goto, Step, DowntimeInv, TypeInv, TypeOK, PhaseOK, LoopLabels,
         Removing, world, local
<1>3. LiveHasDir'
  BY <1>2 DEF DowntimeInv, LiveHasDir, Live
<1>4. /\ RunInv(r) /\ target[r] \in Names /\ idx[r] \in 1..(NumParts + 1)
      /\ before[r] \subseteq Names /\ kept[r] \subseteq Names /\ cand[r] \subseteq Names
      /\ started[r] \subseteq Names /\ doomed[r] \subseteq Names
  BY DEF DowntimeInv, TypeInv, TypeOK
<1>5. StoppedFirst(r)'
  BY <1>2, <1>4 DEF RunInv, StoppedFirst, Live
<1>6. ASSUME RollingOut(r) PROVE BeforeServes(r)'
  BY <1>2, <1>4, <1>6, PartsFacts
  DEF RunInv, RolloutInv, BeforeServes, Removing, Making, Starting
<1>7. ASSUME RollingOut(r) PROVE SettledServes(r)'
  BY <1>2, <1>4, <1>7, PartsFacts DEF RunInv, RolloutInv, SettledServes
<1>8. ASSUME RollingOut(r) PROVE AtHand(r)'
  BY <1>2, <1>4, <1>8, PartsFacts DEF RunInv, RolloutInv, AtHand, Removing, Making, Starting
<1>9. ASSUME RollingOut(r) PROVE KeepsKept(r)'
  BY <1>2, <1>4, <1>9, PartsFacts DEF RunInv, RolloutInv, KeepsKept, Removing, Starting
<1>10. RunInv(r)'
  BY <1>2, <1>5, <1>6, <1>7, <1>8, <1>9 DEF RunInv, RolloutInv, RollingOut, Idle
<1> QED
  BY <1>1, <1>3, <1>10, GoOn

LEMMA UndoNextKeeps ==
  ASSUME DowntimeInv, TypeInv', NEW r \in Runs, UndoNext(r)
  PROVE  DowntimeInv'
<1>1. Busy(r) /\ Goto(r, "undo")
  BY DEF UndoNext, Busy, Idle, Step, NextPart
<1>2. /\ pc[r] = "undoing" /\ pc'[r] = "undo"
      /\ mode'[r] = mode[r] /\ idx'[r] = idx[r] /\ cand'[r] = cand[r] /\ target'[r] = target[r]
      /\ kept'[r] = kept[r] /\ doomed'[r] = doomed[r] /\ before'[r] = before[r]
      /\ started'[r] = started[r] \ {target[r]}
      /\ unit' = unit /\ files' = files
  BY DEF UndoNext, Goto, Step, DowntimeInv, TypeInv, TypeOK, PhaseOK, LoopLabels, Removing,
         world, local
<1>3. LiveHasDir'
  BY <1>2 DEF DowntimeInv, LiveHasDir, Live
<1>4. /\ RunInv(r) /\ target[r] \in Names /\ idx[r] \in 1..(NumParts + 1)
      /\ before[r] \subseteq Names /\ kept[r] \subseteq Names /\ cand[r] \subseteq Names
      /\ started[r] \subseteq Names /\ doomed[r] \subseteq Names
  BY DEF DowntimeInv, TypeInv, TypeOK
<1>5. StoppedFirst(r)'
  BY <1>2, <1>4 DEF RunInv, StoppedFirst, Live
<1>6. ASSUME RollingOut(r) PROVE BeforeServes(r)'
  BY <1>2, <1>4, <1>6, PartsFacts
  DEF RunInv, RolloutInv, BeforeServes, Removing, Making, Starting
<1>7. ASSUME RollingOut(r) PROVE SettledServes(r)'
  BY <1>2, <1>4, <1>7, PartsFacts DEF RunInv, RolloutInv, SettledServes
<1>8. ASSUME RollingOut(r) PROVE AtHand(r)'
  BY <1>2, <1>4, <1>8, PartsFacts DEF RunInv, RolloutInv, AtHand, Removing, Making, Starting
<1>9. ASSUME RollingOut(r) PROVE KeepsKept(r)'
  BY <1>2, <1>4, <1>9, PartsFacts DEF RunInv, RolloutInv, KeepsKept, Removing, Starting
<1>10. RunInv(r)'
  BY <1>2, <1>5, <1>6, <1>7, <1>8, <1>9 DEF RunInv, RolloutInv, RollingOut, Idle
<1> QED
  BY <1>1, <1>3, <1>10, GoOn

LEMMA ListAllKeeps ==
  ASSUME DowntimeInv, TypeInv', NEW r \in Runs, ListAll(r)
  PROVE  DowntimeInv'
<1>1. Busy(r) /\ Goto(r, "cleanup")
  BY DEF ListAll, Busy, Idle, Step, NextPart
<1>2. /\ pc[r] = "listall" /\ pc'[r] = "cleanup"
      /\ mode'[r] = mode[r] /\ idx'[r] = idx[r] /\ cand'[r] = cand[r] /\ target'[r] = target[r]
      /\ kept'[r] = kept[r] /\ started'[r] = started[r] /\ before'[r] = before[r]
      /\ doomed'[r] = {d \in Names : "link" \in files[d]} \ kept[r]
      /\ unit' = unit /\ files' = files
  BY DEF ListAll, Goto, Step, DowntimeInv, TypeInv, TypeOK, PhaseOK, LoopLabels, Removing,
         world, local
<1>3. LiveHasDir'
  BY <1>2 DEF DowntimeInv, LiveHasDir, Live
<1>4. /\ RunInv(r) /\ target[r] \in Names /\ idx[r] \in 1..(NumParts + 1)
      /\ before[r] \subseteq Names /\ kept[r] \subseteq Names /\ cand[r] \subseteq Names
      /\ started[r] \subseteq Names /\ doomed[r] \subseteq Names
  BY DEF DowntimeInv, TypeInv, TypeOK
<1>5. StoppedFirst(r)'
  BY <1>2, <1>4 DEF RunInv, StoppedFirst, Live
<1>6. ASSUME RollingOut(r) PROVE BeforeServes(r)'
  BY <1>2, <1>4, <1>6, PartsFacts
  DEF RunInv, RolloutInv, BeforeServes, Removing, Making, Starting
<1>7. ASSUME RollingOut(r) PROVE SettledServes(r)'
  BY <1>2, <1>4, <1>7, PartsFacts DEF RunInv, RolloutInv, SettledServes
<1>8. ASSUME RollingOut(r) PROVE AtHand(r)'
  BY <1>2, <1>4, <1>8, PartsFacts DEF RunInv, RolloutInv, AtHand, Removing, Making, Starting
<1>9. ASSUME RollingOut(r) PROVE KeepsKept(r)'
  BY <1>2, <1>4, <1>9, PartsFacts DEF RunInv, RolloutInv, KeepsKept, Removing, Starting
<1>10. RunInv(r)'
  BY <1>2, <1>5, <1>6, <1>7, <1>8, <1>9 DEF RunInv, RolloutInv, RollingOut, Idle
<1> QED
  BY <1>1, <1>3, <1>10, GoOn

LEMMA NextDoomedKeeps ==
  ASSUME DowntimeInv, TypeInv', NEW r \in Runs, NEW d \in Names, NextDoomed(r, d)
  PROVE  DowntimeInv'
<1>1. Busy(r) /\ Goto(r, "stop")
  BY DEF NextDoomed, Busy, Idle, Step, NextPart
<1>2. /\ pc[r] = "cleanup" /\ pc'[r] = "stop"
      /\ mode'[r] = mode[r] /\ idx'[r] = idx[r] /\ cand'[r] = cand[r] /\ kept'[r] = kept[r]
      /\ started'[r] = started[r] /\ before'[r] = before[r]
      /\ target'[r] = d
      /\ doomed'[r] = doomed[r] \ {d}
      /\ unit' = unit /\ files' = files
      /\ d \in doomed[r] /\ idx[r] = NumParts + 1
  BY DEF NextDoomed, Goto, Step, DowntimeInv, TypeInv, TypeOK, PhaseOK, LoopLabels, Removing,
         world, local
<1>3. LiveHasDir'
  BY <1>2 DEF DowntimeInv, LiveHasDir, Live
<1>4. /\ RunInv(r) /\ target[r] \in Names /\ idx[r] \in 1..(NumParts + 1)
      /\ before[r] \subseteq Names /\ kept[r] \subseteq Names /\ cand[r] \subseteq Names
      /\ started[r] \subseteq Names /\ doomed[r] \subseteq Names
  BY DEF DowntimeInv, TypeInv, TypeOK
<1>5. StoppedFirst(r)'
  BY <1>2, <1>4 DEF RunInv, StoppedFirst, Live
<1>6. ASSUME RollingOut(r) PROVE BeforeServes(r)'
  BY <1>2, <1>4, <1>6, PartsFacts
  DEF RunInv, RolloutInv, BeforeServes, Removing, Making, Starting
<1>7. ASSUME RollingOut(r) PROVE SettledServes(r)'
  BY <1>2, <1>4, <1>7, PartsFacts DEF RunInv, RolloutInv, SettledServes
<1>8. ASSUME RollingOut(r) PROVE AtHand(r)'
  BY <1>2, <1>4, <1>8, PartsFacts DEF RunInv, RolloutInv, AtHand, Removing, Making, Starting
<1>9. ASSUME RollingOut(r) PROVE KeepsKept(r)'
  BY <1>2, <1>4, <1>9, PartsFacts DEF RunInv, RolloutInv, KeepsKept, Removing, Starting
<1>10. RunInv(r)'
  BY <1>2, <1>5, <1>6, <1>7, <1>8, <1>9 DEF RunInv, RolloutInv, RollingOut, Idle
<1> QED
  BY <1>1, <1>3, <1>10, GoOn

LEMMA MakeDirKeeps ==
  ASSUME DowntimeInv, TypeInv', NEW r \in Runs, MakeDir(r)
  PROVE  DowntimeInv'
<1>1. Busy(r) /\ Goto(r, "symlink")
  BY DEF MakeDir, Busy, Idle, Step, NextPart
<1>2. /\ pc[r] = "mkdir" /\ pc'[r] = "symlink"
      /\ mode'[r] = mode[r] /\ idx'[r] = idx[r] /\ cand'[r] = cand[r] /\ target'[r] = target[r]
      /\ kept'[r] = kept[r] /\ started'[r] = started[r] /\ doomed'[r] = doomed[r] /\ before'[r] = before[r]
      /\ unit' = unit /\ files' = [files EXCEPT ![target[r]] = @ \union {"dir"}]
  BY DEF MakeDir, Goto, Step, DowntimeInv, TypeInv, TypeOK, PhaseOK, LoopLabels, Removing,
         world, local
<1>3. LiveHasDir'
  BY <1>2 DEF DowntimeInv, LiveHasDir, Live, TypeInv, TypeOK
<1>4. /\ RunInv(r) /\ target[r] \in Names /\ idx[r] \in 1..(NumParts + 1)
      /\ before[r] \subseteq Names /\ kept[r] \subseteq Names /\ cand[r] \subseteq Names
      /\ started[r] \subseteq Names /\ doomed[r] \subseteq Names
  BY DEF DowntimeInv, TypeInv, TypeOK
<1>5. StoppedFirst(r)'
  BY <1>2, <1>4 DEF RunInv, StoppedFirst, Live
<1>6. ASSUME RollingOut(r) PROVE BeforeServes(r)'
  BY <1>2, <1>4, <1>6, PartsFacts
  DEF RunInv, RolloutInv, BeforeServes, Removing, Making, Starting
<1>7. ASSUME RollingOut(r) PROVE SettledServes(r)'
  BY <1>2, <1>4, <1>7, PartsFacts DEF RunInv, RolloutInv, SettledServes
<1>8. ASSUME RollingOut(r) PROVE AtHand(r)'
  BY <1>2, <1>4, <1>8, PartsFacts DEF RunInv, RolloutInv, AtHand, Removing, Making, Starting
<1>9. ASSUME RollingOut(r) PROVE KeepsKept(r)'
  BY <1>2, <1>4, <1>9, PartsFacts DEF RunInv, RolloutInv, KeepsKept, Removing, Starting
<1>10. RunInv(r)'
  BY <1>2, <1>5, <1>6, <1>7, <1>8, <1>9 DEF RunInv, RolloutInv, RollingOut, Idle
<1> QED
  BY <1>1, <1>3, <1>10, GoOn

LEMMA RemoveFilesKeeps ==
  ASSUME DowntimeInv, TypeInv', NEW r \in Runs, RemoveFiles(r)
  PROVE  DowntimeInv'
<1>1. Busy(r) /\ Goto(r, "rmdir")
  BY DEF RemoveFiles, Busy, Idle, Step, NextPart
<1>2. /\ pc[r] = "rmfiles" /\ pc'[r] = "rmdir"
      /\ mode'[r] = mode[r] /\ idx'[r] = idx[r] /\ cand'[r] = cand[r] /\ target'[r] = target[r]
      /\ kept'[r] = kept[r] /\ started'[r] = started[r] /\ doomed'[r] = doomed[r] /\ before'[r] = before[r]
      /\ unit' = unit /\ files' = [files EXCEPT ![target[r]] = @ \intersect {"dir"}]
  BY DEF RemoveFiles, Goto, Step, DowntimeInv, TypeInv, TypeOK, PhaseOK, LoopLabels, Removing,
         world, local
<1>3. LiveHasDir'
  BY <1>2 DEF DowntimeInv, LiveHasDir, Live, TypeInv, TypeOK
<1>4. /\ RunInv(r) /\ target[r] \in Names /\ idx[r] \in 1..(NumParts + 1)
      /\ before[r] \subseteq Names /\ kept[r] \subseteq Names /\ cand[r] \subseteq Names
      /\ started[r] \subseteq Names /\ doomed[r] \subseteq Names
  BY DEF DowntimeInv, TypeInv, TypeOK
<1>5. StoppedFirst(r)'
  BY <1>2, <1>4 DEF RunInv, StoppedFirst, Live
<1>6. ASSUME RollingOut(r) PROVE BeforeServes(r)'
  BY <1>2, <1>4, <1>6, PartsFacts
  DEF RunInv, RolloutInv, BeforeServes, Removing, Making, Starting
<1>7. ASSUME RollingOut(r) PROVE SettledServes(r)'
  BY <1>2, <1>4, <1>7, PartsFacts DEF RunInv, RolloutInv, SettledServes
<1>8. ASSUME RollingOut(r) PROVE AtHand(r)'
  BY <1>2, <1>4, <1>8, PartsFacts DEF RunInv, RolloutInv, AtHand, Removing, Making, Starting
<1>9. ASSUME RollingOut(r) PROVE KeepsKept(r)'
  BY <1>2, <1>4, <1>9, PartsFacts DEF RunInv, RolloutInv, KeepsKept, Removing, Starting
<1>10. RunInv(r)'
  BY <1>2, <1>5, <1>6, <1>7, <1>8, <1>9 DEF RunInv, RolloutInv, RollingOut, Idle
<1> QED
  BY <1>1, <1>3, <1>10, GoOn

LEMMA StopUnitKeeps ==
  ASSUME DowntimeInv, TypeInv', NEW r \in Runs, StopUnit(r)
  PROVE  DowntimeInv'
<1>1. Busy(r) /\ Goto(r, "stopping")
  BY DEF StopUnit, Busy, Idle, Step, NextPart
<1>2. /\ pc[r] = "stop" /\ pc'[r] = "stopping"
      /\ mode'[r] = mode[r] /\ idx'[r] = idx[r] /\ cand'[r] = cand[r] /\ target'[r] = target[r]
      /\ kept'[r] = kept[r] /\ started'[r] = started[r] /\ doomed'[r] = doomed[r] /\ before'[r] = before[r]
      /\ files' = files /\ unit' = [unit EXCEPT ![target[r]] = AfterStopJob(@)]
      /\ unit'[target[r]] \notin Live /\ (unit[target[r]] = "inactive" => unit' = unit)
      /\ \A e \in Names : e # target[r] => unit'[e] = unit[e]
  BY DEF StopUnit, Goto, Step, DowntimeInv, TypeInv, TypeOK, PhaseOK, LoopLabels, Removing,
         world, local, Live, AfterStopJob
<1>3. LiveHasDir'
  BY <1>2 DEF DowntimeInv, LiveHasDir, Live
<1>4. /\ RunInv(r) /\ target[r] \in Names /\ idx[r] \in 1..(NumParts + 1)
      /\ before[r] \subseteq Names /\ kept[r] \subseteq Names /\ cand[r] \subseteq Names
      /\ started[r] \subseteq Names /\ doomed[r] \subseteq Names
  BY DEF DowntimeInv, TypeInv, TypeOK
<1>5. StoppedFirst(r)'
  BY <1>2, <1>4 DEF RunInv, StoppedFirst, Live
<1>6. ASSUME RollingOut(r) PROVE BeforeServes(r)'
  BY <1>2, <1>4, <1>6, PartsFacts
  DEF RunInv, RolloutInv, BeforeServes, Removing, Making, Starting
<1>7. ASSUME RollingOut(r) PROVE SettledServes(r)'
  BY <1>2, <1>4, <1>7, PartsFacts
  DEF RunInv, RolloutInv, SettledServes, BeforeServes, KeepsKept, Removing
<1>8. ASSUME RollingOut(r) PROVE AtHand(r)'
  BY <1>2, <1>4, <1>8, PartsFacts DEF RunInv, RolloutInv, AtHand, Removing, Making, Starting
<1>9. ASSUME RollingOut(r) PROVE KeepsKept(r)'
  BY <1>2, <1>4, <1>9, PartsFacts DEF RunInv, RolloutInv, KeepsKept, Removing, Starting
<1>10. RunInv(r)'
  BY <1>2, <1>5, <1>6, <1>7, <1>8, <1>9 DEF RunInv, RolloutInv, RollingOut, Idle
<1> QED
  BY <1>1, <1>3, <1>10, GoOn

\* The part at hand is settled by a deployment of it that is active and kept.
LEMMA PartSettles ==
  ASSUME DowntimeInv, NEW r \in Runs, SettledServes(r), pc[r] \notin {"undo", "undoing"},
         NEW d \in Names, d \in kept'[r], d[1] = idx[r], unit'[d] = "active",
         idx'[r] = idx[r] + 1, idx[r] \in Parts, kept[r] \subseteq kept'[r], unit' = unit
  PROVE  SettledServes(r)'
<1> SUFFICES ASSUME NEW p \in Parts, p < idx'[r]
             PROVE  \E e \in kept'[r] : e[1] = p /\ unit'[e] = "active"
  BY DEF SettledServes, Parts
<1>1. p < idx[r] \/ p = idx[r]
  BY DEF Parts
<1>2. CASE p < idx[r]
  BY <1>2 DEF SettledServes
<1> QED
  BY <1>1, <1>2

LEMMA UseStartedKeeps ==
  ASSUME PodsSerialised, DowntimeInv, TypeInv', NEW r \in Runs, NEW d \in Names, UseStarted(r, d)
  PROVE  DowntimeInv'
<1>1. Busy(r) /\ Goto(r, (IF idx[r] = NumParts THEN "listall" ELSE "list"))
  BY DEF UseStarted, Busy, Idle, NextPart, IsFunction, PodsSerialised
<1>2. /\ pc[r] = "show" /\ pc'[r] = (IF idx[r] = NumParts THEN "listall" ELSE "list")
      /\ mode'[r] = mode[r] /\ started'[r] = started[r] /\ doomed'[r] = doomed[r]
      /\ before'[r] = before[r]
      /\ idx'[r] = idx[r] + 1
      /\ target'[r] = d
      /\ kept'[r] = kept[r] \union {d}
      /\ unit' = unit /\ files' = files
      /\ d \in cand[r] /\ unit[d] = "active" /\ idx[r] \in Parts
  BY DEF UseStarted, Goto, Step, DowntimeInv, TypeInv, TypeOK, PhaseOK, LoopLabels, Removing,
         world, local, Keep, NextPart, InState, Acceptable, IsFunction, PodsSerialised
<1>3. LiveHasDir'
  BY <1>2 DEF DowntimeInv, LiveHasDir, Live
<1>4. /\ RunInv(r) /\ target[r] \in Names /\ idx[r] \in 1..(NumParts + 1)
      /\ before[r] \subseteq Names /\ kept[r] \subseteq Names /\ cand[r] \subseteq Names
      /\ started[r] \subseteq Names /\ doomed[r] \subseteq Names
  BY DEF DowntimeInv, TypeInv, TypeOK
<1>5. StoppedFirst(r)'
  BY <1>2, <1>4 DEF RunInv, StoppedFirst, Live
<1>6. ASSUME RollingOut(r) PROVE BeforeServes(r)'
  BY <1>2, <1>4, <1>6, PartsFacts
  DEF RunInv, RolloutInv, BeforeServes, Removing, Making, Starting
<1>7. ASSUME RollingOut(r) PROVE SettledServes(r)'
  <2>1. SettledServes(r) /\ d[1] = idx[r]
    BY <1>2, <1>4, <1>7 DEF RunInv, RolloutInv, AtHand
  <2> QED
    BY <1>2, <2>1, PartSettles
<1>8. ASSUME RollingOut(r) PROVE AtHand(r)'
  BY <1>2, <1>4, <1>8, PartsFacts DEF RunInv, RolloutInv, AtHand, Removing, Making, Starting
<1>9. ASSUME RollingOut(r) PROVE KeepsKept(r)'
  BY <1>2, <1>4, <1>9, PartsFacts DEF RunInv, RolloutInv, KeepsKept, Removing, Starting
<1>10. RunInv(r)'
  BY <1>2, <1>5, <1>6, <1>7, <1>8, <1>9 DEF RunInv, RolloutInv, RollingOut, Idle
<1> QED
  BY <1>1, <1>3, <1>10, GoOn

LEMMA PodStartedKeeps ==
  ASSUME DowntimeInv, TypeInv', NEW r \in Runs, PodStarted(r)
  PROVE  DowntimeInv'
<1>1. Busy(r) /\ Goto(r, (IF idx[r] = NumParts THEN "listall" ELSE "list"))
  BY DEF PodStarted, Busy, Idle, Step, NextPart
<1>2. /\ pc[r] = "await" /\ pc'[r] = (IF idx[r] = NumParts THEN "listall" ELSE "list")
      /\ mode'[r] = mode[r] /\ target'[r] = target[r] /\ kept'[r] = kept[r]
      /\ started'[r] = started[r] /\ doomed'[r] = doomed[r] /\ before'[r] = before[r]
      /\ idx'[r] = idx[r] + 1
      /\ unit' = unit /\ files' = files
      /\ unit[target[r]] = "active" /\ idx[r] \in Parts
  BY DEF PodStarted, Goto, Step, DowntimeInv, TypeInv, TypeOK, PhaseOK, LoopLabels, Removing,
         world, local, NextPart
<1>3. LiveHasDir'
  BY <1>2 DEF DowntimeInv, LiveHasDir, Live
<1>4. /\ RunInv(r) /\ target[r] \in Names /\ idx[r] \in 1..(NumParts + 1)
      /\ before[r] \subseteq Names /\ kept[r] \subseteq Names /\ cand[r] \subseteq Names
      /\ started[r] \subseteq Names /\ doomed[r] \subseteq Names
  BY DEF DowntimeInv, TypeInv, TypeOK
<1>5. StoppedFirst(r)'
  BY <1>2, <1>4 DEF RunInv, StoppedFirst, Live
<1>6. ASSUME RollingOut(r) PROVE BeforeServes(r)'
  BY <1>2, <1>4, <1>6, PartsFacts
  DEF RunInv, RolloutInv, BeforeServes, Removing, Making, Starting
<1>7. ASSUME RollingOut(r) PROVE SettledServes(r)'
  <2>1. SettledServes(r) /\ target[r] \in kept[r] /\ target[r][1] = idx[r]
    BY <1>2, <1>4, <1>7 DEF RunInv, RolloutInv, AtHand, Starting
  <2> QED
    BY <1>2, <1>4, <2>1, PartSettles
<1>8. ASSUME RollingOut(r) PROVE AtHand(r)'
  BY <1>2, <1>4, <1>8, PartsFacts DEF RunInv, RolloutInv, AtHand, Removing, Making, Starting
<1>9. ASSUME RollingOut(r) PROVE KeepsKept(r)'
  BY <1>2, <1>4, <1>9, PartsFacts DEF RunInv, RolloutInv, KeepsKept, Removing, Starting
<1>10. RunInv(r)'
  BY <1>2, <1>5, <1>6, <1>7, <1>8, <1>9 DEF RunInv, RolloutInv, RollingOut, Idle
<1> QED
  BY <1>1, <1>3, <1>10, GoOn

LEMMA LaunchPodKeeps ==
  ASSUME DowntimeInv, TypeInv', NEW r \in Runs, LaunchPod(r)
  PROVE  DowntimeInv'
<1>1. Busy(r) /\ Goto(r, "await")
  BY DEF LaunchPod, Busy, Idle, Step, NextPart
<1>2. /\ pc[r] = "launch" /\ pc'[r] = "await"
      /\ mode'[r] = mode[r] /\ idx'[r] = idx[r] /\ cand'[r] = cand[r] /\ target'[r] = target[r]
      /\ kept'[r] = kept[r] /\ doomed'[r] = doomed[r] /\ before'[r] = before[r]
      /\ started'[r] = started[r] \union {target[r]}
      /\ files' = files /\ idx[r] \in Parts /\ RollingOut(r)
      /\ (unit[target[r]] = "active" => unit'[target[r]] = "active")
      /\ \A e \in Names : e # target[r] => unit'[e] = unit[e]
  BY DEF LaunchPod, Goto, Step, DowntimeInv, TypeInv, TypeOK, PhaseOK, LoopLabels, Removing,
         world, local, Remember, AfterStartJob, RollingOut, Idle
<1>3. LiveHasDir'
  <2>1. "dir" \in files[target[r]]
    BY <1>2 DEF DowntimeInv, RunInv, RolloutInv, AtHand, Starting
  <2> QED
    BY <1>2, <2>1 DEF DowntimeInv, LiveHasDir, Live
<1>4. /\ RunInv(r) /\ target[r] \in Names /\ idx[r] \in 1..(NumParts + 1)
      /\ before[r] \subseteq Names /\ kept[r] \subseteq Names /\ cand[r] \subseteq Names
      /\ started[r] \subseteq Names /\ doomed[r] \subseteq Names
  BY DEF DowntimeInv, TypeInv, TypeOK
<1>5. StoppedFirst(r)'
  BY <1>2, <1>4 DEF RunInv, StoppedFirst, Live
<1>6. ASSUME RollingOut(r) PROVE BeforeServes(r)'
  BY <1>2, <1>4, <1>6, PartsFacts
  DEF RunInv, RolloutInv, BeforeServes, Removing, Making, Starting
<1>7. ASSUME RollingOut(r) PROVE SettledServes(r)'
  BY <1>2, <1>4, <1>7, PartsFacts DEF RunInv, RolloutInv, SettledServes
<1>8. ASSUME RollingOut(r) PROVE AtHand(r)'
  BY <1>2, <1>4, <1>8, PartsFacts DEF RunInv, RolloutInv, AtHand, Removing, Making, Starting
<1>9. ASSUME RollingOut(r) PROVE KeepsKept(r)'
  BY <1>2, <1>4, <1>9, PartsFacts DEF RunInv, RolloutInv, KeepsKept, Removing, Starting
<1>10. RunInv(r)'
  BY <1>2, <1>5, <1>6, <1>7, <1>8, <1>9 DEF RunInv, RolloutInv, RollingOut, Idle
<1> QED
  BY <1>1, <1>3, <1>10, GoOn

\* A removal goes on to its next step, back to the cleanup or to the creation.
LEMMA RemovalGoesOn ==
  ASSUME DowntimeInv, TypeInv', NEW r \in Runs, NEW label \in {"rmfiles", "mkdir", "cleanup"},
         Step(r, label), pc[r] \in {"stopping", "rmdir"}, UNCHANGED unit,
         \/ UNCHANGED files
         \/ pc[r] = "rmdir" /\ files' = [files EXCEPT ![target[r]] = {}],
         label = "cleanup" => mode[r] = "stop" \/ idx[r] = NumParts + 1
  PROVE  DowntimeInv'
<1>1. Busy(r) /\ Goto(r, label)
  BY DEF Busy, Idle, Step
<1>2. /\ pc'[r] = label /\ label \notin Starting \union {"show", "undo", "undoing", "stop"}
      /\ UNCHANGED <<mode, idx, cand, target, kept, started, doomed, before>>
  BY DEF Step, Goto, local, Starting, DowntimeInv, TypeInv, TypeOK
<1>3. RunInv(r) /\ target[r] \in Names
  BY DEF DowntimeInv, TypeInv, TypeOK
<1>4. LiveHasDir'
  BY <1>3 DEF DowntimeInv, TypeInv, TypeOK, LiveHasDir, RunInv, StoppedFirst
<1>5. StoppedFirst(r)'
  BY <1>2, <1>3 DEF RunInv, StoppedFirst
<1>6. ASSUME RollingOut(r) PROVE BeforeServes(r)'
  BY <1>2, <1>3, <1>6 DEF RunInv, RolloutInv, BeforeServes, Removing, Making, Starting
<1>7. ASSUME RollingOut(r) PROVE SettledServes(r)'
  BY <1>2, <1>3, <1>7 DEF RunInv, RolloutInv, SettledServes
<1>8. ASSUME RollingOut(r) PROVE AtHand(r)'
  BY <1>2, <1>3, <1>8 DEF RunInv, RolloutInv, AtHand, Removing, Making
<1>9. ASSUME RollingOut(r) PROVE KeepsKept(r)'
  BY <1>2, <1>3, <1>9 DEF RunInv, RolloutInv, KeepsKept, Removing
<1>10. RunInv(r)'
  BY <1>1, <1>2, <1>5, <1>6, <1>7, <1>8, <1>9 DEF RunInv, RolloutInv, RollingOut, Busy
<1> QED
  BY <1>1, <1>4, <1>10, GoOn

\* A removal that fails is logged in the cleanup and ends a creation.
LEMMA RemovalFails ==
  ASSUME DowntimeInv, TypeInv', NEW r \in Runs, RemoveFails(r), UNCHANGED world,
         pc[r] \in {"stopping", "rmdir"}
  PROVE  DowntimeInv'
<1>1. CASE InCleanup(r)
  <2>1. Step(r, "cleanup") /\ idx[r] = NumParts + 1
    BY <1>1, PartsFacts, NumPartsAssumption
    DEF RemoveFails, InCleanup, DowntimeInv, TypeInv, TypeOK
  <2> QED
    BY <2>1, RemovalGoesOn DEF world
<1>2. CASE ~InCleanup(r)
  BY <1>2, EndsQuietly DEF RemoveFails, Idle, Fails
<1> QED
  BY <1>1, <1>2

LEMMA UnitStoppedKeeps ==
  ASSUME DowntimeInv, TypeInv', NEW r \in Runs, UnitStopped(r)
  PROVE  DowntimeInv'
<1>1. CASE Step(r, IF mode[r] = "stop" THEN "cleanup" ELSE "rmfiles")
  BY <1>1, RemovalGoesOn DEF UnitStopped, world
<1>2. CASE RemoveFails(r)
  BY <1>2, RemovalFails DEF UnitStopped
<1> QED
  BY <1>1, <1>2 DEF UnitStopped

LEMMA StopTimesOutKeeps ==
  ASSUME DowntimeInv, TypeInv', NEW r \in Runs, StopTimesOut(r)
  PROVE  DowntimeInv'
<1>1. CASE Step(r, "rmfiles")
  BY <1>1, RemovalGoesOn DEF StopTimesOut, world
<1>2. CASE RemoveFails(r)
  BY <1>2, RemovalFails DEF StopTimesOut
<1> QED
  BY <1>1, <1>2 DEF StopTimesOut

LEMMA RemoveDirKeeps ==
  ASSUME DowntimeInv, TypeInv', NEW r \in Runs, RemoveDir(r)
  PROVE  DowntimeInv'
<1>1. CASE files[target[r]] \subseteq {"dir"}
  <2>1. /\ files' = [files EXCEPT ![target[r]] = {}] /\ pc[r] = "rmdir" /\ unit' = unit
        /\ Step(r, IF InCleanup(r) THEN "cleanup" ELSE "mkdir")
    BY <1>1 DEF RemoveDir
  <2>2. InCleanup(r) => idx[r] = NumParts + 1
    BY PartsFacts, NumPartsAssumption DEF InCleanup, DowntimeInv, TypeInv, TypeOK
  <2> QED
    BY <2>1, <2>2, RemovalGoesOn
<1>2. CASE ~ (files[target[r]] \subseteq {"dir"})
  BY <1>2, RemovalFails DEF RemoveDir, world
<1> QED
  BY <1>1, <1>2

\* A step of the creation adds files, or changes nothing of the directories.
LEMMA CreationGoesOn ==
  ASSUME DowntimeInv, TypeInv', NEW r \in Runs, NEW label \in {"seed", "launch"},
         Goto(r, label), pc[r] \in Making, UNCHANGED <<unit, mode, idx, started, doomed, before>>,
         target' = target, NEW f \in Files, "dir" \in files[target[r]],
         files' = [files EXCEPT ![target[r]] = @ \union {f}],
         \/ kept' = kept /\ label = "seed"
         \/ kept' = [kept EXCEPT ![r] = @ \union {target[r]}]
  PROVE  DowntimeInv'
<1>1. Busy(r) /\ RollingOut(r)
  BY DEF Busy, Idle, Making, RollingOut, DowntimeInv, TypeInv, PhaseOK, LoopLabels
<1>2. /\ pc'[r] = label /\ idx[r] \in Parts
      /\ kept[r] \subseteq kept'[r] /\ (label = "launch" => target[r] \in kept'[r])
      /\ RunInv(r) /\ target[r] \in Names
  BY DEF Goto, Making, DowntimeInv, TypeInv, TypeOK, PhaseOK, LoopLabels
<1>3. \A d \in Names : files[d] \subseteq files'[d]
  BY DEF DowntimeInv, TypeInv, TypeOK
<1>4. LiveHasDir'
  BY <1>3 DEF DowntimeInv, LiveHasDir
<1>5. StoppedFirst(r)'
  BY <1>2 DEF StoppedFirst
<1>6. BeforeServes(r)'
  BY <1>1, <1>2 DEF RunInv, RolloutInv, BeforeServes, Making
<1>7. SettledServes(r)'
  BY <1>1, <1>2 DEF RunInv, RolloutInv, SettledServes, Making
<1>8. AtHand(r)'
  BY <1>1, <1>2, <1>3 DEF RunInv, RolloutInv, AtHand, Making, Starting
<1>9. KeepsKept(r)'
  BY <1>2, PartsFacts DEF KeepsKept
<1> QED
  BY <1>1, <1>4, <1>5, <1>6, <1>7, <1>8, <1>9, GoOn DEF RunInv, RolloutInv

LEMMA SymlinkConfigKeeps ==
  ASSUME DowntimeInv, TypeInv', NEW r \in Runs, SymlinkConfig(r)
  PROVE  DowntimeInv'
<1>1. CASE "dir" \in files[target[r]] /\ "link" \notin files[target[r]]
  BY <1>1, CreationGoesOn DEF SymlinkConfig, Step, local, Making, Files
<1>2. CASE ~ ("dir" \in files[target[r]] /\ "link" \notin files[target[r]])
  BY <1>2, EndsQuietly DEF SymlinkConfig, Idle, Fails, world
<1> QED
  BY <1>1, <1>2

LEMMA WriteSeedKeeps ==
  ASSUME DowntimeInv, TypeInv', NEW r \in Runs, WriteSeed(r)
  PROVE  DowntimeInv'
<1>1. CASE {"dir", "link"} \subseteq files[target[r]]
  <2>1. /\ pc[r] = "seed" /\ files' = [files EXCEPT ![target[r]] = @ \union {"seed"}]
        /\ Goto(r, "launch") /\ Keep(r, target[r])
        /\ UNCHANGED <<unit, mode, idx, started, doomed, before>>
    BY <1>1 DEF WriteSeed
  <2>2. target' = target /\ kept' = [kept EXCEPT ![r] = @ \union {target[r]}]
    BY <2>1 DEF Keep, DowntimeInv, TypeInv, TypeOK
  <2> QED
    BY <1>1, <2>1, <2>2, CreationGoesOn DEF Making, Files
<1>2. CASE ~ ({"dir", "link"} \subseteq files[target[r]])
  <2>1. Fails(r) /\ unit' = unit /\ Busy(r)
    BY <1>2 DEF WriteSeed, Busy, Idle, Fails
  <2>2. \A d \in Names : files[d] \subseteq files'[d]
    <3>1. files' = [files EXCEPT ![target[r]] = @ \union {"seed"}] \/ files' = files
      BY DEF WriteSeed
    <3>2. files \in [Names -> SUBSET Files]
      BY DEF DowntimeInv, TypeInv, TypeOK
    <3>3. CASE files' = [files EXCEPT ![target[r]] = @ \union {"seed"}]
      <4> SUFFICES ASSUME NEW d \in Names PROVE files[d] \subseteq files'[d]
        OBVIOUS
      <4>1. files'[d] = IF d = target[r] THEN files[d] \union {"seed"} ELSE files[d]
        BY <3>2, <3>3
      <4> QED
        BY <4>1
    <3> QED
      BY <3>1, <3>3
  <2>3. LiveHasDir'
    BY <2>1, <2>2 DEF DowntimeInv, LiveHasDir
  <2> QED
    BY <2>1, <2>3, Ends DEF Idle, Fails
<1> QED
  BY <1>1, <1>2

LEMMA UndoKeeps ==
  ASSUME PodsSerialised, DowntimeInv, TypeInv', NEW r \in Runs, Undo(r)
  PROVE  DowntimeInv'
<1>1. CASE started[r] = {}
  BY <1>1, EndsQuietly DEF Undo, Idle, Fails, world
<1>2. CASE started[r] # {}
  <2>1. PICK d \in started[r] :
          /\ unit' = [unit EXCEPT ![d] = AfterStopJob(@)]
          /\ Goto(r, "undoing")
          /\ UNCHANGED <<mode, idx, kept, started, doomed, before>>
    BY <1>2 DEF Undo, IsFunction, PodsSerialised
  <2>2. /\ Busy(r) /\ RollingOut(r) /\ RunInv(r) /\ files' = files /\ pc'[r] = "undoing"
        /\ idx[r] \in Parts /\ started[r] \subseteq Names /\ before[r] \subseteq Names
    BY <2>1
    DEF Undo, Busy, RollingOut, Idle, Goto, DowntimeInv, TypeInv, TypeOK, PhaseOK, LoopLabels
  <2>3. LiveHasDir'
    BY <2>1, <2>2 DEF DowntimeInv, TypeInv, TypeOK, LiveHasDir, AfterStopJob, Live
  <2>4. \A e \in before[r] : unit'[e] = "active"
    BY <2>1, <2>2 DEF RunInv, RolloutInv, BeforeServes, DowntimeInv, TypeInv, TypeOK
  <2>5. BeforeServes(r)'
    BY <2>1, <2>2, <2>4 DEF RunInv, RolloutInv, BeforeServes, Removing, Making, Starting
  <2>6. SettledServes(r)' /\ AtHand(r)' /\ KeepsKept(r)' /\ StoppedFirst(r)'
    BY <2>1, <2>2, PartsFacts
    DEF SettledServes, AtHand, KeepsKept, StoppedFirst, Removing, Making, Starting
  <2> QED
    BY <2>1, <2>2, <2>3, <2>5, <2>6, GoOn DEF RunInv, RolloutInv
<1> QED
  BY <1>1, <1>2

\* DowntimeInv is inductive.
LEMMA DowntimeStep == PodsSerialised /\ DowntimeInv /\ [Next]_vars => DowntimeInv'
<1> SUFFICES ASSUME PodsSerialised, DowntimeInv, [Next]_vars PROVE DowntimeInv'
  OBVIOUS
<1> TypeInv'
  BY TypeStep DEF DowntimeInv
<1>1. CASE UNCHANGED <<files, unit, pc, mode, idx, cand, target, kept, started, doomed, before>>
  BY <1>1
  DEF DowntimeInv, Alone, Busy, LiveHasDir, RunInv, StoppedFirst, RolloutInv, RollingOut,
      BeforeServes, SettledServes, AtHand, KeepsKept
<1>2. ASSUME NEW p \in Parts, NEW id \in PartIds, EditConfig(p, id) PROVE DowntimeInv'
  BY <1>2, <1>1 DEF EditConfig, local
<1>3. ASSUME NEW d \in Names, UnitUp(d) PROVE DowntimeInv'
  BY <1>3, UnitMoves DEF UnitUp, UnitStates
<1>4. ASSUME NEW d \in Names, UnitFails(d) PROVE DowntimeInv'
  BY <1>4, UnitMoves DEF UnitFails, UnitStates
<1>5. ASSUME NEW d \in Names, UnitDown(d) PROVE DowntimeInv'
  BY <1>5, UnitMoves DEF UnitDown, UnitStates, Live
<1>6. ASSUME NEW d \in Names, UnitCrashes(d) PROVE DowntimeInv'
  BY <1>6, NumPartsAssumption DEF UnitCrashes, Fault, PodsSerialised
<1>7. ASSUME NEW r \in Runs, NEW m \in AllModes, Begin(r, m) PROVE DowntimeInv'
  BY <1>7, BeginKeeps
<1>8. ASSUME NEW r \in Runs, NEW m \in AllModes, BeginFails(r, m) PROVE DowntimeInv'
  BY <1>8, EndsQuietly DEF BeginFails, Idle, Fails
<1>9. ASSUME NEW r \in Runs, ListFails(r) PROVE DowntimeInv'
  BY <1>9, EndsQuietly DEF ListFails, Idle, Fails, world
<1>10. ASSUME NEW r \in Runs, Killed(r) PROVE DowntimeInv'
  BY <1>10, EndsQuietly DEF Killed, Idle
<1>11. ASSUME NEW r \in Runs, ListPart(r) PROVE DowntimeInv'
  BY <1>11, ListPartKeeps
<1>12. ASSUME NEW r \in Runs, NEW d \in Names, UseStarted(r, d) PROVE DowntimeInv'
  BY <1>12, UseStartedKeeps
<1>13. ASSUME NEW r \in Runs, NEW d \in Names, UseStarting(r, d) PROVE DowntimeInv'
  BY <1>13, UseStartingKeeps
<1>14. ASSUME NEW r \in Runs, NEW d \in Names, UseStopped(r, d) PROVE DowntimeInv'
  BY <1>14, UseStoppedKeeps
<1>15. ASSUME NEW r \in Runs, NEW i \in 1..MaxIndex, NewName(r, i) PROVE DowntimeInv'
  BY <1>15, NewNameKeeps
<1>16. ASSUME NEW r \in Runs, NamesExhausted(r) PROVE DowntimeInv'
  BY <1>16, EndsQuietly DEF NamesExhausted, Idle, Fails, world
<1>17. ASSUME NEW r \in Runs, StopUnit(r) PROVE DowntimeInv'
  BY <1>17, StopUnitKeeps
<1>18. ASSUME NEW r \in Runs, UnitStopped(r) PROVE DowntimeInv'
  BY <1>18, UnitStoppedKeeps
<1>19. ASSUME NEW r \in Runs, StopTimesOut(r) PROVE DowntimeInv'
  BY <1>19, StopTimesOutKeeps
<1>20. ASSUME NEW r \in Runs, RemoveFiles(r) PROVE DowntimeInv'
  BY <1>20, RemoveFilesKeeps
<1>21. ASSUME NEW r \in Runs, RemoveDir(r) PROVE DowntimeInv'
  BY <1>21, RemoveDirKeeps
<1>22. ASSUME NEW r \in Runs, MakeDir(r) PROVE DowntimeInv'
  BY <1>22, MakeDirKeeps
<1>23. ASSUME NEW r \in Runs, SymlinkConfig(r) PROVE DowntimeInv'
  BY <1>23, SymlinkConfigKeeps
<1>24. ASSUME NEW r \in Runs, WriteSeed(r) PROVE DowntimeInv'
  BY <1>24, WriteSeedKeeps
<1>25. ASSUME NEW r \in Runs, LaunchPod(r) PROVE DowntimeInv'
  BY <1>25, LaunchPodKeeps
<1>26. ASSUME NEW r \in Runs, LaunchFunction(r) PROVE DowntimeInv'
  BY <1>26, NumPartsAssumption DEF LaunchFunction, IsFunction, PodsSerialised
<1>27. ASSUME NEW r \in Runs, PodStarted(r) PROVE DowntimeInv'
  BY <1>27, PodStartedKeeps
<1>28. ASSUME NEW r \in Runs, PodNotStarted(r) PROVE DowntimeInv'
  BY <1>28, PodNotStartedKeeps
<1>29. ASSUME NEW r \in Runs, Undo(r) PROVE DowntimeInv'
  BY <1>29, UndoKeeps
<1>30. ASSUME NEW r \in Runs, UndoNext(r) PROVE DowntimeInv'
  BY <1>30, UndoNextKeeps
<1>31. ASSUME NEW r \in Runs, ListAll(r) PROVE DowntimeInv'
  BY <1>31, ListAllKeeps
<1>32. ASSUME NEW r \in Runs, NEW d \in Names, NextDoomed(r, d) PROVE DowntimeInv'
  BY <1>32, NextDoomedKeeps
<1>33. ASSUME NEW r \in Runs, Finish(r) PROVE DowntimeInv'
  BY <1>33, EndsQuietly DEF Finish, Idle, Fails
<1>34. ASSUME NEW r \in Runs, MonitorFails(r) PROVE DowntimeInv'
  BY <1>34, EndsQuietly DEF MonitorFails, Idle, Fails, world
<1>35. CASE UNCHANGED vars
  BY <1>1, <1>35 DEF vars, world, local
<1> QED
  BY <1>2, <1>3, <1>4, <1>5, <1>6, <1>7, <1>8, <1>9, <1>10, <1>11, <1>12, <1>13, <1>14,
     <1>15, <1>16, <1>17, <1>18, <1>19, <1>20, <1>21, <1>22, <1>23, <1>24, <1>25, <1>26,
     <1>27, <1>28, <1>29, <1>30, <1>31, <1>32, <1>33, <1>34, <1>35
  DEF Next, Systemd, Run, Choose, Remove, Create, Launch, Cleanup

\* Zero downtime, for any number of parts, names, runs, part ids, failures and
\* edits: when the operations of a service made of pods are serialised and no pod
\* dies by itself, a part that was served when a rollout began is served by some
\* deployment at every moment of the rollout, whatever fails in it.
THEOREM ZeroDowntime == ASSUME PodsSerialised PROVE Spec => []NoDowntime
<1>1. Init => DowntimeInv
  BY DowntimeInit
<1>2. DowntimeInv /\ [Next]_vars => DowntimeInv'
  BY DowntimeStep
<1>3. DowntimeInv => NoDowntime
  BY DowntimeImplies
<1> QED
  BY <1>1, <1>2, <1>3, PTL DEF Spec

(***************************************************************************)
(* Pods and functions: what the steps of a rollout, a stop and a purge may *)
(* never do, when the operations on the service are serialised.  The       *)
(* configuration of a deployment is not removed under a unit that runs, a  *)
(* stop leaves nothing running, READY comes only when each part is served  *)
(* and a part that is served stays served between reloads.                 *)
(***************************************************************************)
Halted == {"inactive", "failed"}

\* A unit that a rolling restart has killed, without waiting for it.
Loose(d) == unit[d] = "deactivating" /\ faults > 0

\* Nothing is left of the deployment but what a rolling restart has killed.
Quiet(d) == d \notin sock /\ (unit[d] \in Halted \/ (Loose(d) /\ files[d] = {}))

\* A directory is made first and removed last; a unit that does not rest has
\* its configuration, unless it was killed; and so has a socket that listens,
\* whose unit has not been stopped.
DirFirst(d) == files[d] # {} => "dir" \in files[d]
UnitLinked(d) == unit[d] \in Halted \/ "link" \in files[d] \/ Loose(d)
SockLinked(d) ==
  d \in sock => IsFunction(d) /\ "link" \in files[d] /\ unit[d] \notin {"inactive", "deactivating"}
WorldInv == \A d \in Names : DirFirst(d) /\ UnitLinked(d) /\ SockLinked(d)

\* What is being removed has been stopped, and its unit has ended unless a
\* rolling restart killed it.
TargetStopped(r) ==
  pc[r] \in {"stopping", "rmfiles"} =>
    /\ target[r] \notin sock
    /\ \/ unit[target[r]] \in Halted
       \/ unit[target[r]] = "deactivating" /\ (pc[r] = "rmfiles" => faults > 0 /\ mode[r] = "fresh")

\* A stop keeps nothing and removes nothing, and what is not on its list any
\* more is quiet.
StopsAll(r) ==
  mode[r] = "stop" =>
    /\ pc[r] \notin {"rmfiles", "rmdir"}
    /\ pc[r] = "listall" => kept[r] = {}
    /\ pc[r] \in {"cleanup", "stop", "stopping"} =>
         \A d \in Names : \/ d \in doomed[r] \/ (d = target[r] /\ pc[r] # "cleanup")
                          \/ Quiet(d)

\* A deployment with the configuration that the run loaded.
Matches(r, d) == Seeded(d) /\ seedId[d] = conf[r][d[1]]

\* The deployment at hand is one of the part at hand; one that is started has
\* the configuration that the run loaded, one that is to be made again is down.
PartAtHand(r) ==
  /\ pc[r] = "show" => \A d \in cand[r] : d[1] = idx[r] /\ Matches(r, d)
  /\ pc[r] \in Making \union Removing /\ idx[r] \in Parts => target[r][1] = idx[r]
  /\ pc[r] = "stop" /\ idx[r] \in Parts => unit[target[r]] = "inactive"
  /\ pc[r] \in Starting => target[r] \in kept[r] /\ target[r][1] = idx[r] /\ Matches(r, target[r])
  /\ pc[r] = "await" => ~IsFunction(target[r])

\* The parts that a rollout is through with are served by deployments that it
\* keeps and that have the configuration it loaded.
PartsServed(r) ==
  "crash" \notin FaultKinds /\ pc[r] \notin {"undo", "undoing"} =>
    \A p \in Parts : p < idx[r] =>
      \E d \in kept[r] : d[1] = p /\ Serving(d) /\ seedId[d] = conf[r][p]

StepsInv(r) ==
  /\ TargetStopped(r) /\ StopsAll(r)
  /\ RollingOut(r) => PartAtHand(r) /\ PartsServed(r) /\ KeepsKept(r)

SerialInv == TypeInv /\ Alone /\ WorldInv /\ \A r \in Runs : StepsInv(r)
-----------------------------------------------------------------------------
LEMMA SerialInit == Init => SerialInv
<1> SUFFICES ASSUME Init PROVE SerialInv
  OBVIOUS
<1>1. TypeInv
  BY TypeInit
<1>2. \A r \in Runs : ~Busy(r)
  BY DEF Init, Busy, Idle
<1>3. WorldInv
  BY DEF Init, WorldInv, DirFirst, UnitLinked, SockLinked, Halted
<1>4. \A r \in Runs : StepsInv(r)
  BY DEF Init, StepsInv, TargetStopped, StopsAll, RollingOut, Idle
<1> QED
  BY <1>1, <1>2, <1>3, <1>4 DEF SerialInv, Alone

\* The types of what a run works with.
LEMMA RunFacts ==
  ASSUME TypeInv, NEW r \in Runs
  PROVE  /\ mode[r] \in AllModes /\ idx[r] \in 1..(NumParts + 1) /\ target[r] \in Names
         /\ cand[r] \subseteq Names /\ kept[r] \subseteq Names /\ doomed[r] \subseteq Names
         /\ started[r] \subseteq Names
BY DEF TypeInv, TypeOK

\* A failure that is counted stays counted.
LEMMA FaultsStay ==
  ASSUME TypeInv, UNCHANGED budget \/ \E kind : Fault(kind)
  PROVE  faults > 0 => faults' > 0
BY FaultsAssumption DEF TypeInv, TypeOK, Fault, budget

\* What a step that leaves the deployments alone leaves true.
LEMMA SameWorld ==
  ASSUME UNCHANGED <<files, seedId, unit, sock>>, faults > 0 => faults' > 0
  PROVE  /\ \A d : (Quiet(d) => Quiet(d)') /\ (Loose(d) => Loose(d)')
         /\ \A d : (Serving(d)' <=> Serving(d)) /\ (Seeded(d)' <=> Seeded(d))
         /\ WorldInv => WorldInv'
<1>1. \A d : (Quiet(d) => Quiet(d)') /\ (Loose(d) => Loose(d)')
  BY DEF Quiet, Loose
<1>2. \A d : (Serving(d)' <=> Serving(d)) /\ (Seeded(d)' <=> Seeded(d))
  BY DEF Serving, Seeded, IsFunction
<1>3. WorldInv => WorldInv'
  BY <1>1 DEF WorldInv, DirFirst, UnitLinked, SockLinked, IsFunction
<1> QED
  BY <1>1, <1>2, <1>3

\* A run that is not part of a step.
LEMMA OtherRun ==
  ASSUME SerialInv, NEW q \in Runs, UNCHANGED <<files, seedId, unit, sock>>,
         faults > 0 => faults' > 0, pc'[q] = pc[q], mode'[q] = mode[q], conf'[q] = conf[q],
         idx'[q] = idx[q], cand'[q] = cand[q], target'[q] = target[q], kept'[q] = kept[q],
         doomed'[q] = doomed[q]
  PROVE  StepsInv(q)'
<1>1. StepsInv(q)
  BY DEF SerialInv
<1>2. TargetStopped(q)' /\ StopsAll(q)'
  BY <1>1, SameWorld DEF StepsInv, TargetStopped, StopsAll
<1>3. RollingOut(q)' => RollingOut(q)
  BY DEF RollingOut
<1>4. PartAtHand(q) => PartAtHand(q)'
  BY SameWorld DEF PartAtHand, Matches, IsFunction
<1>5. PartsServed(q) => PartsServed(q)'
  BY SameWorld DEF PartsServed
<1>6. KeepsKept(q) => KeepsKept(q)'
  BY DEF KeepsKept
<1> QED
  BY <1>1, <1>2, <1>3, <1>4, <1>5, <1>6 DEF StepsInv

\* A step of the only run that is under way.
LEMMA TheRunGoesOn ==
  ASSUME SerialInv, TypeInv', NEW r \in Runs, Busy(r), NEW label, Goto(r, label),
         WorldInv', StepsInv(r)'
  PROVE  SerialInv'
<1>1. \A q \in Runs : q # r => pc'[q] = pc[q] /\ ~Busy(q)
  BY DEF SerialInv, TypeInv, TypeOK, Goto, Alone
<1>2. Alone'
  BY <1>1 DEF Alone, Busy
<1>3. ASSUME NEW q \in Runs, q # r PROVE StepsInv(q)'
  BY <1>1, <1>3 DEF StepsInv, TargetStopped, StopsAll, RollingOut, Busy, Idle
<1> QED
  BY <1>2, <1>3 DEF SerialInv

\* A run that ends.
LEMMA TheRunIsOver ==
  ASSUME SerialInv, TypeInv', NEW r \in Runs, NEW label \in Idle \union {"monitor"},
         End(r, label), faults > 0 => faults' > 0, WorldInv',
         Busy(r) \/ UNCHANGED <<files, seedId, unit, sock>>
  PROVE  SerialInv'
<1>1. pc'[r] = label /\ \A q \in Runs : q # r => pc'[q] = pc[q]
  BY DEF End, Goto, SerialInv, TypeInv, TypeOK
<1>2. Alone'
  BY <1>1 DEF Alone, Busy, SerialInv, Idle
<1>3. StepsInv(r)'
  BY <1>1 DEF StepsInv, TargetStopped, StopsAll, RollingOut, Idle
<1>4. ASSUME NEW q \in Runs, q # r PROVE StepsInv(q)'
  <2>1. CASE Busy(r)
    <3>1. ~Busy(q)
      BY <1>4, <2>1 DEF SerialInv, Alone
    <3> QED
      BY <1>1, <1>4, <3>1 DEF StepsInv, TargetStopped, StopsAll, RollingOut, Busy, Idle
  <2>2. CASE UNCHANGED <<files, seedId, unit, sock>>
    <3>1. /\ mode'[q] = mode[q] /\ conf'[q] = conf[q] /\ idx'[q] = idx[q]
          /\ cand'[q] = cand[q] /\ target'[q] = target[q] /\ kept'[q] = kept[q]
          /\ doomed'[q] = doomed[q]
      BY <1>4 DEF End, SerialInv, TypeInv, TypeOK
    <3> QED
      BY <1>1, <1>4, <2>2, <3>1, OtherRun
  <2> QED
    BY <2>1, <2>2
<1> QED
  BY <1>2, <1>3, <1>4 DEF SerialInv

\* A run ends or gives up and leaves the world as it is.
LEMMA TheRunGivesUp ==
  ASSUME SerialInv, TypeInv', NEW r \in Runs, NEW label \in Idle \union {"monitor"},
         End(r, label), UNCHANGED world, UNCHANGED budget \/ \E kind : Fault(kind)
  PROVE  SerialInv'
BY FaultsStay, SameWorld, TheRunIsOver DEF SerialInv, world

LEMMA ListPartSteps ==
  ASSUME SerialInv, TypeInv', NEW r \in Runs, ListPart(r)
  PROVE  SerialInv'
<1>1. Busy(r) /\ UNCHANGED <<files, seedId, unit, sock>> /\ (faults > 0 => faults' > 0) /\ WorldInv'
  <2>1. UNCHANGED world /\ (UNCHANGED budget \/ \E kind : Fault(kind))
    BY DEF ListPart
  <2>2. UNCHANGED <<files, seedId, unit, sock>> /\ (faults > 0 => faults' > 0)
    BY <2>1, FaultsStay DEF world, SerialInv
  <2>3. Busy(r)
    BY DEF ListPart, Busy, Idle
  <2> QED
    BY <2>2, <2>3, SameWorld DEF SerialInv
<1>2. /\ pc[r] = "list" /\ pc'[r] = "show"
      /\ mode'[r] = mode[r] /\ conf'[r] = conf[r] /\ idx'[r] = idx[r] /\ target'[r] = target[r]
      /\ kept'[r] = kept[r] /\ doomed'[r] = doomed[r]
      /\ idx[r] \in Parts /\ mode[r] \in RolloutModes
      /\ cand'[r] = {d \in Names : d[1] = idx[r] /\ Seeded(d) /\ seedId[d] = conf[r][idx[r]]}
  BY DEF ListPart, Goto, Step, SerialInv, TypeInv, TypeOK, PhaseOK, LoopLabels, Removing,
         local
<1>3. StepsInv(r) /\ TypeInv
  BY DEF SerialInv
<1>4. TargetStopped(r)' /\ StopsAll(r)'
  BY <1>1, <1>2, <1>3, RunFacts, SameWorld
  DEF StepsInv, TargetStopped, StopsAll, RolloutModes
<1>5. ASSUME RollingOut(r) PROVE PartAtHand(r)'
  BY <1>1, <1>2, <1>3, <1>5, RunFacts, PartsFacts, SameWorld
  DEF StepsInv, PartAtHand, Matches, Removing, Making, Starting, IsFunction
<1>6. ASSUME RollingOut(r) PROVE PartsServed(r)'
  BY <1>1, <1>2, <1>3, <1>6, RunFacts, PartsFacts, SameWorld DEF StepsInv, PartsServed
<1>7. ASSUME RollingOut(r) PROVE KeepsKept(r)'
  BY <1>1, <1>2, <1>3, <1>7, RunFacts, PartsFacts DEF StepsInv, KeepsKept, Removing
<1>8. StepsInv(r)'
  BY <1>2, <1>4, <1>5, <1>6, <1>7 DEF StepsInv, RollingOut, Idle
<1>9. Goto(r, "show")
  BY DEF ListPart, Step
<1> QED
  BY <1>1, <1>8, <1>9, TheRunGoesOn

LEMMA UseStartingSteps ==
  ASSUME SerialInv, TypeInv', NEW r \in Runs, NEW d \in Names, UseStarting(r, d)
  PROVE  SerialInv'
<1>1. Busy(r) /\ UNCHANGED <<files, seedId, unit, sock>> /\ (faults > 0 => faults' > 0) /\ WorldInv'
  <2>1. UNCHANGED world /\ (UNCHANGED budget \/ \E kind : Fault(kind))
    BY DEF UseStarting
  <2>2. UNCHANGED <<files, seedId, unit, sock>> /\ (faults > 0 => faults' > 0)
    BY <2>1, FaultsStay DEF world, SerialInv
  <2>3. Busy(r)
    BY DEF UseStarting, Busy, Idle
  <2> QED
    BY <2>2, <2>3, SameWorld DEF SerialInv
<1>2. /\ pc[r] = "show" /\ pc'[r] = "launch"
      /\ mode'[r] = mode[r] /\ conf'[r] = conf[r] /\ idx'[r] = idx[r] /\ cand'[r] = cand[r]
      /\ doomed'[r] = doomed[r]
      /\ target'[r] = d /\ kept'[r] = kept[r] \union {d}
      /\ d \in cand[r] /\ idx[r] \in Parts /\ mode[r] \in RolloutModes
  BY DEF UseStarting, Goto, Step, SerialInv, TypeInv, TypeOK, PhaseOK, LoopLabels, Removing,
         local, Keep, InState
<1>3. StepsInv(r) /\ TypeInv
  BY DEF SerialInv
<1>4. TargetStopped(r)' /\ StopsAll(r)'
  BY <1>1, <1>2, <1>3, RunFacts, SameWorld
  DEF StepsInv, TargetStopped, StopsAll, RolloutModes
<1>5. ASSUME RollingOut(r) PROVE PartAtHand(r)'
  BY <1>1, <1>2, <1>3, <1>5, RunFacts, PartsFacts, SameWorld
  DEF StepsInv, PartAtHand, Matches, Removing, Making, Starting, IsFunction
<1>6. ASSUME RollingOut(r) PROVE PartsServed(r)'
  BY <1>1, <1>2, <1>3, <1>6, RunFacts, PartsFacts, SameWorld DEF StepsInv, PartsServed
<1>7. ASSUME RollingOut(r) PROVE KeepsKept(r)'
  BY <1>1, <1>2, <1>3, <1>7, RunFacts, PartsFacts DEF StepsInv, KeepsKept, Removing
<1>8. StepsInv(r)'
  BY <1>2, <1>4, <1>5, <1>6, <1>7 DEF StepsInv, RollingOut, Idle
<1>9. Goto(r, "launch")
  BY DEF UseStarting, Step
<1> QED
  BY <1>1, <1>8, <1>9, TheRunGoesOn

LEMMA UseStoppedSteps ==
  ASSUME SerialInv, TypeInv', NEW r \in Runs, NEW d \in Names, UseStopped(r, d)
  PROVE  SerialInv'
<1>1. Busy(r) /\ UNCHANGED <<files, seedId, unit, sock>> /\ (faults > 0 => faults' > 0) /\ WorldInv'
  <2>1. UNCHANGED world /\ (UNCHANGED budget \/ \E kind : Fault(kind))
    BY DEF UseStopped
  <2>2. UNCHANGED <<files, seedId, unit, sock>> /\ (faults > 0 => faults' > 0)
    BY <2>1, FaultsStay DEF world, SerialInv
  <2>3. Busy(r)
    BY DEF UseStopped, Busy, Idle
  <2> QED
    BY <2>2, <2>3, SameWorld DEF SerialInv
<1>2. /\ pc[r] = "show" /\ pc'[r] = "stop"
      /\ mode'[r] = mode[r] /\ conf'[r] = conf[r] /\ idx'[r] = idx[r] /\ cand'[r] = cand[r]
      /\ kept'[r] = kept[r] /\ doomed'[r] = doomed[r]
      /\ target'[r] = d
      /\ d \in cand[r] /\ unit[d] = "inactive" /\ idx[r] \in Parts /\ mode[r] \in RolloutModes
  BY DEF UseStopped, Goto, Step, SerialInv, TypeInv, TypeOK, PhaseOK, LoopLabels, Removing,
         local, InState
<1>3. StepsInv(r) /\ TypeInv
  BY DEF SerialInv
<1>4. TargetStopped(r)' /\ StopsAll(r)'
  BY <1>1, <1>2, <1>3, RunFacts, SameWorld
  DEF StepsInv, TargetStopped, StopsAll, RolloutModes
<1>5. ASSUME RollingOut(r) PROVE PartAtHand(r)'
  BY <1>1, <1>2, <1>3, <1>5, RunFacts, PartsFacts, SameWorld
  DEF StepsInv, PartAtHand, Matches, Removing, Making, Starting, IsFunction
<1>6. ASSUME RollingOut(r) PROVE PartsServed(r)'
  BY <1>1, <1>2, <1>3, <1>6, RunFacts, PartsFacts, SameWorld DEF StepsInv, PartsServed
<1>7. ASSUME RollingOut(r) PROVE KeepsKept(r)'
  BY <1>1, <1>2, <1>3, <1>7, RunFacts, PartsFacts DEF StepsInv, KeepsKept, Removing
<1>8. StepsInv(r)'
  BY <1>2, <1>4, <1>5, <1>6, <1>7 DEF StepsInv, RollingOut, Idle
<1>9. Goto(r, "stop")
  BY DEF UseStopped, Step
<1> QED
  BY <1>1, <1>8, <1>9, TheRunGoesOn

LEMMA NewNameSteps ==
  ASSUME SerialInv, TypeInv', NEW r \in Runs, NEW i \in 1..MaxIndex, NewName(r, i)
  PROVE  SerialInv'
<1>1. Busy(r) /\ UNCHANGED <<files, seedId, unit, sock>> /\ (faults > 0 => faults' > 0) /\ WorldInv'
  <2>1. UNCHANGED world /\ (UNCHANGED budget \/ \E kind : Fault(kind))
    BY DEF NewName
  <2>2. UNCHANGED <<files, seedId, unit, sock>> /\ (faults > 0 => faults' > 0)
    BY <2>1, FaultsStay DEF world, SerialInv
  <2>3. Busy(r)
    BY DEF NewName, Busy, Idle
  <2> QED
    BY <2>2, <2>3, SameWorld DEF SerialInv
<1>2. /\ pc[r] = "show" /\ pc'[r] = "mkdir"
      /\ mode'[r] = mode[r] /\ conf'[r] = conf[r] /\ idx'[r] = idx[r] /\ cand'[r] = cand[r]
      /\ kept'[r] = kept[r] /\ doomed'[r] = doomed[r]
      /\ target'[r] = <<idx[r], i>>
      /\ idx[r] \in Parts /\ mode[r] \in RolloutModes
  BY DEF NewName, Goto, Step, SerialInv, TypeInv, TypeOK, PhaseOK, LoopLabels, Removing,
         local
<1>3. StepsInv(r) /\ TypeInv
  BY DEF SerialInv
<1>4. TargetStopped(r)' /\ StopsAll(r)'
  BY <1>1, <1>2, <1>3, RunFacts, SameWorld
  DEF StepsInv, TargetStopped, StopsAll, RolloutModes
<1>5. ASSUME RollingOut(r) PROVE PartAtHand(r)'
  BY <1>1, <1>2, <1>3, <1>5, RunFacts, PartsFacts, SameWorld
  DEF StepsInv, PartAtHand, Matches, Removing, Making, Starting, IsFunction
<1>6. ASSUME RollingOut(r) PROVE PartsServed(r)'
  BY <1>1, <1>2, <1>3, <1>6, RunFacts, PartsFacts, SameWorld DEF StepsInv, PartsServed
<1>7. ASSUME RollingOut(r) PROVE KeepsKept(r)'
  BY <1>1, <1>2, <1>3, <1>7, RunFacts, PartsFacts DEF StepsInv, KeepsKept, Removing
<1>8. StepsInv(r)'
  BY <1>2, <1>4, <1>5, <1>6, <1>7 DEF StepsInv, RollingOut, Idle
<1>9. Goto(r, "mkdir")
  BY DEF NewName, Step
<1> QED
  BY <1>1, <1>8, <1>9, TheRunGoesOn

LEMMA PodNotStartedSteps ==
  ASSUME SerialInv, TypeInv', NEW r \in Runs, PodNotStarted(r)
  PROVE  SerialInv'
<1>1. Busy(r) /\ UNCHANGED <<files, seedId, unit, sock>> /\ (faults > 0 => faults' > 0) /\ WorldInv'
  <2>1. UNCHANGED world /\ (UNCHANGED budget \/ \E kind : Fault(kind))
    BY DEF PodNotStarted
  <2>2. UNCHANGED <<files, seedId, unit, sock>> /\ (faults > 0 => faults' > 0)
    BY <2>1, FaultsStay DEF world, SerialInv
  <2>3. Busy(r)
    BY DEF PodNotStarted, Busy, Idle
  <2> QED
    BY <2>2, <2>3, SameWorld DEF SerialInv
<1>2. /\ pc[r] = "await" /\ pc'[r] = "undo"
      /\ mode'[r] = mode[r] /\ conf'[r] = conf[r] /\ idx'[r] = idx[r] /\ cand'[r] = cand[r]
      /\ target'[r] = target[r] /\ kept'[r] = kept[r] /\ doomed'[r] = doomed[r]
      /\ idx[r] \in Parts /\ mode[r] \in RolloutModes
  BY DEF PodNotStarted, Goto, Step, SerialInv, TypeInv, TypeOK, PhaseOK, LoopLabels, Removing,
         local
<1>3. StepsInv(r) /\ TypeInv
  BY DEF SerialInv
<1>4. TargetStopped(r)' /\ StopsAll(r)'
  BY <1>1, <1>2, <1>3, RunFacts, SameWorld
  DEF StepsInv, TargetStopped, StopsAll, RolloutModes
<1>5. ASSUME RollingOut(r) PROVE PartAtHand(r)'
  BY <1>1, <1>2, <1>3, <1>5, RunFacts, PartsFacts, SameWorld
  DEF StepsInv, PartAtHand, Matches, Removing, Making, Starting, IsFunction
<1>6. ASSUME RollingOut(r) PROVE PartsServed(r)'
  BY <1>1, <1>2, <1>3, <1>6, RunFacts, PartsFacts, SameWorld DEF StepsInv, PartsServed
<1>7. ASSUME RollingOut(r) PROVE KeepsKept(r)'
  BY <1>1, <1>2, <1>3, <1>7, RunFacts, PartsFacts DEF StepsInv, KeepsKept, Removing
<1>8. StepsInv(r)'
  BY <1>2, <1>4, <1>5, <1>6, <1>7 DEF StepsInv, RollingOut, Idle
<1>9. Goto(r, "undo")
  BY DEF PodNotStarted, Step
<1> QED
  BY <1>1, <1>8, <1>9, TheRunGoesOn

LEMMA UndoNextSteps ==
  ASSUME SerialInv, TypeInv', NEW r \in Runs, UndoNext(r)
  PROVE  SerialInv'
<1>1. Busy(r) /\ UNCHANGED <<files, seedId, unit, sock>> /\ (faults > 0 => faults' > 0) /\ WorldInv'
  <2>1. UNCHANGED world /\ (UNCHANGED budget \/ \E kind : Fault(kind))
    BY DEF UndoNext
  <2>2. UNCHANGED <<files, seedId, unit, sock>> /\ (faults > 0 => faults' > 0)
    BY <2>1, FaultsStay DEF world, SerialInv
  <2>3. Busy(r)
    BY DEF UndoNext, Busy, Idle
  <2> QED
    BY <2>2, <2>3, SameWorld DEF SerialInv
<1>2. /\ pc[r] = "undoing" /\ pc'[r] = "undo"
      /\ mode'[r] = mode[r] /\ conf'[r] = conf[r] /\ idx'[r] = idx[r] /\ cand'[r] = cand[r]
      /\ target'[r] = target[r] /\ kept'[r] = kept[r] /\ doomed'[r] = doomed[r]
      /\ idx[r] \in Parts /\ mode[r] \in RolloutModes
  BY DEF UndoNext, Goto, Step, SerialInv, TypeInv, TypeOK, PhaseOK, LoopLabels, Removing,
         local
<1>3. StepsInv(r) /\ TypeInv
  BY DEF SerialInv
<1>4. TargetStopped(r)' /\ StopsAll(r)'
  BY <1>1, <1>2, <1>3, RunFacts, SameWorld
  DEF StepsInv, TargetStopped, StopsAll, RolloutModes
<1>5. ASSUME RollingOut(r) PROVE PartAtHand(r)'
  BY <1>1, <1>2, <1>3, <1>5, RunFacts, PartsFacts, SameWorld
  DEF StepsInv, PartAtHand, Matches, Removing, Making, Starting, IsFunction
<1>6. ASSUME RollingOut(r) PROVE PartsServed(r)'
  BY <1>1, <1>2, <1>3, <1>6, RunFacts, PartsFacts, SameWorld DEF StepsInv, PartsServed
<1>7. ASSUME RollingOut(r) PROVE KeepsKept(r)'
  BY <1>1, <1>2, <1>3, <1>7, RunFacts, PartsFacts DEF StepsInv, KeepsKept, Removing
<1>8. StepsInv(r)'
  BY <1>2, <1>4, <1>5, <1>6, <1>7 DEF StepsInv, RollingOut, Idle
<1>9. Goto(r, "undo")
  BY DEF UndoNext, Step
<1> QED
  BY <1>1, <1>8, <1>9, TheRunGoesOn

LEMMA NextDoomedSteps ==
  ASSUME SerialInv, TypeInv', NEW r \in Runs, NEW d \in Names, NextDoomed(r, d)
  PROVE  SerialInv'
<1>1. Busy(r) /\ UNCHANGED <<files, seedId, unit, sock>> /\ (faults > 0 => faults' > 0) /\ WorldInv'
  <2>1. UNCHANGED world /\ (UNCHANGED budget \/ \E kind : Fault(kind))
    BY DEF NextDoomed
  <2>2. UNCHANGED <<files, seedId, unit, sock>> /\ (faults > 0 => faults' > 0)
    BY <2>1, FaultsStay DEF world, SerialInv
  <2>3. Busy(r)
    BY DEF NextDoomed, Busy, Idle
  <2> QED
    BY <2>2, <2>3, SameWorld DEF SerialInv
<1>2. /\ pc[r] = "cleanup" /\ pc'[r] = "stop"
      /\ mode'[r] = mode[r] /\ conf'[r] = conf[r] /\ idx'[r] = idx[r] /\ cand'[r] = cand[r]
      /\ kept'[r] = kept[r]
      /\ target'[r] = d /\ d \in doomed[r] /\ doomed'[r] = doomed[r] \ {d}
      /\ idx[r] = NumParts + 1
  BY DEF NextDoomed, Goto, Step, SerialInv, TypeInv, TypeOK, PhaseOK, LoopLabels, Removing,
         local
<1>3. StepsInv(r) /\ TypeInv
  BY DEF SerialInv
<1>4. TargetStopped(r)' /\ StopsAll(r)'
  BY <1>1, <1>2, <1>3, RunFacts, SameWorld
  DEF StepsInv, TargetStopped, StopsAll, RolloutModes
<1>5. ASSUME RollingOut(r) PROVE PartAtHand(r)'
  BY <1>1, <1>2, <1>3, <1>5, RunFacts, PartsFacts, SameWorld
  DEF StepsInv, PartAtHand, Matches, Removing, Making, Starting, IsFunction
<1>6. ASSUME RollingOut(r) PROVE PartsServed(r)'
  BY <1>1, <1>2, <1>3, <1>6, RunFacts, PartsFacts, SameWorld DEF StepsInv, PartsServed
<1>7. ASSUME RollingOut(r) PROVE KeepsKept(r)'
  BY <1>1, <1>2, <1>3, <1>7, RunFacts, PartsFacts DEF StepsInv, KeepsKept, Removing
<1>8. StepsInv(r)'
  BY <1>2, <1>4, <1>5, <1>6, <1>7 DEF StepsInv, RollingOut, Idle
<1>9. Goto(r, "stop")
  BY DEF NextDoomed, Step
<1> QED
  BY <1>1, <1>8, <1>9, TheRunGoesOn

LEMMA ListAllSteps ==
  ASSUME SerialInv, TypeInv', NEW r \in Runs, ListAll(r)
  PROVE  SerialInv'
<1>1. Busy(r) /\ UNCHANGED <<files, seedId, unit, sock>> /\ (faults > 0 => faults' > 0) /\ WorldInv'
  <2>1. UNCHANGED world /\ (UNCHANGED budget \/ \E kind : Fault(kind))
    BY DEF ListAll
  <2>2. UNCHANGED <<files, seedId, unit, sock>> /\ (faults > 0 => faults' > 0)
    BY <2>1, FaultsStay DEF world, SerialInv
  <2>3. Busy(r)
    BY DEF ListAll, Busy, Idle
  <2> QED
    BY <2>2, <2>3, SameWorld DEF SerialInv
<1>2. /\ pc[r] = "listall" /\ pc'[r] = "cleanup"
      /\ mode'[r] = mode[r] /\ conf'[r] = conf[r] /\ idx'[r] = idx[r] /\ cand'[r] = cand[r]
      /\ target'[r] = target[r] /\ kept'[r] = kept[r]
      /\ doomed'[r] = {d \in Names : "link" \in files[d]} \ kept[r]
      /\ idx[r] = NumParts + 1 /\ ~Unreadable
  BY DEF ListAll, Goto, Step, SerialInv, TypeInv, TypeOK, PhaseOK, LoopLabels, Removing,
         local
<1>3. StepsInv(r) /\ TypeInv
  BY DEF SerialInv
<1>4. TargetStopped(r)' /\ StopsAll(r)'
  <2>1. ASSUME mode[r] = "stop", NEW d \in Names, d \notin doomed'[r] PROVE Quiet(d)
    <3>1. kept[r] = {} /\ "link" \notin files[d]
      BY <1>2, <1>3, <2>1 DEF StepsInv, StopsAll
    <3>2. files[d] = {}
      BY <1>2, <3>1 DEF Unreadable, SerialInv, WorldInv, DirFirst
    <3> QED
      BY <3>1, <3>2 DEF Quiet, SerialInv, WorldInv, UnitLinked, SockLinked
  <2> QED
    BY <1>1, <1>2, <2>1, SameWorld DEF TargetStopped, StopsAll
<1>5. ASSUME RollingOut(r) PROVE PartAtHand(r)'
  BY <1>1, <1>2, <1>3, <1>5, RunFacts, PartsFacts, SameWorld
  DEF StepsInv, PartAtHand, Matches, Removing, Making, Starting, IsFunction
<1>6. ASSUME RollingOut(r) PROVE PartsServed(r)'
  BY <1>1, <1>2, <1>3, <1>6, RunFacts, PartsFacts, SameWorld DEF StepsInv, PartsServed
<1>7. ASSUME RollingOut(r) PROVE KeepsKept(r)'
  BY <1>1, <1>2, <1>3, <1>7, RunFacts, PartsFacts DEF StepsInv, KeepsKept, Removing
<1>8. StepsInv(r)'
  BY <1>2, <1>4, <1>5, <1>6, <1>7 DEF StepsInv, RollingOut, Idle
<1>9. Goto(r, "cleanup")
  BY DEF ListAll, Step
<1> QED
  BY <1>1, <1>8, <1>9, TheRunGoesOn

\* The part at hand is settled: some deployment of it serves and is kept.
LEMMA PartSettled ==
  ASSUME SerialInv, TypeInv', NEW r \in Runs, RollingOut(r), NextPart(r),
         pc[r] \in {"show", "launch", "await"}, WorldInv',
         UNCHANGED <<mode, conf, doomed, seedId>>, kept[r] \subseteq kept'[r],
         \A e \in Names : Serving(e) => Serving(e)',
         NEW d \in kept'[r], d[1] = idx[r], seedId[d] = conf[r][idx[r]], Serving(d)'
  PROVE  SerialInv'
<1>1. /\ Busy(r) /\ idx[r] \in Parts /\ idx'[r] = idx[r] + 1
      /\ cand'[r] = {} /\ pc'[r] \in {"listall", "list"}
      /\ mode'[r] \in RolloutModes /\ mode'[r] = mode[r] /\ conf'[r] = conf[r]
      /\ doomed'[r] = doomed[r] /\ kept'[r] \subseteq Names /\ kept[r] \subseteq Names
  BY DEF NextPart, Goto, RollingOut, Busy, SerialInv, TypeInv, TypeOK, PhaseOK, LoopLabels
<1>2. StepsInv(r) /\ idx[r] \in Nat
  <2>1. StepsInv(r)
    BY DEF SerialInv
  <2>2. idx[r] \in Nat
    BY <1>1, PartsFacts
  <2> QED
    BY <2>1, <2>2
<1>3. TargetStopped(r)' /\ StopsAll(r)' /\ PartAtHand(r)' /\ KeepsKept(r)'
  BY <1>1 DEF TargetStopped, StopsAll, RolloutModes, PartAtHand, KeepsKept, Removing, Making,
              Starting
<1>4. PartsServed(r)'
  <2> SUFFICES ASSUME "crash" \notin FaultKinds, NEW p \in Parts, p < idx'[r]
               PROVE  \E e \in kept'[r] : e[1] = p /\ Serving(e)' /\ seedId'[e] = conf'[r][p]
    BY DEF PartsServed
  <2>1. CASE p = idx[r]
    BY <1>1, <2>1
  <2>2. CASE p # idx[r]
    <3>1. p < idx[r]
      <4>1. p \in Nat
        BY PartsFacts
      <4> QED
        BY <1>1, <1>2, <2>2, <4>1
    <3>2. PICK e \in kept[r] : e[1] = p /\ Serving(e) /\ seedId[e] = conf[r][p]
      BY <1>2, <3>1 DEF StepsInv, PartsServed
    <3> QED
      BY <1>1, <3>2
  <2> QED
    BY <2>1, <2>2
<1>5. \E label : Goto(r, label)
  BY DEF NextPart
<1> QED
  BY <1>1, <1>2, <1>3, <1>4, <1>5, TheRunGoesOn DEF StepsInv

LEMMA UseStartedSteps ==
  ASSUME SerialInv, TypeInv', NEW r \in Runs, NEW d \in Names, UseStarted(r, d)
  PROVE  SerialInv'
<1>1. Busy(r) /\ UNCHANGED <<files, seedId, unit, sock>> /\ (faults > 0 => faults' > 0) /\ WorldInv'
  <2>1. UNCHANGED <<world, budget>>
    BY DEF UseStarted
  <2>2. UNCHANGED <<files, seedId, unit, sock>> /\ (faults > 0 => faults' > 0)
    BY <2>1 DEF world, budget
  <2>3. Busy(r)
    BY DEF UseStarted, Busy, Idle
  <2> QED
    BY <2>2, <2>3, SameWorld DEF SerialInv
<1>2. /\ pc[r] = "show" /\ RollingOut(r) /\ idx[r] \in Parts /\ unit[d] = "active" /\ d \in cand[r]
      /\ kept'[r] = kept[r] \union {d} /\ target'[r] = d
      /\ UNCHANGED <<mode, conf, doomed>>
  BY DEF UseStarted, Keep, Acceptable, InState, RollingOut, Idle, SerialInv, TypeInv, TypeOK,
         PhaseOK, LoopLabels
<1>3. d[1] = idx[r] /\ Matches(r, d) /\ StepsInv(r)
  BY <1>2 DEF SerialInv, StepsInv, PartAtHand
<1>4. CASE IsFunction(d)
  <2>1. Goto(r, "launch") /\ pc'[r] = "launch" /\ idx'[r] = idx[r]
    BY <1>4 DEF UseStarted, Goto, SerialInv, TypeInv, TypeOK
  <2>2. TargetStopped(r)' /\ StopsAll(r)' /\ KeepsKept(r)'
    BY <1>2, <2>1, PartsFacts DEF TargetStopped, StopsAll, RollingOut, RolloutModes, KeepsKept
  <2>3. PartAtHand(r)'
    BY <1>1, <1>2, <1>3, <2>1, SameWorld DEF PartAtHand, Matches, Removing, Making, Starting
  <2>4. PartsServed(r)'
    BY <1>1, <1>2, <1>3, <2>1, SameWorld DEF StepsInv, PartsServed
  <2> QED
    BY <1>1, <2>1, <2>2, <2>3, <2>4, TheRunGoesOn DEF StepsInv
<1>5. CASE ~IsFunction(d)
  <2>1. NextPart(r)
    BY <1>5 DEF UseStarted
  <2>2. Serving(d)' /\ seedId[d] = conf[r][idx[r]]
    BY <1>1, <1>2, <1>3, <1>5 DEF Serving, IsFunction, Matches
  <2> QED
    BY <1>1, <1>2, <1>3, <2>1, <2>2, SameWorld, PartSettled
<1> QED
  BY <1>4, <1>5

LEMMA PodStartedSteps ==
  ASSUME SerialInv, TypeInv', NEW r \in Runs, PodStarted(r)
  PROVE  SerialInv'
<1>1. UNCHANGED <<files, seedId, unit, sock>> /\ (faults > 0 => faults' > 0) /\ WorldInv'
  <2>1. UNCHANGED <<world, budget>>
    BY DEF PodStarted
  <2>2. UNCHANGED <<files, seedId, unit, sock>> /\ (faults > 0 => faults' > 0)
    BY <2>1 DEF world, budget
  <2> QED
    BY <2>2, SameWorld DEF SerialInv
<1>2. /\ pc[r] = "await" /\ RollingOut(r) /\ unit[target[r]] = "active" /\ NextPart(r)
      /\ UNCHANGED <<mode, conf, doomed, kept>> /\ idx[r] \in Parts
  BY DEF PodStarted, RollingOut, Idle, SerialInv, TypeInv, PhaseOK, LoopLabels
<1>3. /\ target[r] \in kept[r] /\ target[r][1] = idx[r] /\ Matches(r, target[r])
      /\ ~IsFunction(target[r])
  BY <1>2 DEF SerialInv, StepsInv, PartAtHand, Starting
<1>4. PICK d \in kept[r] : /\ d[1] = idx[r] /\ seedId[d] = conf[r][idx[r]] /\ Serving(d)
  BY <1>2, <1>3 DEF Serving, Matches
<1>5. Serving(d)' /\ \A e : Serving(e) => Serving(e)'
  BY <1>1, <1>4, SameWorld
<1> QED
  BY <1>1, <1>2, <1>4, <1>5, PartSettled

LEMMA BeginSteps ==
  ASSUME Serial, SerialInv, TypeInv', NEW r \in Runs, NEW m \in AllModes, Begin(r, m)
  PROVE  SerialInv'
<1>1. UNCHANGED <<files, seedId, unit, sock>> /\ (faults > 0 => faults' > 0) /\ WorldInv'
  <2>1. UNCHANGED <<world, budget>>
    BY DEF Begin
  <2>2. UNCHANGED <<files, seedId, unit, sock>> /\ (faults > 0 => faults' > 0)
    BY <2>1 DEF world, budget
  <2> QED
    BY <2>2, SameWorld DEF SerialInv
<1>2. \A q \in Runs : ~Busy(q)
  BY DEF Begin, CanBegin, Busy
<1>3. \A q \in Runs : pc'[q] = IF q = r THEN IF m \in RolloutModes THEN "list" ELSE "listall"
                               ELSE IF m = "stop" /\ pc[q] = "monitor" THEN "dead" ELSE pc[q]
  BY DEF Begin
<1>4. Alone'
  BY <1>2, <1>3 DEF Alone, Busy, Idle
<1>5. ASSUME NEW q \in Runs, q # r PROVE StepsInv(q)'
  BY <1>2, <1>3, <1>5 DEF StepsInv, TargetStopped, StopsAll, RollingOut, Busy, Idle
<1>6. /\ mode'[r] = m /\ kept'[r] = {}
      /\ idx'[r] = IF m \in RolloutModes THEN 1 ELSE NumParts + 1
  BY DEF Begin, SerialInv, TypeInv, TypeOK
<1>7. TargetStopped(r)' /\ StopsAll(r)'
  BY <1>3, <1>6 DEF TargetStopped, StopsAll
<1>8. ASSUME m \in RolloutModes PROVE PartAtHand(r)' /\ PartsServed(r)' /\ KeepsKept(r)'
  <2>1. pc'[r] = "list" /\ idx'[r] = 1 /\ \A p \in Parts : ~(p < idx'[r])
    BY <1>3, <1>6, <1>8 DEF Parts
  <2> QED
    BY <2>1, NumPartsAssumption DEF PartAtHand, PartsServed, KeepsKept, Removing, Making, Starting
<1>9. StepsInv(r)'
  BY <1>6, <1>7, <1>8 DEF StepsInv, RollingOut
<1> QED
  BY <1>1, <1>4, <1>5, <1>9 DEF SerialInv

\* A removal goes on: to its next step, to the cleanup or to the creation.
LEMMA RemovalSteps ==
  ASSUME SerialInv, TypeInv', NEW r \in Runs, NEW label \in {"rmfiles", "mkdir", "cleanup"},
         Step(r, label), pc[r] \in {"stopping", "rmdir"}, WorldInv',
         UNCHANGED <<seedId, unit, sock>>, faults > 0 => faults' > 0,
         \/ UNCHANGED files
         \/ pc[r] = "rmdir" /\ files' = [files EXCEPT ![target[r]] = {}],
         label = "cleanup" => mode[r] = "stop" \/ idx[r] = NumParts + 1,
         mode[r] = "stop" => label = "cleanup" /\ UNCHANGED files /\ unit[target[r]] \in Halted,
         label = "rmfiles" => /\ pc[r] = "stopping"
                              /\ \/ unit[target[r]] \in Halted
                                 \/ /\ unit[target[r]] = "deactivating"
                                    /\ faults' > 0 /\ mode[r] = "fresh"
  PROVE  SerialInv'
<1>1. Busy(r) /\ Goto(r, label) /\ pc'[r] = label /\ StepsInv(r) /\ TypeInv
  BY DEF Busy, Idle, Step, Goto, SerialInv, TypeInv, TypeOK
<1>2. UNCHANGED <<mode, conf, idx, cand, target, kept, doomed>>
  BY DEF Step, local
<1>3. TargetStopped(r)'
  BY <1>1, <1>2 DEF StepsInv, TargetStopped, StopsAll
<1>4. StopsAll(r)'
  <2> SUFFICES ASSUME mode[r] = "stop", NEW d \in Names, d \notin doomed[r] PROVE Quiet(d)'
    BY <1>1, <1>2 DEF StopsAll
  <2>1. pc[r] = "stopping" /\ UNCHANGED files
    BY <1>1 DEF StepsInv, StopsAll
  <2>2. d = target[r] \/ Quiet(d)
    BY <1>1, <2>1 DEF StepsInv, StopsAll
  <2>3. target[r] \notin sock
    BY <1>1, <2>1 DEF StepsInv, TargetStopped
  <2> QED
    BY <2>1, <2>2, <2>3 DEF Quiet, Loose
<1>5. ASSUME RollingOut(r) PROVE PartAtHand(r)'
  BY <1>1, <1>2, <1>5, RunFacts DEF StepsInv, PartAtHand, Removing, Making, Starting
<1>6. ASSUME RollingOut(r) PROVE PartsServed(r)'
  BY <1>1, <1>2, <1>6 DEF StepsInv, PartsServed, Serving, IsFunction
<1>7. ASSUME RollingOut(r) PROVE KeepsKept(r)'
  BY <1>1, <1>2, <1>7 DEF StepsInv, KeepsKept, Removing
<1>8. StepsInv(r)'
  BY <1>1, <1>2, <1>3, <1>4, <1>5, <1>6, <1>7 DEF StepsInv, RollingOut, Busy
<1> QED
  BY <1>1, <1>8, TheRunGoesOn

\* A removal that fails is logged in the cleanup and ends a creation.
LEMMA RemovalFailsSteps ==
  ASSUME SerialInv, TypeInv', NEW r \in Runs, RemoveFails(r), UNCHANGED world,
         UNCHANGED budget \/ \E kind : Fault(kind),
         pc[r] \in {"stopping", "rmdir"}, mode[r] # "stop"
  PROVE  SerialInv'
<1>1. CASE InCleanup(r)
  <2>1. Step(r, "cleanup") /\ idx[r] = NumParts + 1
    BY <1>1, PartsFacts, NumPartsAssumption DEF RemoveFails, InCleanup, SerialInv, TypeInv, TypeOK
  <2>2. UNCHANGED <<files, seedId, unit, sock>> /\ (faults > 0 => faults' > 0) /\ WorldInv'
    BY FaultsStay, SameWorld DEF world, SerialInv
  <2> QED
    BY <2>1, <2>2, RemovalSteps
<1>2. CASE ~InCleanup(r)
  BY <1>2, TheRunGivesUp DEF RemoveFails, Fails, Idle
<1> QED
  BY <1>1, <1>2

LEMMA UnitStoppedSteps ==
  ASSUME SerialInv, TypeInv', NEW r \in Runs, UnitStopped(r)
  PROVE  SerialInv'
<1>1. /\ pc[r] = "stopping" /\ UNCHANGED <<files, seedId, unit, sock>>
      /\ (faults > 0 => faults' > 0) /\ WorldInv'
  <2>1. UNCHANGED <<files, seedId, unit, sock>> /\ (faults > 0 => faults' > 0)
    BY FaultsStay DEF UnitStopped, world, SerialInv
  <2> QED
    BY <2>1, SameWorld DEF UnitStopped, SerialInv
<1>2. unit[target[r]] \in Halted
  BY DEF UnitStopped, SerialInv, StepsInv, TargetStopped
<1>3. Step(r, IF mode[r] = "stop" THEN "cleanup" ELSE "rmfiles")
  BY <1>2 DEF UnitStopped, Halted
<1> QED
  BY <1>1, <1>2, <1>3, RemovalSteps

LEMMA StopTimesOutSteps ==
  ASSUME SerialInv, TypeInv', NEW r \in Runs, StopTimesOut(r)
  PROVE  SerialInv'
<1>1. CASE Step(r, "rmfiles")
  <2>1. /\ pc[r] = "stopping" /\ UNCHANGED <<files, seedId, unit, sock>>
        /\ faults' > 0 /\ mode[r] = "fresh" /\ unit[target[r]] = "deactivating"
    BY DEF StopTimesOut, world, Fault, SerialInv, TypeInv, TypeOK
  <2>2. WorldInv'
    BY <2>1, SameWorld DEF SerialInv
  <2> QED
    BY <1>1, <2>1, <2>2, RemovalSteps
<1>2. CASE RemoveFails(r)
  BY <1>2, RemovalFailsSteps DEF StopTimesOut
<1> QED
  BY <1>1, <1>2 DEF StopTimesOut

LEMMA RemoveDirSteps ==
  ASSUME SerialInv, TypeInv', NEW r \in Runs, RemoveDir(r)
  PROVE  SerialInv'
<1>1. pc[r] = "rmdir" /\ mode[r] # "stop"
  BY DEF RemoveDir, SerialInv, StepsInv, StopsAll
<1>2. CASE files[target[r]] \subseteq {"dir"}
  <2>1. /\ files' = [files EXCEPT ![target[r]] = {}] /\ UNCHANGED <<seedId, unit, sock, faults>>
        /\ Step(r, IF InCleanup(r) THEN "cleanup" ELSE "mkdir")
    BY <1>2 DEF RemoveDir, budget
  <2>2. InCleanup(r) => idx[r] = NumParts + 1
    BY PartsFacts, NumPartsAssumption DEF InCleanup, SerialInv, TypeInv, TypeOK
  <2>3. \A d \in Names : files'[d] = IF d = target[r] THEN {} ELSE files[d]
    BY <2>1 DEF SerialInv, TypeInv, TypeOK
  <2>4. WorldInv'
    BY <1>2, <2>1, <2>3
    DEF SerialInv, WorldInv, DirFirst, UnitLinked, SockLinked, Loose, IsFunction
  <2> QED
    BY <1>1, <2>1, <2>2, <2>4, RemovalSteps
<1>3. CASE ~ (files[target[r]] \subseteq {"dir"})
  BY <1>1, <1>3, RemovalFailsSteps DEF RemoveDir, world
<1> QED
  BY <1>2, <1>3

\* systemd moves a unit on that is starting or stopping, or a pod has died.
LEMMA UnitMovesSteps ==
  ASSUME SerialInv, TypeInv', NEW d \in Names, NEW s \in UnitStates, SetUnit(d, s),
         faults > 0 => faults' > 0,
         \/ unit[d] = "activating" /\ (s = "failed" \/ (s = "active" /\ "link" \in files[d]))
         \/ unit[d] = "deactivating" /\ s = "inactive"
         \/ unit[d] = "active" /\ s = "activating" /\ "crash" \in FaultKinds
  PROVE  SerialInv'
<1>1. \A e \in Names : unit'[e] = IF e = d THEN s ELSE unit[e]
  BY DEF SetUnit, SerialInv, TypeInv, TypeOK
<1>2. UNCHANGED <<files, seedId, sock, pc, mode, conf, idx, cand, target, kept, started, doomed>>
  BY DEF SetUnit, local
<1>3. Alone'
  BY <1>2 DEF SerialInv, Alone, Busy
<1>4. WorldInv'
  <2> SUFFICES ASSUME NEW e \in Names PROVE DirFirst(e)' /\ UnitLinked(e)' /\ SockLinked(e)'
    BY DEF WorldInv
  <2>1. DirFirst(e) /\ UnitLinked(e) /\ SockLinked(e) /\ (UnitLinked(d) /\ SockLinked(d))
    BY DEF SerialInv, WorldInv
  <2> QED
    BY <1>1, <1>2, <2>1 DEF DirFirst, UnitLinked, SockLinked, Loose, Halted, IsFunction
<1>5. ASSUME NEW r \in Runs PROVE StepsInv(r)'
  <2>1. StepsInv(r) /\ TypeInv
    BY DEF SerialInv
  <2>2. TargetStopped(r)'
    BY <1>1, <1>2, <2>1, RunFacts DEF StepsInv, TargetStopped, Halted
  <2>3. \A e \in Names : Quiet(e) => Quiet(e)'
    BY <1>1, <1>2 DEF Quiet, Loose, Halted
  <2>4. StopsAll(r)'
    BY <1>2, <2>1, <2>3 DEF StepsInv, StopsAll
  <2>5. PartAtHand(r) => PartAtHand(r)'
    BY <1>1, <1>2, <2>1, RunFacts DEF PartAtHand, Matches, Seeded, IsFunction
  <2>6. "crash" \notin FaultKinds => \A e \in Names : Serving(e) => Serving(e)'
    BY <1>1, <1>2 DEF Serving, IsFunction
  <2>7. PartsServed(r) => PartsServed(r)'
    BY <1>2, <2>1, <2>6, RunFacts DEF PartsServed
  <2>8. KeepsKept(r) => KeepsKept(r)'
    BY <1>2 DEF KeepsKept
  <2> QED
    BY <1>2, <2>1, <2>2, <2>4, <2>5, <2>7, <2>8 DEF StepsInv, RollingOut
<1> QED
  BY <1>3, <1>4, <1>5 DEF SerialInv

\* A stop takes nothing away that serves while a rollout is in the loop over
\* the parts, and nothing that it keeps.
LEMMA StopSpares ==
  ASSUME SerialInv, NEW r \in Runs, StopUnit(r), RollingOut(r), NEW e \in Names, Serving(e),
         idx[r] \in Parts \/ e \in kept[r]
  PROVE  Serving(e)'
<1>1. pc[r] = "stop" /\ sock' = sock \ {target[r]} /\ target[r] \in Names /\ StepsInv(r)
  BY RunFacts DEF StopUnit, SerialInv
<1>2. unit'[e] = IF e = target[r] THEN AfterStopJob(unit[e]) ELSE unit[e]
  BY DEF StopUnit, SerialInv, TypeInv, TypeOK
<1>3. CASE idx[r] \in Parts
  <2>1. unit[target[r]] = "inactive"
    BY <1>1, <1>3 DEF StepsInv, PartAtHand
  <2>2. target[r] \notin sock
    BY <1>1, <2>1 DEF SerialInv, WorldInv, SockLinked
  <2> QED
    BY <1>1, <1>2, <2>1, <2>2 DEF Serving, IsFunction, AfterStopJob
<1>4. CASE idx[r] \notin Parts
  <2>1. e # target[r]
    BY <1>1, <1>4, RunFacts, PartsFacts DEF SerialInv, StepsInv, KeepsKept, Removing
  <2> QED
    BY <1>1, <1>2, <2>1 DEF Serving, IsFunction
<1> QED
  BY <1>3, <1>4

LEMMA StopUnitSteps ==
  ASSUME SerialInv, TypeInv', NEW r \in Runs, StopUnit(r)
  PROVE  SerialInv'
<1>1. /\ pc[r] = "stop" /\ pc'[r] = "stopping" /\ Busy(r) /\ Goto(r, "stopping")
      /\ UNCHANGED <<files, seedId, mode, conf, idx, cand, target, kept, started, doomed, faults>>
      /\ sock' = sock \ {target[r]}
  BY DEF StopUnit, Goto, Busy, Idle, local, budget, SerialInv, TypeInv, TypeOK
<1>2. \A e \in Names : unit'[e] = IF e = target[r] THEN AfterStopJob(unit[e]) ELSE unit[e]
  BY DEF StopUnit, SerialInv, TypeInv, TypeOK
<1>3. StepsInv(r) /\ TypeInv /\ target[r] \in Names
  BY RunFacts DEF SerialInv
<1>4. AfterStopJob(unit[target[r]]) \in Halted \union {"deactivating"}
  BY <1>3 DEF AfterStopJob, Halted, TypeInv, TypeOK, UnitStates
<1>5. WorldInv'
  <2> SUFFICES ASSUME NEW e \in Names PROVE DirFirst(e)' /\ UnitLinked(e)' /\ SockLinked(e)'
    BY DEF WorldInv
  <2>1. DirFirst(e) /\ UnitLinked(e) /\ SockLinked(e)
    BY DEF SerialInv, WorldInv
  <2> QED
    BY <1>1, <1>2, <2>1
    DEF DirFirst, UnitLinked, SockLinked, Loose, Halted, IsFunction, AfterStopJob
<1>6. TargetStopped(r)'
  BY <1>1, <1>2, <1>3, <1>4 DEF TargetStopped
<1>7. StopsAll(r)'
  BY <1>1, <1>2, <1>3 DEF StepsInv, StopsAll, Quiet, Loose
<1>8. ASSUME RollingOut(r) PROVE PartAtHand(r)'
  BY <1>1, <1>3, <1>8 DEF StepsInv, PartAtHand, Making, Removing, Starting
<1>9. ASSUME RollingOut(r) PROVE KeepsKept(r)'
  BY <1>1, <1>3, <1>9 DEF StepsInv, KeepsKept, Removing
<1>10. ASSUME RollingOut(r), NEW e \in kept[r], Serving(e) PROVE Serving(e)'
  BY <1>3, <1>10, RunFacts, StopSpares
<1>11. ASSUME RollingOut(r) PROVE PartsServed(r)'
  BY <1>1, <1>3, <1>10, <1>11 DEF StepsInv, PartsServed
<1> QED
  BY <1>1, <1>5, <1>6, <1>7, <1>8, <1>9, <1>11, TheRunGoesOn DEF StepsInv, RollingOut, Busy

LEMMA RemoveFilesSteps ==
  ASSUME SerialInv, TypeInv', NEW r \in Runs, RemoveFiles(r)
  PROVE  SerialInv'
<1>1. /\ pc[r] = "rmfiles" /\ pc'[r] = "rmdir" /\ Busy(r) /\ Goto(r, "rmdir")
      /\ UNCHANGED <<seedId, unit, mode, conf, idx, cand, target, kept, started, doomed, faults>>
      /\ sock' = sock \ {target[r]}
  BY DEF RemoveFiles, Goto, Busy, Idle, local, budget, SerialInv, TypeInv, TypeOK
<1>2. \A e \in Names : files'[e] = IF e = target[r] THEN files[e] \intersect {"dir"} ELSE files[e]
  BY DEF RemoveFiles, SerialInv, TypeInv, TypeOK
<1>3. StepsInv(r) /\ TypeInv /\ target[r] \in Names
  BY RunFacts DEF SerialInv
<1>4. target[r] \notin sock /\ (unit[target[r]] \in Halted \/ Loose(target[r])) /\ sock' = sock
  BY <1>1, <1>3 DEF StepsInv, TargetStopped, Loose
<1>5. WorldInv'
  <2> SUFFICES ASSUME NEW e \in Names PROVE DirFirst(e)' /\ UnitLinked(e)' /\ SockLinked(e)'
    BY DEF WorldInv
  <2>1. DirFirst(e) /\ UnitLinked(e) /\ SockLinked(e)
    BY DEF SerialInv, WorldInv
  <2> QED
    BY <1>1, <1>2, <1>4, <2>1 DEF DirFirst, UnitLinked, SockLinked, Loose, IsFunction
<1>6. TargetStopped(r)' /\ StopsAll(r)'
  BY <1>1, <1>3 DEF StepsInv, TargetStopped, StopsAll
<1>7. ASSUME RollingOut(r) PROVE PartAtHand(r)' /\ KeepsKept(r)'
  BY <1>1, <1>3, <1>7 DEF StepsInv, PartAtHand, KeepsKept, Making, Removing, Starting
<1>8. ASSUME RollingOut(r) PROVE PartsServed(r)'
  BY <1>1, <1>3, <1>4, <1>8 DEF StepsInv, PartsServed, Serving, IsFunction
<1> QED
  BY <1>1, <1>5, <1>6, <1>7, <1>8, TheRunGoesOn DEF StepsInv, RollingOut, Busy

\* What the creation adds to the directory at hand.
LEMMA FilesGrow ==
  ASSUME SerialInv, TypeInv', NEW d \in Names, NEW f \in Files, f = "dir" \/ "dir" \in files[d],
         \A e \in Names : files'[e] = IF e = d THEN files[e] \union {f} ELSE files[e],
         UNCHANGED <<unit, sock, faults>>
  PROVE  WorldInv'
<1> SUFFICES ASSUME NEW e \in Names PROVE DirFirst(e)' /\ UnitLinked(e)' /\ SockLinked(e)'
  BY DEF WorldInv
<1>1. DirFirst(e) /\ UnitLinked(e) /\ SockLinked(e)
  BY DEF SerialInv, WorldInv
<1> QED
  BY <1>1 DEF DirFirst, UnitLinked, SockLinked, Loose, IsFunction

\* A step of the creation, on to the next.
LEMMA CreationSteps ==
  ASSUME SerialInv, TypeInv', NEW r \in Runs, NEW label \in {"symlink", "seed", "launch"},
         Goto(r, label), pc[r] \in Making,
         UNCHANGED <<mode, conf, idx, target, doomed, unit, sock, faults>>,
         kept[r] \subseteq kept'[r], WorldInv',
         \A e \in Names : e # target[r] => seedId'[e] = seedId[e],
         seedId'[target[r]] = seedId[target[r]] \/ pc[r] = "seed",
         label = "launch" =>
           /\ target[r] \in kept'[r] /\ {"dir", "link", "seed"} \subseteq files'[target[r]]
           /\ seedId'[target[r]] = conf[r][idx[r]]
  PROVE  SerialInv'
<1>1. /\ Busy(r) /\ RollingOut(r) /\ idx[r] \in Parts /\ pc'[r] = label /\ mode[r] \in RolloutModes
      /\ target[r] \in Names /\ kept[r] \subseteq Names
  BY DEF Busy, RollingOut, Idle, Making, Goto, SerialInv, TypeInv, TypeOK, PhaseOK, LoopLabels
<1>2. StepsInv(r) /\ target[r][1] = idx[r]
  BY <1>1 DEF SerialInv, StepsInv, PartAtHand
<1>3. TargetStopped(r)' /\ StopsAll(r)' /\ KeepsKept(r)'
  BY <1>1, PartsFacts DEF TargetStopped, StopsAll, RolloutModes, KeepsKept
<1>4. PartAtHand(r)'
  BY <1>1, <1>2 DEF PartAtHand, Matches, Seeded, Removing, Making, Starting
<1>5. PartsServed(r)'
  <2> SUFFICES ASSUME "crash" \notin FaultKinds, NEW p \in Parts, p < idx[r]
               PROVE  \E d \in kept'[r] : d[1] = p /\ Serving(d)' /\ seedId'[d] = conf[r][p]
    BY DEF PartsServed
  <2>1. PICK d \in kept[r] : d[1] = p /\ Serving(d) /\ seedId[d] = conf[r][p]
    BY <1>1, <1>2 DEF StepsInv, PartsServed, Making
  <2>2. d # target[r]
    BY <1>1, <1>2, <2>1, PartsFacts
  <2> QED
    BY <1>1, <2>1, <2>2 DEF Serving, IsFunction
<1> QED
  BY <1>1, <1>3, <1>4, <1>5, TheRunGoesOn DEF StepsInv

LEMMA MakeDirSteps ==
  ASSUME SerialInv, TypeInv', NEW r \in Runs, MakeDir(r)
  PROVE  SerialInv'
<1>1. /\ pc[r] = "mkdir" /\ Goto(r, "symlink") /\ target[r] \in Names
      /\ UNCHANGED <<seedId, unit, sock, faults, mode, conf, idx, target, kept, doomed>>
  BY RunFacts DEF MakeDir, local, budget, SerialInv
<1>2. \A e \in Names : files'[e] = IF e = target[r] THEN files[e] \union {"dir"} ELSE files[e]
  BY DEF MakeDir, SerialInv, TypeInv, TypeOK
<1>3. WorldInv'
  BY <1>1, <1>2, FilesGrow DEF Files
<1> QED
  BY <1>1, <1>3, CreationSteps DEF Making

LEMMA SymlinkConfigSteps ==
  ASSUME SerialInv, TypeInv', NEW r \in Runs, SymlinkConfig(r)
  PROVE  SerialInv'
<1>1. CASE "dir" \in files[target[r]] /\ "link" \notin files[target[r]]
  <2>1. /\ pc[r] = "symlink" /\ Goto(r, "seed") /\ target[r] \in Names
        /\ UNCHANGED <<seedId, unit, sock, faults, mode, conf, idx, target, kept, doomed>>
    BY <1>1, RunFacts DEF SymlinkConfig, Step, local, budget, SerialInv
  <2>2. \A e \in Names : files'[e] = IF e = target[r] THEN files[e] \union {"link"} ELSE files[e]
    BY <1>1 DEF SymlinkConfig, SerialInv, TypeInv, TypeOK
  <2>3. WorldInv'
    BY <1>1, <2>1, <2>2, FilesGrow DEF Files
  <2> QED
    BY <2>1, <2>3, CreationSteps DEF Making
<1>2. CASE ~ ("dir" \in files[target[r]] /\ "link" \notin files[target[r]])
  BY <1>2, TheRunGivesUp DEF SymlinkConfig, Fails, Idle, world
<1> QED
  BY <1>1, <1>2

LEMMA WriteSeedSteps ==
  ASSUME SerialInv, TypeInv', NEW r \in Runs, WriteSeed(r)
  PROVE  SerialInv'
<1>1. pc[r] = "seed" /\ target[r] \in Names /\ UNCHANGED <<unit, sock, faults>> /\ idx[r] \in Parts
  BY RunFacts DEF WriteSeed, budget, SerialInv, TypeInv, PhaseOK, LoopLabels
<1>2. WorldInv'
  <2>1. CASE "dir" \in files[target[r]]
    <3>1. \A e \in Names : files'[e] = IF e = target[r] THEN files[e] \union {"seed"} ELSE files[e]
      BY <2>1 DEF WriteSeed, SerialInv, TypeInv, TypeOK
    <3> QED
      BY <1>1, <2>1, <3>1, FilesGrow DEF Files
  <2>2. CASE "dir" \notin files[target[r]]
    <3>1. UNCHANGED <<files, seedId>>
      BY <2>2 DEF WriteSeed
    <3> QED
      BY <1>1, <3>1, SameWorld DEF SerialInv
  <2> QED
    BY <2>1, <2>2
<1>3. CASE {"dir", "link"} \subseteq files[target[r]]
  <2>1. /\ Goto(r, "launch") /\ UNCHANGED <<mode, conf, idx, doomed>>
        /\ target' = target /\ kept'[r] = kept[r] \union {target[r]}
    BY <1>3 DEF WriteSeed, Keep, SerialInv, TypeInv, TypeOK
  <2>2. /\ files'[target[r]] = files[target[r]] \union {"seed"}
        /\ seedId'[target[r]] = conf[r][idx[r]]
        /\ \A e \in Names : e # target[r] => seedId'[e] = seedId[e]
    BY <1>1, <1>3 DEF WriteSeed, SerialInv, TypeInv, TypeOK
  <2> QED
    BY <1>1, <1>2, <1>3, <2>1, <2>2, CreationSteps DEF Making
<1>4. CASE ~ ({"dir", "link"} \subseteq files[target[r]])
  <2>1. Fails(r) /\ Busy(r)
    BY <1>4 DEF WriteSeed, Busy, Idle
  <2> QED
    BY <1>1, <1>2, <2>1, TheRunIsOver DEF Fails, Idle
<1> QED
  BY <1>3, <1>4

\* A unit that has its configuration is started; nothing else changes.
LEMMA StartingKeepsWorld ==
  ASSUME SerialInv, TypeInv', NEW d \in Names, "link" \in files[d], unit[d] # "deactivating",
         \A e \in Names : unit'[e] = IF e = d THEN AfterStartJob(unit[e]) ELSE unit[e],
         sock' = sock \/ (sock' = sock \union {d} /\ IsFunction(d)),
         UNCHANGED files, faults > 0 => faults' > 0
  PROVE  WorldInv' /\ \A e \in Names : Serving(e) => Serving(e)'
<1>1. ASSUME NEW e \in Names PROVE DirFirst(e)' /\ UnitLinked(e)' /\ SockLinked(e)'
  <2>1. DirFirst(e) /\ UnitLinked(e) /\ SockLinked(e)
    BY DEF SerialInv, WorldInv
  <2> QED
    BY <2>1 DEF DirFirst, UnitLinked, SockLinked, Loose, Halted, IsFunction, AfterStartJob
<1>2. \A e \in Names : Serving(e) => Serving(e)'
  BY DEF Serving, IsFunction, AfterStartJob
<1> QED
  BY <1>1, <1>2 DEF WorldInv

LEMMA LaunchPodSteps ==
  ASSUME SerialInv, TypeInv', NEW r \in Runs, LaunchPod(r)
  PROVE  SerialInv'
<1>1. /\ pc[r] = "launch" /\ pc'[r] = "await" /\ Goto(r, "await") /\ Busy(r) /\ RollingOut(r)
      /\ UNCHANGED <<files, seedId, sock, mode, conf, idx, cand, target, kept, doomed, faults>>
      /\ ~IsFunction(target[r]) /\ unit[target[r]] # "deactivating" /\ idx[r] \in Parts
      /\ mode[r] \in RolloutModes
  BY DEF LaunchPod, Goto, Busy, RollingOut, Idle, budget, SerialInv, TypeInv, TypeOK, PhaseOK,
         LoopLabels
<1>2. \A e \in Names : unit'[e] = IF e = target[r] THEN AfterStartJob(unit[e]) ELSE unit[e]
  BY DEF LaunchPod, SerialInv, TypeInv, TypeOK
<1>3. StepsInv(r) /\ PartAtHand(r) /\ target[r] \in Names /\ kept[r] \subseteq Names
  BY <1>1, RunFacts DEF SerialInv, StepsInv
<1>4. "link" \in files[target[r]]
  BY <1>1, <1>3 DEF PartAtHand, Matches, Seeded, Starting
<1>5. WorldInv' /\ \A e \in Names : Serving(e) => Serving(e)'
  BY <1>1, <1>2, <1>3, <1>4, StartingKeepsWorld
<1>6. TargetStopped(r)' /\ StopsAll(r)' /\ KeepsKept(r)'
  BY <1>1, PartsFacts DEF TargetStopped, StopsAll, RolloutModes, KeepsKept
<1>7. PartAtHand(r)'
  BY <1>1, <1>3 DEF PartAtHand, Matches, Seeded, IsFunction, Removing, Making, Starting
<1>8. PartsServed(r)'
  BY <1>1, <1>3, <1>5 DEF StepsInv, PartsServed
<1> QED
  BY <1>1, <1>5, <1>6, <1>7, <1>8, TheRunGoesOn DEF StepsInv

LEMMA LaunchFunctionSteps ==
  ASSUME SerialInv, TypeInv', NEW r \in Runs, LaunchFunction(r)
  PROVE  SerialInv'
<1>1. /\ pc[r] = "launch" /\ Busy(r) /\ RollingOut(r)
      /\ UNCHANGED <<files, seedId, mode, conf, target, kept, doomed>>
      /\ IsFunction(target[r]) /\ unit[target[r]] # "deactivating" /\ idx[r] \in Parts
      /\ mode[r] \in RolloutModes
  BY DEF LaunchFunction, Busy, RollingOut, Idle, SerialInv, TypeInv, PhaseOK, LoopLabels
<1>2. StepsInv(r) /\ PartAtHand(r) /\ target[r] \in Names
  BY <1>1, RunFacts DEF SerialInv, StepsInv
<1>3. CASE /\ unit' = [unit EXCEPT ![target[r]] = AfterStartJob(@)]
           /\ sock' = sock \union {target[r]}
           /\ NextPart(r) /\ UNCHANGED budget
  <2>1. PICK d \in kept[r] : d = target[r]
    BY <1>1, <1>2 DEF PartAtHand, Starting
  <2>2. /\ d \in Names /\ d[1] = idx[r] /\ seedId[d] = conf[r][idx[r]] /\ "link" \in files[d]
        /\ IsFunction(d) /\ unit[d] # "deactivating"
    BY <1>1, <1>2, <2>1 DEF PartAtHand, Matches, Seeded, Starting
  <2>3. \A e \in Names : unit'[e] = IF e = d THEN AfterStartJob(unit[e]) ELSE unit[e]
    BY <1>3, <2>1 DEF SerialInv, TypeInv, TypeOK
  <2>4. WorldInv' /\ \A e \in Names : Serving(e) => Serving(e)'
    BY <1>1, <1>3, <2>1, <2>2, <2>3, StartingKeepsWorld DEF budget
  <2>5. Serving(d)'
    BY <1>3, <2>1, <2>2 DEF Serving, IsFunction
  <2> QED
    BY <1>1, <1>3, <2>1, <2>2, <2>4, <2>5, PartSettled
<1>4. CASE /\ \/ "dir" \notin files[target[r]] /\ UNCHANGED budget
              \/ target[r] \notin sock /\ Fault("start")
           /\ Goto(r, "undo")
           /\ UNCHANGED <<unit, sock, idx, cand>>
  <2>1. pc'[r] = "undo" /\ UNCHANGED <<files, seedId, unit, sock>> /\ (faults > 0 => faults' > 0)
    BY <1>1, <1>4, FaultsStay DEF Goto, SerialInv, TypeInv, TypeOK
  <2>2. WorldInv'
    BY <2>1, SameWorld DEF SerialInv
  <2>3. StepsInv(r)'
    BY <1>1, <1>4, <2>1, PartsFacts
    DEF StepsInv, TargetStopped, StopsAll, RolloutModes, PartAtHand, PartsServed, KeepsKept,
        Removing, Making, Starting
  <2> QED
    BY <1>1, <1>4, <2>2, <2>3, TheRunGoesOn
<1> QED
  BY <1>3, <1>4 DEF LaunchFunction

LEMMA UndoSteps ==
  ASSUME SerialInv, TypeInv', NEW r \in Runs, Undo(r)
  PROVE  SerialInv'
<1>1. CASE started[r] = {}
  BY <1>1, TheRunGivesUp DEF Undo, Fails, Idle, world
<1>2. CASE started[r] # {}
  <2>1. PICK d \in started[r] :
          /\ IF IsFunction(d)
             THEN sock' = sock \ {d} /\ UNCHANGED unit
             ELSE unit' = [unit EXCEPT ![d] = AfterStopJob(@)] /\ UNCHANGED sock
          /\ Goto(r, "undoing")
          /\ UNCHANGED <<mode, idx, kept, started, doomed, files, faults>>
    BY <1>2 DEF Undo, budget
  <2>2. /\ Busy(r) /\ pc'[r] = "undoing" /\ idx[r] \in Parts /\ d \in Names
        /\ mode[r] \in RolloutModes
    BY <2>1, RunFacts
    DEF Undo, Busy, Idle, Goto, SerialInv, TypeInv, TypeOK, PhaseOK, LoopLabels
  <2>3. /\ \A e \in Names : unit'[e] = unit[e] \/ (e = d /\ unit'[e] = AfterStopJob(unit[e]))
        /\ ~IsFunction(d) => sock' = sock
        /\ IsFunction(d) => unit' = unit
        /\ \A e \in Names : e \in sock' => e \in sock
    BY <2>1, <2>2 DEF SerialInv, TypeInv, TypeOK
  <2>4. WorldInv'
    <3> SUFFICES ASSUME NEW e \in Names PROVE DirFirst(e)' /\ UnitLinked(e)' /\ SockLinked(e)'
      BY DEF WorldInv
    <3>1. DirFirst(e) /\ UnitLinked(e) /\ SockLinked(e)
      BY DEF SerialInv, WorldInv
    <3> QED
      BY <2>1, <2>3, <3>1
      DEF DirFirst, UnitLinked, SockLinked, Loose, Halted, IsFunction, AfterStopJob
  <2>5. StepsInv(r)'
    BY <2>1, <2>2, PartsFacts
    DEF StepsInv, TargetStopped, StopsAll, RolloutModes, PartAtHand, PartsServed, KeepsKept,
        Removing, Making, Starting
  <2> QED
    BY <2>1, <2>2, <2>4, <2>5, TheRunGoesOn
<1> QED
  BY <1>1, <1>2

\* SerialInv is inductive.
LEMMA SerialStep == Serial /\ SerialInv /\ [Next]_vars => SerialInv'
<1> SUFFICES ASSUME Serial, SerialInv, [Next]_vars PROVE SerialInv'
  OBVIOUS
<1> TypeInv'
  BY TypeStep DEF SerialInv
<1>1. CASE /\ UNCHANGED <<files, seedId, unit, sock, pc, mode, conf, idx, cand, target, kept>>
           /\ UNCHANGED <<started, doomed, faults>>
  <2>1. WorldInv' /\ Alone'
    BY <1>1, SameWorld DEF SerialInv, Alone, Busy
  <2>2. \A r \in Runs : StepsInv(r)'
    BY <1>1, OtherRun
  <2> QED
    BY <2>1, <2>2 DEF SerialInv
<1>2. ASSUME NEW p \in Parts, NEW id \in PartIds, EditConfig(p, id) PROVE SerialInv'
  BY <1>2, <1>1 DEF EditConfig, local
<1>3. ASSUME NEW d \in Names, UnitUp(d) PROVE SerialInv'
  BY <1>3, FaultsStay, UnitMovesSteps DEF UnitUp, UnitStates, Seeded, SerialInv
<1>4. ASSUME NEW d \in Names, UnitFails(d) PROVE SerialInv'
  <2>1. faults > 0 => faults' > 0
    BY <1>4, FaultsStay DEF UnitFails, SerialInv
  <2> QED
    BY <1>4, <2>1, UnitMovesSteps DEF UnitFails, UnitStates
<1>5. ASSUME NEW d \in Names, UnitDown(d) PROVE SerialInv'
  BY <1>5, FaultsStay, UnitMovesSteps DEF UnitDown, UnitStates, SerialInv
<1>6. ASSUME NEW d \in Names, UnitCrashes(d) PROVE SerialInv'
  <2>1. (faults > 0 => faults' > 0) /\ "crash" \in FaultKinds
    BY <1>6, FaultsStay DEF UnitCrashes, Fault, SerialInv
  <2> QED
    BY <1>6, <2>1, UnitMovesSteps DEF UnitCrashes, UnitStates
<1>7. ASSUME NEW r \in Runs, NEW m \in AllModes, Begin(r, m) PROVE SerialInv'
  BY <1>7, BeginSteps
<1>8. ASSUME NEW r \in Runs, NEW m \in AllModes, BeginFails(r, m) PROVE SerialInv'
  BY <1>8, TheRunGivesUp DEF BeginFails, Idle
<1>9. ASSUME NEW r \in Runs, ListFails(r) PROVE SerialInv'
  BY <1>9, TheRunGivesUp DEF ListFails, Idle, Fails
<1>10. ASSUME NEW r \in Runs, Killed(r) PROVE SerialInv'
  BY <1>10, TheRunGivesUp DEF Killed, Idle
<1>11. ASSUME NEW r \in Runs, ListPart(r) PROVE SerialInv'
  BY <1>11, ListPartSteps
<1>12. ASSUME NEW r \in Runs, NEW d \in Names, UseStarted(r, d) PROVE SerialInv'
  BY <1>12, UseStartedSteps
<1>13. ASSUME NEW r \in Runs, NEW d \in Names, UseStarting(r, d) PROVE SerialInv'
  BY <1>13, UseStartingSteps
<1>14. ASSUME NEW r \in Runs, NEW d \in Names, UseStopped(r, d) PROVE SerialInv'
  BY <1>14, UseStoppedSteps
<1>15. ASSUME NEW r \in Runs, NEW i \in 1..MaxIndex, NewName(r, i) PROVE SerialInv'
  BY <1>15, NewNameSteps
<1>16. ASSUME NEW r \in Runs, NamesExhausted(r) PROVE SerialInv'
  BY <1>16, TheRunGivesUp DEF NamesExhausted, Idle, Fails
<1>17. ASSUME NEW r \in Runs, StopUnit(r) PROVE SerialInv'
  BY <1>17, StopUnitSteps
<1>18. ASSUME NEW r \in Runs, UnitStopped(r) PROVE SerialInv'
  BY <1>18, UnitStoppedSteps
<1>19. ASSUME NEW r \in Runs, StopTimesOut(r) PROVE SerialInv'
  BY <1>19, StopTimesOutSteps
<1>20. ASSUME NEW r \in Runs, RemoveFiles(r) PROVE SerialInv'
  BY <1>20, RemoveFilesSteps
<1>21. ASSUME NEW r \in Runs, RemoveDir(r) PROVE SerialInv'
  BY <1>21, RemoveDirSteps
<1>22. ASSUME NEW r \in Runs, MakeDir(r) PROVE SerialInv'
  BY <1>22, MakeDirSteps
<1>23. ASSUME NEW r \in Runs, SymlinkConfig(r) PROVE SerialInv'
  BY <1>23, SymlinkConfigSteps
<1>24. ASSUME NEW r \in Runs, WriteSeed(r) PROVE SerialInv'
  BY <1>24, WriteSeedSteps
<1>25. ASSUME NEW r \in Runs, LaunchPod(r) PROVE SerialInv'
  BY <1>25, LaunchPodSteps
<1>26. ASSUME NEW r \in Runs, LaunchFunction(r) PROVE SerialInv'
  BY <1>26, LaunchFunctionSteps
<1>27. ASSUME NEW r \in Runs, PodStarted(r) PROVE SerialInv'
  BY <1>27, PodStartedSteps
<1>28. ASSUME NEW r \in Runs, PodNotStarted(r) PROVE SerialInv'
  BY <1>28, PodNotStartedSteps
<1>29. ASSUME NEW r \in Runs, Undo(r) PROVE SerialInv'
  BY <1>29, UndoSteps
<1>30. ASSUME NEW r \in Runs, UndoNext(r) PROVE SerialInv'
  BY <1>30, UndoNextSteps
<1>31. ASSUME NEW r \in Runs, ListAll(r) PROVE SerialInv'
  BY <1>31, ListAllSteps
<1>32. ASSUME NEW r \in Runs, NEW d \in Names, NextDoomed(r, d) PROVE SerialInv'
  BY <1>32, NextDoomedSteps
<1>33. ASSUME NEW r \in Runs, Finish(r) PROVE SerialInv'
  BY <1>33, TheRunGivesUp DEF Finish, Idle, Fails
<1>34. ASSUME NEW r \in Runs, MonitorFails(r) PROVE SerialInv'
  BY <1>34, TheRunGivesUp DEF MonitorFails, Idle, Fails
<1>35. CASE UNCHANGED vars
  BY <1>1, <1>35 DEF vars, world, local, budget
<1> QED
  BY <1>2, <1>3, <1>4, <1>5, <1>6, <1>7, <1>8, <1>9, <1>10, <1>11, <1>12, <1>13, <1>14,
     <1>15, <1>16, <1>17, <1>18, <1>19, <1>20, <1>21, <1>22, <1>23, <1>24, <1>25, <1>26,
     <1>27, <1>28, <1>29, <1>30, <1>31, <1>32, <1>33, <1>34, <1>35
  DEF Next, Systemd, Run, Choose, Remove, Create, Launch, Cleanup

LEMMA SerialAlways == ASSUME Serial PROVE Spec => []SerialInv
<1>1. SerialInv /\ [Next]_vars => SerialInv'
  BY SerialStep
<1> QED
  BY SerialInit, <1>1, PTL DEF Spec
-----------------------------------------------------------------------------
\* The configuration of a deployment goes in one step only.
LEMMA LinkGoesAt ==
  ASSUME TypeInv, Next, NEW d \in Names, "link" \in files[d], "link" \notin files'[d]
  PROVE  \E r \in Runs : RemoveFiles(r) /\ target[r] = d
<1>1. files' # files
  OBVIOUS
<1>2. files \in [Names -> SUBSET Files]
  BY DEF TypeInv, TypeOK
<1>3. ASSUME NEW e \in Names, Systemd(e) PROVE FALSE
  BY <1>1, <1>3 DEF Systemd, UnitUp, UnitFails, UnitDown, UnitCrashes, SetUnit
<1>4. ASSUME NEW r \in Runs, Choose(r) \/ Launch(r) \/ Cleanup(r) \/ Killed(r) PROVE FALSE
  BY <1>1, <1>4
  DEF Choose, ListPart, NamesExhausted, UseStarted, UseStarting, UseStopped, NewName, Launch,
      LaunchPod, LaunchFunction, PodStarted, PodNotStarted, Undo, UndoNext, Cleanup, ListAll,
      NextDoomed, Finish, MonitorFails, ListFails, Killed, world
<1>5. ASSUME NEW r \in Runs, Create(r) PROVE FALSE
  <2>1. files'[d] = files[d] \/ \E f : files' = [files EXCEPT ![target[r]] = @ \union {f}]
    BY <1>5 DEF Create, MakeDir, SymlinkConfig, WriteSeed
  <2> QED
    BY <1>2, <2>1
<1>6. ASSUME NEW r \in Runs, Remove(r) PROVE RemoveFiles(r) /\ target[r] = d
  <2>1. CASE RemoveFiles(r)
    BY <1>2, <2>1 DEF RemoveFiles
  <2>2. CASE RemoveDir(r)
    BY <1>1, <1>2, <2>2 DEF RemoveDir
  <2> QED
    BY <1>1, <1>6, <2>1, <2>2 DEF Remove, StopUnit, UnitStopped, StopTimesOut, world
<1> QED
  BY <1>1, <1>3, <1>4, <1>5, <1>6 DEF Next, EditConfig, Begin, BeginFails, Run, world

\* remove_deployment.go:74-124: for any number of parts, names, runs and
\* failures, as long as operations on the service are serialised, the
\* configuration of a deployment is removed only when its unit has ended, but
\* for a rolling restart whose stop has timed out.
THEOREM RemovalAwaited == ASSUME Serial PROVE Spec => RemovedOnlyWhenStopped
<1>1. SerialInv /\ [Next]_vars =>
        [\A d \in Names :
           "link" \in files[d] /\ "link" \notin files'[d]
           => /\ d \notin sock'
              /\ \/ unit[d] \in {"inactive", "failed"}
                 \/ /\ unit[d] = "deactivating" /\ faults > 0
                    /\ \E r \in Runs : mode[r] = "fresh" /\ target[r] = d]_vars
  <2> SUFFICES ASSUME SerialInv, Next, NEW d \in Names,
                      "link" \in files[d], "link" \notin files'[d]
               PROVE  /\ d \notin sock'
                      /\ \/ unit[d] \in {"inactive", "failed"}
                         \/ /\ unit[d] = "deactivating" /\ faults > 0
                            /\ \E r \in Runs : mode[r] = "fresh" /\ target[r] = d
    BY DEF vars, world
  <2>1. PICK r \in Runs : RemoveFiles(r) /\ target[r] = d
    BY LinkGoesAt DEF SerialInv
  <2> QED
    BY <2>1 DEF RemoveFiles, SerialInv, StepsInv, TargetStopped, Halted
<1> QED
  BY <1>1, SerialAlways, PTL DEF Spec, RemovedOnlyWhenStopped

\* An operation ends well in one step only, when its list is empty.
LEMMA EndsWellAt ==
  ASSUME TypeInv, Next, NEW r \in Runs, pc[r] = "cleanup", pc'[r] \in {"done", "monitor"}
  PROVE  doomed[r] = {}
<1>1. ASSUME NEW q \in Runs, Run(q) \/ Killed(q), q # r PROVE FALSE
  BY <1>1
  DEF Run, Choose, ListPart, NamesExhausted, UseStarted, UseStarting, UseStopped, NewName, Remove,
      StopUnit, UnitStopped, StopTimesOut, RemoveFiles, RemoveDir, RemoveFails, Create, MakeDir,
      SymlinkConfig, WriteSeed, Launch, LaunchPod, LaunchFunction, PodStarted, PodNotStarted,
      Undo, UndoNext, Cleanup, ListAll, NextDoomed, Finish, MonitorFails, ListFails, Killed,
      Fails, End, Step, Goto, NextPart, TypeInv, TypeOK
<1>2. ASSUME Run(r) \/ Killed(r) PROVE doomed[r] = {}
  <2>1. Cleanup(r) \/ Killed(r)
    BY <1>2
    DEF Run, Choose, ListPart, NamesExhausted, UseStarted, UseStarting, UseStopped, NewName,
        Remove, StopUnit, UnitStopped, StopTimesOut, RemoveFiles, RemoveDir, Create, MakeDir,
        SymlinkConfig, WriteSeed, Launch, LaunchPod, LaunchFunction, PodStarted, PodNotStarted,
        Undo, UndoNext
  <2> QED
    BY <2>1
    DEF Cleanup, ListAll, NextDoomed, Finish, MonitorFails, ListFails, Killed, Fails, End, Goto,
        TypeInv, TypeOK
<1>3. ASSUME NEW q \in Runs, NEW m \in AllModes, Begin(q, m) \/ BeginFails(q, m) PROVE FALSE
  BY <1>3 DEF Begin, BeginFails, CanBegin, Idle, End, Goto, TypeInv, TypeOK
<1>4. ASSUME NEW d \in Names, Systemd(d) PROVE FALSE
  BY <1>4 DEF Systemd, UnitUp, UnitFails, UnitDown, UnitCrashes, SetUnit
<1> QED
  BY <1>1, <1>2, <1>3, <1>4 DEF Next, EditConfig

\* stop_service.go: for any number of parts, names, runs and failures, a stop
\* that ends well leaves nothing running, as long as operations are serialised.
THEOREM StopLeavesNothing == ASSUME Serial PROVE Spec => StopStopsAll
<1>1. SerialInv /\ [Next]_vars =>
        [\A r \in Runs :
           mode[r] = "stop" /\ pc[r] = "cleanup" /\ pc'[r] = "done"
           => \A d \in Names :
                /\ ~Serving(d)
                /\ unit[d] \notin {"inactive", "failed"} =>
                     unit[d] = "deactivating" /\ files[d] = {} /\ faults > 0]_vars
  <2> SUFFICES ASSUME SerialInv, [Next]_vars, NEW r \in Runs,
                      mode[r] = "stop", pc[r] = "cleanup", pc'[r] = "done", NEW d \in Names
               PROVE  /\ ~Serving(d)
                      /\ unit[d] \notin {"inactive", "failed"} =>
                           unit[d] = "deactivating" /\ files[d] = {} /\ faults > 0
    OBVIOUS
  <2>1. doomed[r] = {}
    BY EndsWellAt DEF vars, SerialInv
  <2>2. Quiet(d)
    BY <2>1 DEF SerialInv, StepsInv, StopsAll
  <2> QED
    BY <2>2 DEF Quiet, Loose, Halted, Serving
<1> QED
  BY <1>1, SerialAlways, PTL DEF Spec, StopStopsAll

\* A rollout succeeds in one step only, which is the end of the cleanup.
LEMMA SucceedsAt ==
  ASSUME TypeInv, Next, NEW r \in Runs, RollingOut(r), pc'[r] \in {"done", "monitor"}
  PROVE  pc[r] = "cleanup"
<1>1. pc[r] \notin Idle \union {"monitor"} /\ pc'[r] # pc[r]
  BY DEF RollingOut, Idle
<1>2. ASSUME NEW q \in Runs, Run(q) \/ Killed(q), q # r PROVE FALSE
  BY <1>1, <1>2
  DEF Run, Choose, ListPart, NamesExhausted, UseStarted, UseStarting, UseStopped, NewName, Remove,
      StopUnit, UnitStopped, StopTimesOut, RemoveFiles, RemoveDir, RemoveFails, Create, MakeDir,
      SymlinkConfig, WriteSeed, Launch, LaunchPod, LaunchFunction, PodStarted, PodNotStarted,
      Undo, UndoNext, Cleanup, ListAll, NextDoomed, Finish, MonitorFails, ListFails, Killed,
      Fails, End, Step, Goto, NextPart, TypeInv, TypeOK
<1>3. ASSUME Choose(r) \/ Create(r) PROVE FALSE
  BY <1>1, <1>3
  DEF Choose, ListPart, NamesExhausted, UseStarted, UseStarting, UseStopped, NewName, Create,
      MakeDir, SymlinkConfig, WriteSeed, Fails, End, Step, Goto, NextPart, TypeInv, TypeOK
<1>4. ASSUME Remove(r) \/ Launch(r) PROVE FALSE
  BY <1>1, <1>4
  DEF Remove, StopUnit, UnitStopped, StopTimesOut, RemoveFiles, RemoveDir, RemoveFails, Launch,
      LaunchPod, LaunchFunction, PodStarted, PodNotStarted, Undo, UndoNext, Fails, End, Step,
      Goto, NextPart, TypeInv, TypeOK
<1>5. ASSUME Cleanup(r) \/ Killed(r) PROVE pc[r] = "cleanup"
  BY <1>1, <1>5
  DEF Cleanup, ListAll, NextDoomed, Finish, MonitorFails, ListFails, Killed, Fails, End, Goto,
      TypeInv, TypeOK
<1>6. ASSUME NEW q \in Runs, NEW m \in AllModes, Begin(q, m) \/ BeginFails(q, m) PROVE FALSE
  BY <1>1, <1>6 DEF Begin, BeginFails, CanBegin, End, Goto, TypeInv, TypeOK
<1>7. ASSUME NEW d \in Names, Systemd(d) PROVE FALSE
  BY <1>1, <1>7 DEF Systemd, UnitUp, UnitFails, UnitDown, UnitCrashes, SetUnit
<1>8. ASSUME NEW p \in Parts, NEW id \in PartIds, EditConfig(p, id) PROVE FALSE
  BY <1>1, <1>8 DEF EditConfig
<1> QED
  BY <1>2, <1>3, <1>4, <1>5, <1>6, <1>7, <1>8 DEF Next, Run

\* What a rollout that succeeds leaves, for pods and functions.
LEMMA SuccessServes ==
  ASSUME "crash" \notin FaultKinds, SerialInv, Next, NEW r \in Runs, RollingOut(r),
         pc'[r] \in {"done", "monitor"}, NEW p \in Parts
  PROVE  \E d \in kept[r] : d[1] = p /\ Serving(d) /\ seedId[d] = conf[r][p]
<1>1. pc[r] = "cleanup"
  BY SucceedsAt DEF SerialInv
<1>2. idx[r] = NumParts + 1 /\ p < idx[r]
  BY <1>1, NumPartsAssumption DEF SerialInv, TypeInv, PhaseOK, Parts
<1> QED
  BY <1>1, <1>2 DEF SerialInv, StepsInv, PartsServed

\* start_service.go:126-232: READY of an operation that succeeded, for any number of
\* parts (pods and functions), names, runs and failures but pods that die by
\* themselves: each part is served by a deployment that the run keeps and that has
\* the configuration it loaded.
SuccessMeansServed ==
  [][\A r \in Runs : TellsReady(r) /\ pc'[r] # "failed" =>
       \A p \in Parts : \E d \in kept[r] :
         d[1] = p /\ Serving(d) /\ seedId[d] = conf[r][p]]_vars

THEOREM SuccessServed ==
  ASSUME Serial, "crash" \notin FaultKinds PROVE Spec => SuccessMeansServed
<1>1. SerialInv /\ [Next]_vars =>
        [\A r \in Runs : TellsReady(r) /\ pc'[r] # "failed" =>
           \A p \in Parts : \E d \in kept[r] :
             d[1] = p /\ Serving(d) /\ seedId[d] = conf[r][p]]_vars
  BY SuccessServes DEF TellsReady
<1> QED
  BY <1>1, SerialAlways, PTL DEF Spec, SuccessMeansServed

\* start_service.go:74-93, 126-232: for services made of pods that do not die by
\* themselves, READY means what ReadyMeansServed says, also where a reload or a
\* rolling restart tells it after an error.
THEOREM ReadyServed == ASSUME PodsSerialised PROVE Spec => ReadyMeansServed
<1>1. ASSUME SerialInv, NoDowntime, [Next]_vars
      PROVE  [\A r \in Runs : TellsReady(r) =>
                \A p \in Parts :
                  IF pc'[r] = "failed"
                  THEN p \notin FunctionParts /\ (\E d \in before[r] : d[1] = p) => Served(p)
                  ELSE \E d \in kept[r] : d[1] = p /\ Serving(d) /\ seedId[d] = conf[r][p]]_vars
  <2> SUFFICES ASSUME Next, NEW r \in Runs, TellsReady(r), NEW p \in Parts
               PROVE  IF pc'[r] = "failed"
                      THEN p \notin FunctionParts /\ (\E d \in before[r] : d[1] = p) => Served(p)
                      ELSE \E d \in kept[r] : d[1] = p /\ Serving(d) /\ seedId[d] = conf[r][p]
    BY <1>1
  <2>1. CASE pc'[r] = "failed"
    BY <1>1, <2>1 DEF TellsReady, NoDowntime, Served
  <2>2. CASE pc'[r] # "failed"
    <3>1. \E d \in kept[r] : d[1] = p /\ Serving(d) /\ seedId[d] = conf[r][p]
      BY <1>1, <2>2, SuccessServes DEF TellsReady, PodsSerialised
    <3> QED
      BY <2>2, <3>1
  <2> QED
    BY <2>1, <2>2
<1>2. Serial
  BY DEF PodsSerialised
<1> QED
  BY <1>1, <1>2, SerialAlways, ZeroDowntime, PTL DEF Spec, ReadyMeansServed

\* What takes a deployment away that serves.
LEMMA ServingGoesAt ==
  ASSUME SerialInv, Next, "crash" \notin FaultKinds, NEW d \in Names, Serving(d), ~Serving(d)'
  PROVE  \E r \in Runs : StopUnit(r) \/ pc[r] = "undo"
<1>1. unit' # unit \/ sock' # sock
  BY DEF Serving, IsFunction
<1>2. ASSUME NEW e \in Names, Systemd(e) PROVE FALSE
  <2>1. unit[e] \in {"activating", "deactivating"} /\ \E s : SetUnit(e, s)
    BY <1>2 DEF Systemd, UnitUp, UnitFails, UnitDown, UnitCrashes, Fault
  <2> QED
    BY <2>1 DEF SetUnit, Serving, IsFunction, SerialInv, TypeInv, TypeOK
<1>3. ASSUME NEW r \in Runs, Choose(r) \/ Create(r) \/ Cleanup(r) \/ Killed(r) PROVE FALSE
  BY <1>1, <1>3
  DEF Choose, ListPart, NamesExhausted, UseStarted, UseStarting, UseStopped, NewName, Create,
      MakeDir, SymlinkConfig, WriteSeed, Cleanup, ListAll, NextDoomed, Finish, MonitorFails,
      ListFails, Killed, world
<1>4. ASSUME NEW r \in Runs, Launch(r) PROVE pc[r] = "undo"
  <2>1. ASSUME LaunchPod(r) \/ LaunchFunction(r) PROVE FALSE
    <3>1. /\ sock \subseteq sock'
          /\ unit' = unit \/ unit' = [unit EXCEPT ![target[r]] = AfterStartJob(@)]
      BY <2>1 DEF LaunchPod, LaunchFunction
    <3> QED
      BY <3>1 DEF Serving, IsFunction, AfterStartJob, SerialInv, TypeInv, TypeOK
  <2> QED
    BY <1>1, <1>4, <2>1 DEF Launch, PodStarted, PodNotStarted, Undo, UndoNext, world
<1>5. ASSUME NEW r \in Runs, Remove(r) PROVE StopUnit(r)
  <2>1. ASSUME RemoveFiles(r) PROVE FALSE
    BY <1>1, <2>1 DEF RemoveFiles, SerialInv, StepsInv, TargetStopped
  <2> QED
    BY <1>1, <1>5, <2>1 DEF Remove, UnitStopped, StopTimesOut, RemoveDir, world
<1> QED
  BY <1>1, <1>2, <1>3, <1>4, <1>5 DEF Next, EditConfig, Begin, BeginFails, Run, world

\* start_service.go:126-232: as long as reloads and rolling restarts
\* follow each other and no pod dies by itself, a part that is served stays
\* served, for any number of parts, names, runs, edits and failures.
THEOREM ServedStays == ASSUME Serial, "crash" \notin FaultKinds PROVE Spec => StaysServed
<1>1. SerialInv /\ [Next]_vars =>
        [(\A r \in Runs : pc[r] \in Idle \/ (mode[r] \in {"reload", "fresh"} /\ pc[r] # "undo"))
         => \A p \in Parts : Served(p) => Served(p)']_vars
  <2> SUFFICES ASSUME SerialInv, Next,
                      \A r \in Runs :
                        pc[r] \in Idle \/ (mode[r] \in {"reload", "fresh"} /\ pc[r] # "undo"),
                      NEW p \in Parts, NEW d \in Names, d[1] = p, Serving(d), ~Serving(d)'
               PROVE  \E e \in Names : e[1] = p /\ Serving(e)'
    BY DEF vars, world, Served, Serving, IsFunction
  <2>1. PICK r \in Runs : StopUnit(r)
    BY ServingGoesAt DEF Idle
  <2>2. RollingOut(r) /\ StepsInv(r) /\ TypeInv /\ pc[r] = "stop"
    BY <2>1 DEF StopUnit, RollingOut, RolloutModes, Idle, SerialInv
  <2>3. CASE idx[r] \in Parts
    BY <2>1, <2>2, <2>3, StopSpares
  <2>4. CASE idx[r] = NumParts + 1
    <3>1. p < idx[r]
      BY <2>4, NumPartsAssumption DEF Parts
    <3>2. PICK e \in kept[r] : e[1] = p /\ Serving(e)
      BY <2>2, <3>1 DEF StepsInv, PartsServed
    <3> QED
      BY <2>1, <2>2, <3>2, RunFacts, StopSpares
  <2> QED
    BY <2>2, <2>3, <2>4, RunFacts, PartsFacts
<1> QED
  BY <1>1, SerialAlways, PTL DEF Spec, StaysServed
=============================================================================
