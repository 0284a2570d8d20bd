-------------------------- MODULE Lifecycle_proofs --------------------------
(***************************************************************************)
(* However often a deployment is started, fails, is killed and is removed: *)
(* what Caddy has of a ready one is its pod's address, Caddy is told       *)
(* before a pod goes, and a removal leaves nothing.                        *)
(***************************************************************************)
EXTENDS Lifecycle, TLAPS

(***************************************************************************)
(* Types.  Each address is one of a start or of a fault that led to a      *)
(* restart: where a pod may be played yet, there is one left.              *)
(***************************************************************************)
BeforePlay == {"template", "saveTemplate", "preStart", "play", "restart"}
AfterPlay == {"find", "truncate", "save", "postStart", "register", "ready", "active"}

MayPlay ==
  \/ phase \in BeforePlay
  \/ phase \in Stopping \union {"cleanup"} /\ ~asked
  \/ phase \in AfterPlay /\ pod.is # "running"

AddressLeft ==
  /\ pod.ip <= starts + faults
  /\ MayPlay => pod.ip < starts + faults

TypeInv == TypeOK /\ AddressLeft

LEMMA TypeInit == Init => TypeInv
<1> SUFFICES ASSUME Init PROVE TypeInv
  OBVIOUS
<1>1. None \in Addresses
  BY BoundsAssumption DEF None, Addresses
<1>2. file \in [ok : BOOLEAN, ip : Addresses]
  BY <1>1 DEF Init
<1>3. pod \in [is : {"absent", "running", "exited"}, ip : Addresses]
  BY <1>1 DEF Init
<1>4. asked \in BOOLEAN /\ dir \in BOOLEAN /\ cut \in BOOLEAN
  BY DEF Init
<1>5. starts \in 0..MaxStarts /\ faults \in 0..MaxFaults
  BY BoundsAssumption DEF Init
<1>6. /\ phase = "inactive" /\ config = "inactive" /\ remover = "idle" /\ pod.ip = 0
      /\ caddy = None /\ ip = None /\ starts = 0 /\ faults = 0
  BY DEF Init, None
<1>7. TypeOK
  BY <1>1, <1>2, <1>3, <1>4, <1>5, <1>6 DEF TypeOK, Resting
<1>8. AddressLeft
  BY <1>6 DEF AddressLeft, MayPlay, BeforePlay, AfterPlay, Stopping
<1> QED
  BY <1>7, <1>8 DEF TypeInv

LEMMA RemoveAllTypes ==
  ASSUME TypeOK, RemoveAll
  PROVE  TypeOK'
BY DEF RemoveAll, TypeOK, unit

LEMMA TypeStep == TypeInv /\ [Next]_vars => TypeInv'
<1> SUFFICES ASSUME TypeInv, [Next]_vars PROVE TypeInv'
  OBVIOUS
<1> USE BoundsAssumption
    DEF TypeInv, TypeOK, AddressLeft, MayPlay, BeforePlay, AfterPlay, Stopping, Starting, Resting,
        Addresses, None, unit, Outside, Step, Quietly, Fault, Killed, FailsAt
<1>1. CASE Prepare
  <2>1. CASE /\ Step("template", "saveTemplate")
             /\ ip' = file.ip /\ file' = [file EXCEPT !.ok = FALSE]
             /\ UNCHANGED <<pod, faults>>
    <3>1. file' \in [ok : BOOLEAN, ip : Addresses]
      BY <2>1
    <3> QED
      BY <2>1, <3>1
  <2>2. CASE FailsAt("template") /\ (UNCHANGED faults \/ Fault)
    BY <2>2
  <2> QED
    BY <1>1, <2>1, <2>2 DEF Prepare
<1>2. CASE PreStart
  BY <1>2 DEF PreStart
<1>3. CASE Play
  BY <1>3 DEF Play
<1>4. CASE FindPodIPAddress
  BY <1>4 DEF FindPodIPAddress
<1>5. CASE Truncate
  BY <1>5 DEF Truncate
<1>6. CASE PostStart
  BY <1>6 DEF PostStart
<1>7. CASE Register
  BY <1>7 DEF Register
<1>8. CASE NotifyReady
  BY <1>8 DEF NotifyReady
<1>9. CASE SaveConfig("saveTemplate", "preStart") \/ SaveConfig("save", "postStart")
  <2>1. file' = [ok |-> TRUE, ip |-> ip] /\ ip \in Addresses
    BY <1>9 DEF SaveConfig
  <2>2. file' \in [ok : BOOLEAN, ip : Addresses]
    BY <2>1
  <2> QED
    BY <1>9, <2>2 DEF SaveConfig
<1>10. CASE CgroupEmpty
  BY <1>10 DEF CgroupEmpty
<1>11. CASE PreStop
  BY <1>11 DEF PreStop
<1>12. CASE Deregister
  BY <1>12 DEF Deregister, StopConfig
<1>13. CASE Down
  BY <1>13 DEF Down
<1>14. CASE Cleanup
  BY <1>14 DEF Cleanup
<1>15. CASE Restart
  BY <1>15 DEF Restart
<1>16. CASE ConfigRestarts
  BY <1>16 DEF ConfigRestarts
<1>17. CASE Stopped \/ RemoveAll
  <2>1. CASE Stopped
    BY <2>1 DEF Stopped
  <2>2. CASE RemoveAll
    <3>1. TypeOK'
      BY <2>2, RemoveAllTypes
    <3>2. AddressLeft'
      BY <2>2 DEF RemoveAll
    <3> QED
      BY <3>1, <3>2
  <2> QED
    BY <1>17, <2>1, <2>2
<1>18. CASE RemoveConfig
  BY <1>18 DEF RemoveConfig, StopConfig
<1>19. CASE StartUnit
  <2>1. phase' = "template" /\ asked' = FALSE /\ starts' = starts + 1 /\ starts < MaxStarts
    BY <1>19 DEF StartUnit
  <2>2. starts' \in 0..MaxStarts /\ starts' + faults' = starts + faults + 1
    BY <1>19, <2>1 DEF StartUnit
  <2>3. TypeOK'
    BY <1>19, <2>1, <2>2 DEF StartUnit
  <2>4. AddressLeft'
    BY <1>19, <2>1, <2>2 DEF StartUnit
  <2> QED
    BY <2>3, <2>4
<1>20. CASE ContainersExit
  BY <1>20 DEF ContainersExit
<1>21. CASE Stop
  <2> asked' = TRUE /\ faults < MaxFaults /\ faults' = faults + 1 /\ phase \notin Resting
    BY <1>21 DEF Stop, AskStop, CutShort
  <2>1. CASE phase \in Starting
    BY <1>21, <2>1 DEF Stop, AskStop, CutShort
  <2>2. CASE phase \notin Starting
    BY <1>21, <2>2 DEF Stop, AskStop, CutShort
  <2> QED
    BY <2>1, <2>2
<1>22. CASE TimesOut
  BY <1>22 DEF TimesOut, KillAll, CutShort
<1>23. CASE CaddyRestarts
  BY <1>23 DEF CaddyRestarts
<1>24. CASE Remove
  BY <1>24 DEF Remove, AskStop, CutShort
<1>25. CASE RemoverKills
  BY <1>25 DEF RemoverKills, KillAll, CutShort
<1>26. CASE UNCHANGED vars
  BY <1>26 DEF vars
<1> QED
  BY <1>1, <1>2, <1>3, <1>4, <1>5, <1>6, <1>7, <1>8, <1>9, <1>10, <1>11, <1>12, <1>13, <1>14,
     <1>15, <1>16, <1>17, <1>18, <1>19, <1>20, <1>21, <1>22, <1>23, <1>24, <1>25, <1>26
     DEF Next, Progress, StartStep, StopStep

(***************************************************************************)
(* The removal.                                                            *)
(***************************************************************************)
\* What is being removed has been asked to stop, is down or about to be when its
\* configuration unit is stopped, and stays so; a unit that is down has nothing in Caddy.
RemovalInv ==
  /\ remover # "idle" => asked = TRUE
  /\ remover \in {"config", "rm", "done"} => phase \in Resting \union {"cleanup"}
  /\ remover \in {"rm", "done"} => config \in {"inactive", "failed"}
  /\ config = "inactive" => caddy = None

\* A configuration unit that is up is stopped, or fails; another one is left as it is.
LEMMA StopConfigFacts ==
  ASSUME StopConfig
  PROVE  \/ config # "active" /\ config' = config /\ caddy' = caddy
         \/ config' = "inactive" /\ caddy' = None
         \/ config' = "failed" /\ caddy' = caddy
BY DEF StopConfig

LEMMA RemovalInit == Init => RemovalInv
BY DEF Init, RemovalInv

LEMMA RemovalStep == TypeOK /\ RemovalInv /\ [Next]_vars => RemovalInv'
<1> SUFFICES ASSUME TypeOK, RemovalInv, [Next]_vars PROVE RemovalInv'
  OBVIOUS
<1> USE DEF RemovalInv, Resting, unit, Outside, Step, Quietly, FailsAt
<1>1. CASE Prepare
  BY <1>1 DEF Prepare
<1>2. CASE PreStart
  BY <1>2 DEF PreStart
<1>3. CASE Play
  BY <1>3 DEF Play
<1>4. CASE FindPodIPAddress
  BY <1>4 DEF FindPodIPAddress
<1>5. CASE Truncate
  BY <1>5 DEF Truncate
<1>6. CASE PostStart
  BY <1>6 DEF PostStart
<1>7. CASE Register
  BY <1>7 DEF Register
<1>8. CASE NotifyReady
  BY <1>8 DEF NotifyReady
<1>9. CASE SaveConfig("saveTemplate", "preStart") \/ SaveConfig("save", "postStart")
  BY <1>9 DEF SaveConfig
<1>10. CASE CgroupEmpty
  BY <1>10 DEF CgroupEmpty
<1>11. CASE PreStop
  BY <1>11 DEF PreStop
<1>12. CASE Deregister
  <2>1. phase = "deregister" /\ StopConfig /\ remover' = remover /\ asked' = asked
    BY <1>12 DEF Deregister
  <2>2. config' = "inactive" => caddy' = None
    BY <2>1, StopConfigFacts
  <2>3. remover \notin {"config", "rm", "done"}
    BY <2>1
  <2> QED
    BY <2>1, <2>2, <2>3
<1>13. CASE Down
  BY <1>13 DEF Down
<1>14. CASE Cleanup
  BY <1>14 DEF Cleanup
<1>15. CASE Restart
  BY <1>15 DEF Restart
<1>16. CASE ConfigRestarts
  BY <1>16 DEF ConfigRestarts
<1>17. CASE Stopped \/ RemoveAll
  BY <1>17 DEF Stopped, RemoveAll
<1>18. CASE RemoveConfig
  <2>1. /\ StopConfig /\ config # "restarting" /\ remover = "config"
        /\ remover' \in {"idle", "rm"} /\ UNCHANGED <<phase, asked>>
    BY <1>18 DEF RemoveConfig
  <2>2. config' \in {"inactive", "failed"} /\ (config' = "inactive" => caddy' = None)
    BY <2>1, StopConfigFacts DEF TypeOK
  <2> QED
    BY <2>1, <2>2
<1>19. CASE StartUnit
  BY <1>19 DEF StartUnit
<1>20. CASE ContainersExit
  BY <1>20 DEF ContainersExit
<1>21. CASE Stop
  BY <1>21 DEF Stop, AskStop, CutShort
<1>22. CASE TimesOut
  BY <1>22 DEF TimesOut, KillAll, CutShort
<1>23. CASE CaddyRestarts
  BY <1>23 DEF CaddyRestarts
<1>24. CASE Remove
  BY <1>24 DEF Remove, AskStop, CutShort
<1>25. CASE RemoverKills
  BY <1>25 DEF RemoverKills, KillAll, CutShort
<1>26. CASE UNCHANGED vars
  BY <1>26 DEF vars
<1> QED
  BY <1>1, <1>2, <1>3, <1>4, <1>5, <1>6, <1>7, <1>8, <1>9, <1>10, <1>11, <1>12, <1>13, <1>14,
     <1>15, <1>16, <1>17, <1>18, <1>19, <1>20, <1>21, <1>22, <1>23, <1>24, <1>25, <1>26
     DEF Next, Progress, StartStep, StopStep

(***************************************************************************)
(* What is registered, as long as nothing has been cut short.              *)
(***************************************************************************)
Registered == {"ready", "active", "preStop", "deregister"}

\* The configuration unit is up only from the registration to the deregistration, and has
\* registered what the file says, which is the address of the pod from the second save on.
RegisteredInv ==
  /\ ~cut /\ phase \notin Registered => config \in {"inactive", "failed"}
  /\ phase \in {"truncate", "save"} => ip = pod.ip
  /\ phase \in {"postStart", "register"} \union Registered => file.ip = pod.ip
  /\ ~cut /\ config = "active" => caddy = file.ip

LEMMA RegisteredInit == Init => RegisteredInv
BY DEF Init, RegisteredInv, Registered

LEMMA RegisteredStep == TypeOK /\ RegisteredInv /\ [Next]_vars => RegisteredInv'
<1> SUFFICES ASSUME TypeOK, RegisteredInv, [Next]_vars PROVE RegisteredInv'
  OBVIOUS
<1> file \in [ok : BOOLEAN, ip : Addresses] /\ pod \in [is : {"absent", "running", "exited"}, ip : Addresses]
  BY DEF TypeOK
<1> config \in {"inactive", "active", "restarting", "failed"} /\ cut \in BOOLEAN
  BY DEF TypeOK
<1> USE DEF RegisteredInv, Registered, Starting, Stopping, Resting, unit, Outside, Step, Quietly, Killed, FailsAt
<1>1. CASE Prepare
  BY <1>1 DEF Prepare
<1>2. CASE PreStart
  BY <1>2 DEF PreStart
<1>3. CASE Play
  BY <1>3 DEF Play
<1>4. CASE FindPodIPAddress
  BY <1>4 DEF FindPodIPAddress
<1>5. CASE Truncate
  BY <1>5 DEF Truncate
<1>6. CASE PostStart
  BY <1>6 DEF PostStart
<1>7. CASE Register
  BY <1>7 DEF Register
<1>8. CASE NotifyReady
  BY <1>8 DEF NotifyReady
<1>9. CASE SaveConfig("saveTemplate", "preStart") \/ SaveConfig("save", "postStart")
  BY <1>9 DEF SaveConfig
<1>10. CASE CgroupEmpty
  BY <1>10 DEF CgroupEmpty
<1>11. CASE PreStop
  BY <1>11 DEF PreStop
<1>12. CASE Deregister
  <2>1. /\ phase = "deregister" /\ phase' = "down" /\ StopConfig /\ config # "restarting"
        /\ UNCHANGED <<ip, pod, file, cut>>
    BY <1>12 DEF Deregister
  <2>2. config' \in {"inactive", "failed"}
    BY <2>1, StopConfigFacts DEF TypeOK
  <2> QED
    BY <2>1, <2>2
<1>13. CASE Down
  BY <1>13 DEF Down
<1>14. CASE Cleanup
  BY <1>14 DEF Cleanup
<1>15. CASE Restart
  BY <1>15 DEF Restart
<1>16. CASE ConfigRestarts
  BY <1>16 DEF ConfigRestarts
<1>17. CASE Stopped \/ RemoveAll
  BY <1>17 DEF Stopped, RemoveAll
<1>18. CASE RemoveConfig
  <2>1. StopConfig /\ config # "restarting" /\ UNCHANGED <<phase, ip, pod, file, cut>>
    BY <1>18 DEF RemoveConfig
  <2>2. config' = "active" => FALSE
    BY <2>1, StopConfigFacts
  <2>3. config' \in {"inactive", "failed"}
    BY <2>1, StopConfigFacts DEF TypeOK
  <2> QED
    BY <2>1, <2>2, <2>3
<1>19. CASE StartUnit
  BY <1>19 DEF StartUnit
<1>20. CASE ContainersExit
  BY <1>20 DEF ContainersExit
<1>21. CASE Stop
  BY <1>21 DEF Stop, AskStop, CutShort
<1>22. CASE TimesOut
  BY <1>22 DEF TimesOut, KillAll, CutShort
<1>23. CASE CaddyRestarts
  BY <1>23 DEF CaddyRestarts
<1>24. CASE Remove
  BY <1>24 DEF Remove, AskStop, CutShort
<1>25. CASE RemoverKills
  BY <1>25 DEF RemoverKills, KillAll, CutShort
<1>26. CASE UNCHANGED vars
  BY <1>26 DEF vars
<1> QED
  BY <1>1, <1>2, <1>3, <1>4, <1>5, <1>6, <1>7, <1>8, <1>9, <1>10, <1>11, <1>12, <1>13, <1>14,
     <1>15, <1>16, <1>17, <1>18, <1>19, <1>20, <1>21, <1>22, <1>23, <1>24, <1>25, <1>26
     DEF Next, Progress, StartStep, StopStep

-----------------------------------------------------------------------------
LifecycleInv == TypeInv /\ RemovalInv /\ RegisteredInv

LEMMA Inductive == Spec => []LifecycleInv
<1>1. Init => LifecycleInv
  BY TypeInit, RemovalInit, RegisteredInit DEF LifecycleInv
<1>2. LifecycleInv /\ [Next]_vars => LifecycleInv'
  BY TypeStep, RemovalStep, RegisteredStep DEF LifecycleInv, TypeInv
<1> QED
  BY <1>1, <1>2, PTL DEF Spec

\* Every variable keeps its type: an address is one of a start or of a fault.
THEOREM LifecycleTypeCorrect == Spec => []TypeOK
<1>1. LifecycleInv => TypeOK
  BY DEF LifecycleInv, TypeInv
<1> QED
  BY <1>1, Inductive, PTL

\* start_stop_pod.go:88-106: for any number of starts, failures, exits and restarts, Caddy
\* has the address of the pod of a deployment that is ready, unless a start or a stop was
\* cut short while the configuration unit was up.
THEOREM ReadyReached == Spec => []ReadyIsReachedUncut
<1>1. LifecycleInv => ReadyIsReachedUncut
  BY DEF LifecycleInv, RegisteredInv, Registered, ReadyIsReachedUncut, ReadyIsReached, Served
<1> QED
  BY <1>1, Inductive, PTL

\* remove_deployment.go:119: a removal that ends well leaves nothing with Caddy, whatever
\* was killed or cut short before and while it runs.
THEOREM RemovalClean == Spec => []RemovedClean
<1>1. LifecycleInv => RemovedClean
  BY DEF LifecycleInv, RemovalInv, RemovedClean
<1> QED
  BY <1>1, Inductive, PTL

\* start_stop_pod.go:131: a pod that runs is taken down only after Caddy has been told.
THEOREM DeregisteredBeforeDown == Spec => DeregisteredFirst
<1>1. LifecycleInv /\ [Next]_vars =>
        [phase = "down" /\ phase' = "cleanup" /\ ~cut' /\ config # "failed"
         => caddy = None]_vars
  <2> SUFFICES ASSUME LifecycleInv, Next, phase = "down", phase' = "cleanup", ~cut',
                      config # "failed"
               PROVE  caddy = None
    BY DEF vars
  <2>1. ~cut
    BY DEF Next, Progress, StartStep, StopStep, Prepare, PreStart, Play, FindPodIPAddress, Truncate,
           PostStart, Register, NotifyReady, SaveConfig, CgroupEmpty, PreStop, Deregister, Down,
           Cleanup, Restart, ConfigRestarts, Stopped, RemoveConfig, RemoveAll, StartUnit,
           ContainersExit, Stop, TimesOut, CaddyRestarts, Remove, RemoverKills, AskStop, KillAll, CutShort,
           FailsAt, Quietly, Step, Outside, unit
  <2>2. config = "inactive"
    BY <2>1 DEF LifecycleInv, RegisteredInv, Registered
  <2> QED
    BY <2>2 DEF LifecycleInv, RemovalInv
<1> QED
  BY <1>1, Inductive, PTL DEF Spec, DeregisteredFirst
=============================================================================
