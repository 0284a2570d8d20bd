--------------------------- MODULE Services_proofs ---------------------------
(***************************************************************************)
(* What the service commands keep, however they overlap: the shape of      *)
(* their state, what they have reported, and what a reload leaves behind.  *)
(***************************************************************************)
EXTENDS Services, ServiceConfig_proofs

(***************************************************************************)
(* The steps of a command                                                  *)
(***************************************************************************)
\* The steps of a command as it is or turns out to be.
Plan(cmd, plan) ==
  \/ plan = Program[cmd]
  \/ cmd \in DOMAIN Foreground /\ plan = Foreground[cmd]

\* What it may have still to do.
TodoOf(cmd, t) ==
  \E plan \in Seq(Labels) : Plan(cmd, plan) /\ \E i \in 1..Len(plan) : t = SubSeq(plan, i, Len(plan))

\* Which step comes after which.
Follows(cmd, plan, i) ==
  /\ plan[i] = "load" => /\ i = 1 /\ cmd \notin {"stop", "reloadAll"} /\ i < Len(plan)
                         /\ plan[i + 1] \in {"read", "control", "query", "rollout"}
  /\ plan[i] = "read" => i < Len(plan) /\ plan[i + 1] = "truncate"
  /\ plan[i] = "truncate" => i < Len(plan) /\ plan[i + 1] = "write"
  /\ plan[i] = "write" => i < Len(plan) /\ plan[i + 1] = IF cmd = "set" THEN "check" ELSE "control"
  /\ plan[i] = "check" => cmd = "set" /\ i = Len(plan)
  /\ plan[i] \in {"read", "truncate", "write"} => cmd \in {"enable", "disable", "set"}
  /\ plan[i] = "scan" => cmd = "reloadAll" /\ i < Len(plan) /\ plan[i + 1] = "list"
  /\ plan[i] = "list" => cmd = "reloadAll" /\ i < Len(plan) /\ plan[i + 1] = "stop"
  /\ plan[i] = "stop" => IF cmd = "reloadAll" THEN i < Len(plan) /\ plan[i + 1] = "start" ELSE i = Len(plan)
  /\ plan[i] = "start" => cmd = "reloadAll" /\ i = Len(plan)
  /\ plan[i] \in {"rollout", "query", "control"} => cmd # "reloadAll"
  /\ plan[i] \in {"rollout", "query", "control"} /\ i < Len(plan) => plan[i + 1] \in {"query", "control"}
LEMMA PlanFollows ==
  ASSUME NEW cmd \in DOMAIN Program, NEW plan, Plan(cmd, plan)
  PROVE  /\ plan \in Seq(Labels) /\ Len(plan) \in Nat \ {0}
         /\ \A i \in 1..Len(plan) : Follows(cmd, plan, i)
<1>1. DOMAIN Program = {"enable", "disable", "set", "start", "stop", "restart", "reload",
                        "rollingRestart", "reloadAll"}
  BY DEF Program
<1>2. ASSUME cmd \in {"enable", "disable"}, plan = <<"load", "read", "truncate", "write", "control">>
      PROVE  plan \in Seq(Labels) /\ Len(plan) = 5 /\ \A i \in 1..5 : Follows(cmd, plan, i)
  BY <1>2 DEF Follows, Labels
<1>3. ASSUME cmd = "set", plan = <<"load", "read", "truncate", "write", "check">>
      PROVE  plan \in Seq(Labels) /\ Len(plan) = 5 /\ \A i \in 1..5 : Follows(cmd, plan, i)
  BY <1>3 DEF Follows, Labels
<1>4. ASSUME cmd = "start", plan = <<"load", "control">>
      PROVE  plan \in Seq(Labels) /\ Len(plan) = 2 /\ \A i \in 1..2 : Follows(cmd, plan, i)
  BY <1>4 DEF Follows, Labels
<1>5. ASSUME cmd = "start", plan = <<"rollout", "control">>
      PROVE  plan \in Seq(Labels) /\ Len(plan) = 2 /\ \A i \in 1..2 : Follows(cmd, plan, i)
  BY <1>5 DEF Follows, Labels
<1>6. ASSUME cmd = "stop", plan = <<"control">>
      PROVE  plan \in Seq(Labels) /\ Len(plan) = 1 /\ \A i \in 1..1 : Follows(cmd, plan, i)
  BY <1>6 DEF Follows, Labels
<1>7. ASSUME cmd = "restart", plan = <<"load", "control">>
      PROVE  plan \in Seq(Labels) /\ Len(plan) = 2 /\ \A i \in 1..2 : Follows(cmd, plan, i)
  BY <1>7 DEF Follows, Labels
<1>8. ASSUME cmd = "restart", plan = <<"stop">>
      PROVE  plan \in Seq(Labels) /\ Len(plan) = 1 /\ \A i \in 1..1 : Follows(cmd, plan, i)
  BY <1>8 DEF Follows, Labels
<1>9. ASSUME cmd = "reload", plan = <<"load", "query", "control">>
      PROVE  plan \in Seq(Labels) /\ Len(plan) = 3 /\ \A i \in 1..3 : Follows(cmd, plan, i)
  BY <1>9 DEF Follows, Labels
<1>10. ASSUME cmd = "reload", plan = <<"rollout">>
      PROVE  plan \in Seq(Labels) /\ Len(plan) = 1 /\ \A i \in 1..1 : Follows(cmd, plan, i)
  BY <1>10 DEF Follows, Labels
<1>11. ASSUME cmd = "rollingRestart", plan = <<"load", "rollout">>
      PROVE  plan \in Seq(Labels) /\ Len(plan) = 2 /\ \A i \in 1..2 : Follows(cmd, plan, i)
  BY <1>11 DEF Follows, Labels
<1>12. ASSUME cmd = "reloadAll", plan = <<"scan", "list", "stop", "start">>
      PROVE  plan \in Seq(Labels) /\ Len(plan) = 4 /\ \A i \in 1..4 : Follows(cmd, plan, i)
  BY <1>12 DEF Follows, Labels
<1>13. CASE cmd \in {"enable", "disable"}
  <2>1. plan = <<"load", "read", "truncate", "write", "control">>
    BY <1>13 DEF Plan, Program, Foreground
  <2>q. QED
    BY <1>13, <2>1, <1>2
<1>14. CASE cmd = "set"
  <2>1. plan = <<"load", "read", "truncate", "write", "check">>
    BY <1>14 DEF Plan, Program, Foreground
  <2>q. QED
    BY <1>14, <2>1, <1>3
<1>15. CASE cmd = "start"
  <2>1. plan = <<"load", "control">> \/ plan = <<"rollout", "control">>
    BY <1>15 DEF Plan, Program, Foreground
  <2>2. CASE plan = <<"load", "control">>
    BY <1>15, <2>2, <1>4
  <2>3. CASE plan = <<"rollout", "control">>
    BY <1>15, <2>3, <1>5
  <2>q. QED
    BY <2>1, <2>2, <2>3
<1>16. CASE cmd = "stop"
  <2>1. plan = <<"control">>
    BY <1>16 DEF Plan, Program, Foreground
  <2>q. QED
    BY <1>16, <2>1, <1>6
<1>17. CASE cmd = "restart"
  <2>1. plan = <<"load", "control">> \/ plan = <<"stop">>
    BY <1>17 DEF Plan, Program, Foreground
  <2>2. CASE plan = <<"load", "control">>
    BY <1>17, <2>2, <1>7
  <2>3. CASE plan = <<"stop">>
    BY <1>17, <2>3, <1>8
  <2>q. QED
    BY <2>1, <2>2, <2>3
<1>18. CASE cmd = "reload"
  <2>1. plan = <<"load", "query", "control">> \/ plan = <<"rollout">>
    BY <1>18 DEF Plan, Program, Foreground
  <2>2. CASE plan = <<"load", "query", "control">>
    BY <1>18, <2>2, <1>9
  <2>3. CASE plan = <<"rollout">>
    BY <1>18, <2>3, <1>10
  <2>q. QED
    BY <2>1, <2>2, <2>3
<1>19. CASE cmd = "rollingRestart"
  <2>1. plan = <<"load", "rollout">>
    BY <1>19 DEF Plan, Program, Foreground
  <2>q. QED
    BY <1>19, <2>1, <1>11
<1>20. CASE cmd = "reloadAll"
  <2>1. plan = <<"scan", "list", "stop", "start">>
    BY <1>20 DEF Plan, Program, Foreground
  <2>q. QED
    BY <1>20, <2>1, <1>12
<1>q. QED
  BY <1>1, <1>13, <1>14, <1>15, <1>16, <1>17, <1>18, <1>19, <1>20

LEMMA TailOf ==
  ASSUME NEW T, NEW s \in Seq(T), s # <<>>
  PROVE  /\ Tail(s) \in Seq(T) /\ Len(Tail(s)) = Len(s) - 1 /\ Len(s) \in Nat \ {0}
         /\ \A j \in 1..(Len(s) - 1) : Tail(s)[j] = s[j + 1]
OBVIOUS

LEMMA SameSequence ==
  ASSUME NEW T, NEW s \in Seq(T), NEW t \in Seq(T), Len(s) = Len(t),
         \A j \in 1..Len(t) : s[j] = t[j]
  PROVE  s = t
OBVIOUS

\* The first step of what there is to do, and what there is to do after it.
LEMMA SuffixNext ==
  ASSUME NEW plan \in Seq(Labels), NEW i \in 1..Len(plan), NEW t, t = SubSeq(plan, i, Len(plan))
  PROVE  /\ t \in Seq(Labels) /\ t # <<>> /\ Head(t) = plan[i]
         /\ Tail(t) = IF i = Len(plan) THEN <<>> ELSE SubSeq(plan, i + 1, Len(plan))
         /\ i # Len(plan) => Tail(t) # <<>> /\ Head(Tail(t)) = plan[i + 1]
<1>1. Len(t) = Len(plan) - i + 1 /\ Len(t) \in Nat \ {0} /\ t \in Seq(Labels)
  OBVIOUS
<1>2. \A j \in 1..Len(t) : t[j] = plan[i + j - 1]
  BY <1>1
<1>3. Head(t) = plan[i]
  BY <1>1, <1>2
<1>4. CASE i = Len(plan)
  BY <1>1, <1>3, <1>4
<1>5. CASE i # Len(plan)
  <2> DEFINE u == SubSeq(plan, i + 1, Len(plan))
  <2>1. Len(u) = Len(plan) - i /\ Len(u) \in Nat \ {0} /\ u \in Seq(Labels)
    BY <1>5
  <2>2. \A j \in 1..Len(u) : u[j] = plan[i + 1 + j - 1]
    BY <1>5, <2>1
  <2>0. t # <<>> /\ t \in Seq(Labels)
    BY <1>1
  <2>3. Len(Tail(t)) = Len(t) - 1 /\ \A j \in 1..(Len(t) - 1) : Tail(t)[j] = t[j + 1]
    BY <2>0, TailOf, Zenon
  <2>4. Tail(t) \in Seq(Labels)
    BY <2>0, TailOf, Zenon
  <2>5. Len(Tail(t)) = Len(u) /\ Tail(t) # <<>>
    <3>1. Len(Tail(t)) = Len(t) - 1
      BY <2>3
    <3> HIDE DEF u
    <3>2. Len(Tail(t)) = Len(u)
      BY <3>1, <1>1, <2>1
    <3>q. QED
      BY <2>1, <3>2
  <2>6. ASSUME NEW j \in 1..Len(u) PROVE Tail(t)[j] = u[j]
    BY <1>1, <1>2, <2>1, <2>2, <2>3
  <2>7. Tail(t) = u
    <3> HIDE DEF u
    <3>q. QED
      BY <2>1, <2>4, <2>5, <2>6, SameSequence
  <2>8. Head(u) = plan[i + 1]
    BY <2>1, <2>2
  <2>q. QED
    BY <1>1, <1>3, <1>5, <2>5, <2>7, <2>8
<1>q. QED
  BY <1>4, <1>5

LEMMA TodoNext ==
  ASSUME NEW cmd \in DOMAIN Program, NEW t, TodoOf(cmd, t)
  PROVE  /\ t \in Seq(Labels) /\ t # <<>>
         /\ Head(t) = "load" => cmd \notin {"stop", "reloadAll"}
         /\ Head(t) = "check" => cmd = "set"
         /\ Head(t) \in {"read", "truncate", "write"} => cmd \in {"enable", "disable", "set"}
         /\ Head(t) \in {"scan", "list", "start"} => cmd = "reloadAll"
         /\ Head(t) \in {"rollout", "query", "control"} => cmd # "reloadAll"
<1>1. PICK plan \in Seq(Labels) : Plan(cmd, plan) /\ \E i \in 1..Len(plan) : t = SubSeq(plan, i, Len(plan))
  BY DEF TodoOf
<1>2. PICK i \in 1..Len(plan) : t = SubSeq(plan, i, Len(plan))
  BY <1>1
<1>3. Follows(cmd, plan, i)
  BY <1>1, PlanFollows
<1>4. t \in Seq(Labels) /\ t # <<>> /\ Head(t) = plan[i]
  BY <1>2, SuffixNext
<1>q. QED
  BY <1>3, <1>4 DEF Follows

LEMMA TodoTail ==
  ASSUME NEW cmd \in DOMAIN Program, NEW t, TodoOf(cmd, t)
  PROVE  /\ Tail(t) # <<>> => TodoOf(cmd, Tail(t)) /\ Head(Tail(t)) # "load"
         /\ Head(t) = "load" => Tail(t) # <<>> /\ Head(Tail(t)) \in {"read", "control", "query", "rollout"}
         /\ Head(t) = "read" => Tail(t) # <<>> /\ Head(Tail(t)) = "truncate"
         /\ Head(t) = "truncate" => Tail(t) # <<>> /\ Head(Tail(t)) = "write"
         /\ Head(t) = "write" => Tail(t) # <<>> /\ Head(Tail(t)) = IF cmd = "set" THEN "check" ELSE "control"
         /\ Head(t) \in {"check", "start"} => Tail(t) = <<>>
         /\ Head(t) = "scan" => Tail(t) # <<>> /\ Head(Tail(t)) = "list"
         /\ Head(t) = "list" => Tail(t) # <<>> /\ Head(Tail(t)) = "stop"
         /\ Head(t) = "stop" => IF cmd = "reloadAll" THEN Tail(t) # <<>> /\ Head(Tail(t)) = "start" ELSE Tail(t) = <<>>
         /\ Head(t) \in {"rollout", "query", "control"} /\ Tail(t) # <<>> =>
              Head(Tail(t)) \in {"query", "control"}
<1>1. PICK plan \in Seq(Labels) : Plan(cmd, plan) /\ \E i \in 1..Len(plan) : t = SubSeq(plan, i, Len(plan))
  BY DEF TodoOf
<1>2. PICK i \in 1..Len(plan) : t = SubSeq(plan, i, Len(plan))
  BY <1>1
<1>3. Follows(cmd, plan, i) /\ Len(plan) \in Nat \ {0}
  BY <1>1, PlanFollows
<1>4. Head(t) = plan[i]
  BY <1>2, SuffixNext
<1>5. CASE i = Len(plan)
  <2>1. Tail(t) = <<>>
    BY <1>2, <1>5, SuffixNext
  <2>q. QED
    BY <1>3, <1>4, <1>5, <2>1 DEF Follows
<1>6. CASE i # Len(plan)
  <2>1. Tail(t) = SubSeq(plan, i + 1, Len(plan)) /\ Tail(t) # <<>> /\ Head(Tail(t)) = plan[i + 1]
    BY <1>2, <1>6, SuffixNext
  <2>2. i + 1 \in 1..Len(plan) /\ i + 1 # 1 /\ i < Len(plan)
    BY <1>3, <1>6
  <2>3. TodoOf(cmd, Tail(t))
    BY <1>1, <2>1, <2>2 DEF TodoOf
  <2>4. Follows(cmd, plan, i + 1)
    BY <1>1, <2>2, PlanFollows
  <2>5. plan[i + 1] # "load"
    BY <2>2, <2>4 DEF Follows
  <2>q. QED
    BY <1>3, <1>4, <2>1, <2>2, <2>3, <2>5 DEF Follows
<1>q. QED
  BY <1>5, <1>6

\* A command begins with all of it.
LEMMA TodoBegins ==
  ASSUME NEW cmd \in DOMAIN Program, NEW plan, Plan(cmd, plan)
  PROVE  /\ TodoOf(cmd, plan) /\ plan \in Seq(Labels) /\ plan # <<>> /\ Head(plan) = plan[1]
         /\ Follows(cmd, plan, 1)
<1>1. plan \in Seq(Labels) /\ Len(plan) \in Nat \ {0} /\ \A i \in 1..Len(plan) : Follows(cmd, plan, i)
  BY PlanFollows
<1>2. 1 \in 1..Len(plan) /\ plan = SubSeq(plan, 1, Len(plan))
  BY <1>1
<1>q. QED
  BY <1>1, <1>2, SuffixNext DEF TodoOf

\* And what the first step of each is.
LEMMA FirstSteps ==
  /\ \A cmd \in DOMAIN Program :
       Head(Program[cmd]) = IF cmd = "stop" THEN "control" ELSE IF cmd = "reloadAll" THEN "scan" ELSE "load"
  /\ DOMAIN Foreground = {"start", "restart", "reload"}
  /\ \A cmd \in DOMAIN Foreground : Head(Foreground[cmd]) \in {"rollout", "stop"}
BY DEF Program, Foreground

(***************************************************************************)
(* The shape of the state                                                  *)
(***************************************************************************)
\* What a command writes.
Content(c) == /\ c.json = "valid" /\ DOMAIN c = DOMAIN NoContent
              /\ c.inherit \in Seq(InheritFile(DirOf))

Fields(c) ==
  /\ DOMAIN c = DOMAIN NoCommand
  /\ c.todo \in Seq(Labels) /\ c.result \in {"none", "ok", "failed"}
  /\ c.left \subseteq Entries /\ c.starts \subseteq Definitions /\ c.stops \subseteq Definitions
Running(c) ==
  /\ c.ask \in Asked /\ TodoOf(c.ask.cmd, c.todo)
  /\ Head(c.todo) # "load" /\ c.ask.cmd \notin {"stop", "reloadAll"} =>
       c.unit = Target(c.ask) /\ c.unit \in Definitions
  /\ Head(c.todo) # "load" /\ c.ask.cmd \in {"enable", "disable", "set"} => c.setFile \in DOMAIN DirOf
  /\ Head(c.todo) \in {"truncate", "write"} => Content(c.content)
Command(c) == Fields(c) /\ (c.todo # <<>> => Running(c))

FilesOK == DOMAIN files = DOMAIN DirOf /\ WellFormed(files)
UnitsOK == units \in [Definitions -> [enabled : BOOLEAN, active : BOOLEAN]]
CountsOK ==
  /\ commands \in 0..MaxCommands /\ faults \in 0..MaxFaults
  /\ touched \in [Definitions -> Nat] /\ \A d \in Definitions : touched[d] <= commands
ProcOK == DOMAIN proc = Processes /\ \A p \in Processes : Command(proc[p])
KeysOK == \A k \in DOMAIN said : k[1] \in Definitions
TypeInv == FilesOK /\ UnitsOK /\ CountsOK /\ ProcOK /\ KeysOK

\* A record of all fields that has another value in one of them.
LEMMA OtherField ==
  ASSUME NEW c, NEW f \in DOMAIN c, NEW x
  PROVE  LET d == [c EXCEPT ![f] = x] IN
         DOMAIN d = DOMAIN c /\ d[f] = x /\ \A g \in DOMAIN c : g # f => d[g] = c[g]
OBVIOUS

LEMMA CommandFields ==
  DOMAIN NoCommand = {"ask", "todo", "result", "unit", "setFile", "content", "wasActive", "left",
                      "starts", "stops"}
BY DEF NoCommand

LEMMA ContentFields ==
  DOMAIN NoContent = {"json", "inherit", "disable", "autoRestart", "config", "conditions", "template",
                      "parts", "hooks"}
BY DEF NoContent

LEMMA DoneFields ==
  ASSUME NEW r \in {"ok", "failed"}
  PROVE  Command(Done(r)) /\ Done(r).todo = <<>> /\ Done(r).result = r
BY DEF Done, NoCommand, Command, Fields

\* One process goes on, the others stay as they are.
LEMMA Becomes ==
  ASSUME ProcOK, NEW p \in Processes, NEW c, Command(c), Become(p, c)
  PROVE  ProcOK' /\ proc'[p] = c /\ \A q \in Processes : q # p => proc'[q] = proc[q]
<1>1. DOMAIN proc' = Processes /\ proc'[p] = c /\ \A q \in Processes : q # p => proc'[q] = proc[q]
  BY DEF ProcOK, Become
<1>2. ASSUME NEW q \in Processes PROVE Command(proc'[q])
  BY <1>1 DEF ProcOK
<1>q. QED
  BY <1>1, <1>2 DEF ProcOK, Command, Fields, Running, Content, Target, Entries, Definitions

\* On to the next step.
Advanced(c) == IF Tail(c.todo) = <<>> THEN Done("ok") ELSE [c EXCEPT !.todo = Tail(@)]
LEMMA AdvancedIs ==
  ASSUME NEW c, Fields(c), Tail(c.todo) # <<>>
  PROVE  /\ DOMAIN Advanced(c) = DOMAIN NoCommand /\ Advanced(c).todo = Tail(c.todo)
         /\ \A f \in DOMAIN NoCommand \ {"todo"} : Advanced(c)[f] = c[f]
<1>1. "todo" \in DOMAIN c
  BY CommandFields DEF Fields
<1>2. Advanced(c) = [c EXCEPT !["todo"] = Tail(c.todo)]
  BY DEF Advanced
<1>q. QED
  BY <1>1, <1>2, OtherField DEF Fields

LEMMA AdvancedOK ==
  ASSUME NEW c, Fields(c), c.todo # <<>>, c.ask \in Asked, TodoOf(c.ask.cmd, c.todo),
         c.ask.cmd \notin {"stop", "reloadAll"} => c.unit = Target(c.ask) /\ c.unit \in Definitions,
         c.ask.cmd \in {"enable", "disable", "set"} => c.setFile \in DOMAIN DirOf,
         Head(c.todo) \in {"read", "truncate"} => Content(c.content)
  PROVE  Command(Advanced(c))
<1>1. c.ask.cmd \in DOMAIN Program
  BY DEF Asked, Program
<1>2. CASE Tail(c.todo) = <<>>
  BY <1>2, DoneFields DEF Advanced
<1>3. CASE Tail(c.todo) # <<>>
  <2> DEFINE d == Advanced(c)
             t == Tail(c.todo)
  <2>1. DOMAIN d = DOMAIN NoCommand /\ d.todo = t /\ \A f \in DOMAIN NoCommand \ {"todo"} : d[f] = c[f]
    BY <1>3, AdvancedIs
  <2>2. /\ d.ask = c.ask /\ d.result = c.result /\ d.unit = c.unit /\ d.content = c.content
        /\ d.setFile = c.setFile /\ d.left = c.left /\ d.starts = c.starts /\ d.stops = c.stops
    BY <2>1, CommandFields
  <2>3. TodoOf(d.ask.cmd, t) /\ Head(t) # "load"
    BY <1>1, <1>3, <2>2, TodoTail
  <2>4. t \in Seq(Labels)
    BY <1>1, <2>2, <2>3, TodoNext
  <2>5. Fields(d)
    BY <2>1, <2>2, <2>4 DEF Fields
  <2>6. ASSUME Head(t) \in {"truncate", "write"} PROVE Head(c.todo) \in {"read", "truncate"}
    <3>1. /\ c.todo \in Seq(Labels)
          /\ Head(c.todo) = "load" => Head(t) \in {"read", "control", "query", "rollout"}
          /\ Head(c.todo) = "write" => Head(t) \in {"check", "control"}
          /\ Head(c.todo) \in {"check", "start"} => t = <<>>
          /\ Head(c.todo) = "scan" => Head(t) = "list"
          /\ Head(c.todo) = "list" => Head(t) = "stop"
          /\ Head(c.todo) = "stop" => Head(t) = "start"
          /\ Head(c.todo) \in {"rollout", "query", "control"} => Head(t) \in {"query", "control"}
      BY <1>1, <1>3, TodoTail, TodoNext
    <3>3. Head(c.todo) \in Labels
      BY <3>1
    <3>q. QED
      BY <1>3, <2>6, <3>1, <3>3 DEF Labels
  <2>7. Running(d)
    BY <2>2, <2>1, <2>3, <2>6 DEF Running
  <2>8. Command(d)
    <3> HIDE DEF d
    <3>q. QED
      BY <2>5, <2>7 DEF Command
  <2>q. QED
    BY <2>8
<1>q. QED
  BY <1>2, <1>3

LEMMA EntryOf ==
  ASSUME NEW i \in DOMAIN Dirs, NEW n \in DOMAIN Dirs[i]
  PROVE  <<i, n>> \in Entries /\ (Dirs[i][n] # None => Dirs[i][n] \in Definitions)
<1>1. <<i, n>> \in {<<i, m>> : m \in DOMAIN Dirs[i]}
  OBVIOUS
<1>2. <<i, n>> \in Entries
  BY <1>1, Zenon DEF Entries
<1>3. Dirs[<<i, n>>[1]][<<i, n>>[2]] \in {Dirs[e[1]][e[2]] : e \in Entries}
  BY <1>2
<1>4. Dirs[i][n] \in {Dirs[e[1]][e[2]] : e \in Entries}
  BY <1>3
<1>q. QED
  BY <1>2, <1>4 DEF Definitions

\* The file of a name is that of a service.
LEMMA TargetIs ==
  ASSUME NEW name
  PROVE  ServiceFileByName(Dirs, name) \in Definitions \union {None}
<1> DEFINE has == {i \in DOMAIN Dirs : name \in DOMAIN Dirs[i] /\ Dirs[i][name] # None}
<1>1. CASE has = {}
  BY <1>1 DEF ServiceFileByName
<1>2. CASE has # {}
  <2>1. has \subseteq Nat
    BY DirsAssumption
  <2>2. First(has) \in has
    BY <1>2, <2>1, FirstIsLeast
  <2>3. Dirs[First(has)][name] \in Definitions
    BY <2>2, EntryOf
  <2>4. ServiceFileByName(Dirs, name) = Dirs[First(has)][name]
    BY <1>2 DEF ServiceFileByName
  <2>q. QED
    BY <2>3, <2>4
<1>q. QED
  BY <1>1, <1>2

LEMMA NoneIsNone == None \notin Definitions
BY DEF Definitions

LEMMA OfFiles ==
  ASSUME FilesOK
  PROVE  Definitions \subseteq DOMAIN files /\ None \notin DOMAIN files /\ Closed(files, DOMAIN files)
<1>1. Definitions \subseteq DOMAIN files /\ None \notin DOMAIN files
  BY DirsAssumption, FilesAssumption DEF FilesOK
<1>2. ASSUME NEW f \in DOMAIN files, files[f].json = "valid", NEW i \in DOMAIN files[f].inherit
      PROVE  files[f].inherit[i].path \in DOMAIN files
  <2>1. files[f].inherit \in Seq(InheritFile(files))
    BY <1>2 DEF FilesOK, WellFormed
  <2>2. files[f].inherit[i] \in InheritFile(files)
    BY <1>2, <2>1
  <2>q. QED
    BY <2>2 DEF InheritFile
<1>q. QED
  BY <1>1, <1>2 DEF Closed

\* A service that could be loaded by its name is loaded from the file of that name.
LEMMA LoadedIs ==
  ASSUME FilesOK, NEW name, Loaded(name).ok
  PROVE  LET d == ServiceFileByName(Dirs, name) IN
         d \in Definitions /\ Loaded(name) = OfFile(d) /\ Loaded(name).fileName = d
<1> DEFINE d == ServiceFileByName(Dirs, name)
<1>1. d # None
  BY DEF Loaded, LoadServiceByName, Error
<1>2. d \in Definitions
  BY <1>1, TargetIs
<1>3. Loaded(name) = LoadServiceFile(files, Dirs, d)
  BY <1>1 DEF Loaded, LoadServiceByName
<1>4. None \notin Range(Chain(files, d))
  BY <1>3, LoadFails DEF Error
<1>5. LoadServiceFile(files, Dirs, d).fileName = d
  <2>1. d \in DOMAIN files /\ None \notin DOMAIN files /\ Closed(files, DOMAIN files) /\ WellFormed(files)
    BY <1>2, OfFiles DEF FilesOK
  <2> HIDE DEF d
  <2>q. QED
    BY <1>4, <2>1, FuelAssumption, LoadValue
<1>q. QED
  BY <1>2, <1>3, <1>5 DEF OfFile

\* And changes are written to a file there may be.
LEMMA LoadedSetFile ==
  ASSUME FilesOK, NEW name, Loaded(name).ok
  PROVE  Loaded(name).configSetFile \in DOMAIN DirOf
<1> DEFINE d == ServiceFileByName(Dirs, name)
<1>1. d \in Definitions /\ Loaded(name) = LoadServiceFile(files, Dirs, d)
  BY LoadedIs DEF OfFile
<1>2. d \in DOMAIN files /\ None \notin DOMAIN files /\ Closed(files, DOMAIN files) /\ WellFormed(files)
  BY <1>1, OfFiles DEF FilesOK
<1> HIDE DEF d
<1>3. LoadServiceFile(files, Dirs, d).configSetFile \in DOMAIN files
  BY <1>1, <1>2, FuelAssumption, ConfigSetFileIn
<1>q. QED
  BY <1>1, <1>3 DEF FilesOK

\* What a step leaves as it was.
LEMMA Kept ==
  ASSUME TypeInv
  PROVE  /\ UNCHANGED files => FilesOK'
         /\ UNCHANGED units => UnitsOK'
         /\ UNCHANGED <<commands, touched>> /\ (UNCHANGED faults \/ Fault) => CountsOK'
         /\ UNCHANGED said => KeysOK'
         /\ Quietly => CountsOK' /\ KeysOK'
<1>1. UNCHANGED files => FilesOK'
  BY DEF TypeInv, FilesOK, WellFormed, InheritFile
<1>2. UNCHANGED units => UnitsOK'
  BY DEF TypeInv, UnitsOK, Definitions, Entries
<1>3. UNCHANGED <<commands, touched>> /\ (UNCHANGED faults \/ Fault) => CountsOK'
  BY BoundsAssumption DEF TypeInv, CountsOK, Fault, Definitions, Entries
<1>4. UNCHANGED said => KeysOK'
  BY DEF TypeInv, KeysOK, Definitions, Entries
<1>q. QED
  BY <1>1, <1>2, <1>3, <1>4 DEF Quietly

\* What a command is that has a step to do.
LEMMA CommandNow ==
  ASSUME TypeInv, NEW p \in Processes, Busy(p)
  PROVE  LET c == proc[p] IN
         /\ Fields(c) /\ Running(c) /\ c.todo # <<>> /\ c.ask \in Asked /\ TodoOf(c.ask.cmd, c.todo)
         /\ c.ask.cmd \in DOMAIN Program
         /\ Head(c.todo) = "load" => c.ask.cmd \notin {"stop", "reloadAll"}
         /\ Head(c.todo) = "check" => c.ask.cmd = "set"
         /\ Head(c.todo) \in {"read", "truncate", "write"} => c.ask.cmd \in {"enable", "disable", "set"}
         /\ Head(c.todo) \in {"scan", "list", "start"} => c.ask.cmd = "reloadAll"
         /\ Head(c.todo) \in {"rollout", "query", "control"} => c.ask.cmd # "reloadAll"
<1> DEFINE c == proc[p]
<1>1. Fields(c) /\ Running(c) /\ c.todo # <<>>
  BY DEF TypeInv, ProcOK, Command, Busy
<1>2. c.ask \in Asked /\ TodoOf(c.ask.cmd, c.todo)
  BY <1>1 DEF Running
<1>3. c.ask.cmd \in DOMAIN Program
  BY <1>2 DEF Asked, Program
<1> HIDE DEF c
<1>4. /\ Head(c.todo) = "load" => c.ask.cmd \notin {"stop", "reloadAll"}
      /\ Head(c.todo) = "check" => c.ask.cmd = "set"
      /\ Head(c.todo) \in {"read", "truncate", "write"} => c.ask.cmd \in {"enable", "disable", "set"}
      /\ Head(c.todo) \in {"scan", "list", "start"} => c.ask.cmd = "reloadAll"
      /\ Head(c.todo) \in {"rollout", "query", "control"} => c.ask.cmd # "reloadAll"
  BY <1>2, <1>3, TodoNext
<1>q. QED
  BY <1>1, <1>2, <1>3, <1>4 DEF c

\* A command that goes on, having read something.
LEMMA GoesOn ==
  ASSUME TypeInv, NEW p \in Processes, Busy(p), Head(proc[p].todo) # "load",
         NEW d, DOMAIN d = DOMAIN NoCommand,
         d.todo = proc[p].todo, d.ask = proc[p].ask, d.unit = proc[p].unit, d.result = proc[p].result,
         d.setFile = proc[p].setFile,
         d.left \subseteq Entries, d.starts \subseteq Definitions, d.stops \subseteq Definitions,
         Head(d.todo) \in {"read", "truncate"} => Content(d.content),
         Advance(p, d)
  PROVE  ProcOK' /\ proc'[p] = Advanced(d) /\ \A q \in Processes : q # p => proc'[q] = proc[q]
<1>1. /\ Fields(proc[p]) /\ Running(proc[p]) /\ proc[p].todo # <<>> /\ proc[p].ask \in Asked
      /\ TodoOf(proc[p].ask.cmd, proc[p].todo)
  BY CommandNow
<1>2. Fields(d)
  BY <1>1 DEF Fields
<1>3. /\ d.ask.cmd \notin {"stop", "reloadAll"} => d.unit = Target(d.ask) /\ d.unit \in Definitions
      /\ d.ask.cmd \in {"enable", "disable", "set"} => d.setFile \in DOMAIN DirOf
  BY <1>1 DEF Running
<1>4. Command(Advanced(d))
  BY <1>1, <1>2, <1>3, AdvancedOK
<1>5. Become(p, Advanced(d))
  BY DEF Advance, Advanced
<1>6. ProcOK
  BY DEF TypeInv
<1>q. QED
  BY <1>4, <1>5, <1>6, Becomes

\* One that goes on as it is.
LEMMA GoesOnAlike ==
  ASSUME TypeInv, NEW p \in Processes, Busy(p), Head(proc[p].todo) \notin {"load", "read"}, Advance(p, proc[p])
  PROVE  ProcOK' /\ proc'[p] = Advanced(proc[p]) /\ \A q \in Processes : q # p => proc'[q] = proc[q]
<1>1. Fields(proc[p]) /\ Running(proc[p])
  BY CommandNow
<1>2. DOMAIN proc[p] = DOMAIN NoCommand /\ proc[p].left \subseteq Entries
      /\ proc[p].starts \subseteq Definitions /\ proc[p].stops \subseteq Definitions
  BY <1>1 DEF Fields
<1>3. Head(proc[p].todo) \in {"read", "truncate"} => Content(proc[p].content)
  BY <1>1 DEF Running
<1>q. QED
  BY <1>2, <1>3, GoesOn

\* One that ends.
LEMMA Ends ==
  ASSUME TypeInv, NEW p \in Processes, Finish(p) \/ Fail(p)
  PROVE  ProcOK' /\ proc'[p].todo = <<>> /\ \A q \in Processes : q # p => proc'[q] = proc[q]
<1>1. PICK r \in {"ok", "failed"} : Become(p, Done(r))
  BY DEF Finish, Fail
<1>2. Command(Done(r)) /\ Done(r).todo = <<>>
  BY DoneFields
<1>q. QED
  BY <1>1, <1>2, Becomes DEF TypeInv

\* One that begins with the steps of a program, or begins anew.
LEMMA BeginsWith ==
  ASSUME TypeInv, NEW p \in Processes, NEW d, Fields(d), d.ask \in Asked,
         d.todo = Program[d.ask.cmd], Become(p, d)
  PROVE  ProcOK' /\ proc'[p] = d /\ \A q \in Processes : q # p => proc'[q] = proc[q]
<1>1. d.ask.cmd \in DOMAIN Program
  BY DEF Asked, Program
<1>2. TodoOf(d.ask.cmd, d.todo)
  BY <1>1, TodoBegins DEF Plan
<1>3. Head(d.todo) = IF d.ask.cmd = "stop" THEN "control" ELSE IF d.ask.cmd = "reloadAll" THEN "scan" ELSE "load"
  BY <1>1, FirstSteps
<1>4. Running(d)
  BY <1>2, <1>3 DEF Running
<1>q. QED
  BY <1>4, Becomes DEF Command, TypeInv

LEMMA SetUnitOK ==
  ASSUME UnitsOK, NEW d, NEW enabled \in BOOLEAN, NEW active \in BOOLEAN, SetUnit(d, enabled, active)
  PROVE  UnitsOK'
<1>1. units' = [units EXCEPT ![d] = [enabled |-> enabled, active |-> active]]
  BY DEF SetUnit
<1>2. [enabled |-> enabled, active |-> active] \in [enabled : BOOLEAN, active : BOOLEAN]
  OBVIOUS
<1>3. units' \in [Definitions -> [enabled : BOOLEAN, active : BOOLEAN]]
  BY <1>1, <1>2 DEF UnitsOK
<1>q. QED
  BY <1>3 DEF UnitsOK, Definitions, Entries

\* Loading: the service is that of the name, and what the command is to do is part of its plan.
LEMMA LoadProc ==
  ASSUME TypeInv, NEW p \in Processes, Load(p)
  PROVE  ProcOK' /\ \A q \in Processes : q # p => proc'[q] = proc[q]
<1> DEFINE c == proc[p]
           s == Loaded(c.ask.name)
<1>1. Busy(p) /\ Head(c.todo) = "load"
  BY DEF Load, At
<1>2. /\ Fields(c) /\ Running(c) /\ c.todo # <<>> /\ c.ask \in Asked /\ TodoOf(c.ask.cmd, c.todo)
      /\ c.ask.cmd \in DOMAIN Program /\ c.ask.cmd \notin {"stop", "reloadAll"}
  BY <1>1, CommandNow
<1>3. CASE Fail(p) \/ Finish(p)
  BY <1>3, Ends
<1>4. s.ok => s.fileName = Target(c.ask) /\ s.fileName \in Definitions
  BY LoadedIs DEF TypeInv, Target
<1>8. s.ok => s.configSetFile \in DOMAIN DirOf
  BY LoadedSetFile DEF TypeInv
<1>5. CASE /\ s.ok /\ c.ask.cmd \in DOMAIN Foreground
           /\ Become(p, [c EXCEPT !.todo = Foreground[c.ask.cmd], !.unit = s.fileName])
  <2> DEFINE d == [c EXCEPT !.todo = Foreground[c.ask.cmd], !.unit = s.fileName]
  <2>1. /\ DOMAIN d = DOMAIN NoCommand /\ d.todo = Foreground[c.ask.cmd] /\ d.unit = s.fileName
        /\ d.ask = c.ask /\ d.result = c.result /\ d.left = c.left /\ d.starts = c.starts /\ d.stops = c.stops
    BY <1>2, CommandFields DEF Fields
  <2>2. TodoOf(d.ask.cmd, d.todo) /\ d.todo \in Seq(Labels)
    BY <1>2, <1>5, <2>1, TodoBegins DEF Plan
  <2>3. Head(d.todo) \in {"rollout", "stop"} /\ d.ask.cmd \notin {"enable", "disable", "set"}
    BY <1>5, <2>1, FirstSteps
  <2>4. Fields(d)
    BY <1>2, <2>1, <2>2 DEF Fields
  <2>5. Running(d)
    BY <1>2, <1>4, <1>5, <2>1, <2>2, <2>3 DEF Running
  <2>6. Become(p, d)
    BY <1>5
  <2> HIDE DEF d
  <2>q. QED
    BY <2>4, <2>5, <2>6, Becomes DEF Command, TypeInv
<1>6. CASE s.ok /\ Advance(p, [c EXCEPT !.setFile = s.configSetFile, !.unit = s.fileName])
  <2> DEFINE d == [c EXCEPT !.setFile = s.configSetFile, !.unit = s.fileName]
  <2>1. /\ DOMAIN d = DOMAIN NoCommand /\ d.unit = s.fileName /\ d.setFile = s.configSetFile
        /\ d.todo = c.todo /\ d.ask = c.ask /\ d.result = c.result /\ d.left = c.left
        /\ d.starts = c.starts /\ d.stops = c.stops
    BY <1>2, CommandFields DEF Fields
  <2>2. Fields(d) /\ Head(d.todo) \notin {"read", "truncate"}
    BY <1>1, <1>2, <2>1 DEF Fields
  <2>3. d.unit = Target(d.ask) /\ d.unit \in Definitions /\ d.setFile \in DOMAIN DirOf
    BY <1>4, <1>8, <1>6, <2>1
  <2>4. d.ask \in Asked /\ TodoOf(d.ask.cmd, d.todo) /\ d.todo # <<>>
    BY <1>2, <2>1
  <2>5. Become(p, Advanced(d))
    BY <1>6 DEF Advance, Advanced
  <2> HIDE DEF d
  <2>6. Command(Advanced(d))
    BY <2>2, <2>3, <2>4, AdvancedOK
  <2>q. QED
    BY <2>5, <2>6, Becomes DEF TypeInv
<1>7. \/ Fail(p) \/ Finish(p)
      \/ /\ s.ok /\ c.ask.cmd \in DOMAIN Foreground
         /\ Become(p, [c EXCEPT !.todo = Foreground[c.ask.cmd], !.unit = s.fileName])
      \/ s.ok /\ Advance(p, [c EXCEPT !.setFile = s.configSetFile, !.unit = s.fileName])
  BY DEF Load
<1>q. QED
  BY <1>3, <1>5, <1>6, <1>7

\* Reading: what is read is what can be written.
LEMMA ContentOfFile ==
  ASSUME FilesOK, NEW f \in DOMAIN files, files[f].json # "broken"
  PROVE  Content(IF Exists(files[f]) THEN files[f] ELSE NoContent)
<1>1. CASE files[f].json = "valid"
  BY <1>1 DEF FilesOK, WellFormed, InheritFile, Content, Exists
<1>2. CASE files[f].json = "missing"
  BY <1>2 DEF Content, Exists, NoContent
<1>q. QED
  BY <1>1, <1>2 DEF FilesOK, WellFormed

LEMMA ReadProc ==
  ASSUME TypeInv, NEW p \in Processes, ReadSetFile(p)
  PROVE  ProcOK' /\ \A q \in Processes : q # p => proc'[q] = proc[q]
<1> DEFINE c == proc[p]
           f == files[c.setFile]
           d == [c EXCEPT !.content = IF Exists(f) THEN f ELSE NoContent]
<1>1. Busy(p) /\ Head(c.todo) = "read"
  BY DEF ReadSetFile, At
<1>2. Fields(c) /\ Running(c) /\ c.ask.cmd \in {"enable", "disable", "set"}
  BY <1>1, CommandNow
<1>3. CASE Fail(p)
  BY <1>3, Ends
<1>4. CASE f.json # "broken" /\ Advance(p, d)
  <2>1. c.setFile \in DOMAIN files
    BY <1>1, <1>2 DEF Running, TypeInv, FilesOK
  <2>2. Content(IF Exists(f) THEN f ELSE NoContent)
    BY <1>4, <2>1, ContentOfFile DEF TypeInv
  <2>3. /\ DOMAIN d = DOMAIN NoCommand /\ Content(d.content)
        /\ d.todo = c.todo /\ d.ask = c.ask /\ d.unit = c.unit /\ d.result = c.result /\ d.setFile = c.setFile
        /\ d.left = c.left /\ d.starts = c.starts /\ d.stops = c.stops
    BY <1>2, <2>2, CommandFields DEF Fields
  <2>4. d.left \subseteq Entries /\ d.starts \subseteq Definitions /\ d.stops \subseteq Definitions
    BY <1>2, <2>3 DEF Fields
  <2>5. Head(proc[p].todo) # "load" /\ Advance(p, d)
    BY <1>1, <1>4
  <2> HIDE DEF d
  <2>q. QED
    BY <1>1, <2>3, <2>4, <2>5, GoesOn
<1>q. QED
  BY <1>3, <1>4 DEF ReadSetFile

\* Writing: what a file is that is written or truncated.
LEMMA FileWritten ==
  ASSUME FilesOK, NEW f, NEW c, c = Broken \/ Content(c), files' = [files EXCEPT ![f] = c]
  PROVE  FilesOK' /\ DOMAIN files' = DOMAIN files /\ \A g \in DOMAIN files : g # f => files'[g] = files[g]
<1>1. DOMAIN files' = DOMAIN files /\ \A g \in DOMAIN files : files'[g] = IF g = f THEN c ELSE files[g]
  OBVIOUS
<1>2. ASSUME NEW g \in DOMAIN files
      PROVE  /\ files'[g].json \in {"missing", "broken", "valid"}
             /\ files'[g].json = "valid" => /\ DOMAIN files'[g] = DOMAIN NoContent
                                           /\ files'[g].inherit \in Seq(InheritFile(DirOf))
  <2>1. CASE g # f
    BY <1>1, <2>1 DEF FilesOK, WellFormed, InheritFile
  <2>2. CASE g = f
    BY <1>1, <2>2 DEF Content, Broken
  <2>q. QED
    BY <2>1, <2>2
<1>q. QED
  BY <1>1, <1>2 DEF FilesOK, WellFormed, InheritFile

\* What a command writes: the content it has read, but for what it was asked to set.
NewContent(c) ==
  IF c.ask.cmd = "set" THEN WithConfig(c.content, c.ask.var, c.ask.value)
  ELSE WithDisable(c.content, c.ask.cmd = "disable")
LEMMA NewContentIs ==
  ASSUME NEW c, Content(c.content)
  PROVE  Content(NewContent(c)) /\ NewContent(c).inherit = c.content.inherit
BY ContentFields DEF Content, NewContent, WithConfig, WithDisable

LEMMA WriteFiles ==
  ASSUME TypeInv, NEW p \in Processes, Write(p)
  PROVE  FilesOK' /\ files' = [files EXCEPT ![proc[p].setFile] = NewContent(proc[p])]
<1>1. Busy(p) /\ Head(proc[p].todo) = "write"
  BY DEF Write, At
<1>2. Content(proc[p].content)
  BY <1>1, CommandNow DEF Running
<1>3. files' = [files EXCEPT ![proc[p].setFile] = NewContent(proc[p])]
  BY DEF Write, NewContent
<1>q. QED
  BY <1>2, <1>3, NewContentIs, FileWritten DEF TypeInv

LEMMA ReportOK ==
  ASSUME KeysOK, NEW d \in Definitions, NEW field, NEW value, Report(d, field, value)
  PROVE  KeysOK'
<1>1. \A k \in DOMAIN said' : k \in DOMAIN said \/ k = <<d, field>>
  BY DEF Report
<1>2. \A k \in DOMAIN said' : k[1] \in Definitions
  BY <1>1 DEF KeysOK
<1>q. QED
  BY <1>2 DEF KeysOK, Definitions, Entries

LEMMA CheckType ==
  ASSUME TypeInv, NEW p \in Processes, Check(p)
  PROVE  ProcOK' /\ KeysOK' /\ \A q \in Processes : q # p => proc'[q] = proc[q]
<1> DEFINE c == proc[p]
           d == [c EXCEPT !.ask.cmd = "reload", !.todo = Program.reload]
<1>1. Busy(p) /\ Head(c.todo) = "check"
  BY DEF Check, At
<1>2. Fields(c) /\ Running(c) /\ c.ask.cmd = "set" /\ c.ask \in Asked
  BY <1>1, CommandNow
<1>3. c.unit \in Definitions
  BY <1>1, <1>2 DEF Running
<1>4. UNCHANGED said \/ Report(c.unit, <<c.ask.var>>, c.ask.value)
  BY DEF Check
<1>5. KeysOK'
  BY <1>3, <1>4, ReportOK, Kept DEF TypeInv
<1>6. CASE Finish(p) \/ Fail(p)
  BY <1>5, <1>6, Ends
<1>7. CASE Become(p, d)
  <2>1. /\ DOMAIN d = DOMAIN NoCommand /\ d.todo = Program.reload /\ d.ask = [c.ask EXCEPT !.cmd = "reload"]
        /\ d.result = c.result /\ d.left = c.left /\ d.starts = c.starts /\ d.stops = c.stops
    BY <1>2, CommandFields DEF Fields
  <2>2. d.ask \in Asked /\ d.ask.cmd = "reload"
    <3> DEFINE a == c.ask
    <3>1. a \in Asked /\ d.ask = [a EXCEPT !.cmd = "reload"]
      BY <1>2, <2>1
    <3> HIDE DEF a, d
    <3>q. QED
      BY <3>1 DEF Asked
  <2>3. d.todo = Program[d.ask.cmd] /\ d.todo \in Seq(Labels)
    BY <2>1, <2>2 DEF Program, Labels
  <2>4. Fields(d)
    BY <1>2, <2>1, <2>3 DEF Fields
  <2>5. Become(p, d)
    BY <1>7
  <2> HIDE DEF d
  <2>q. QED
    BY <1>5, <2>2, <2>3, <2>4, <2>5, BeginsWith
<1>q. QED
  BY <1>6, <1>7 DEF Check

LEMMA StopFirstProc ==
  ASSUME TypeInv, NEW p \in Processes, StopFirst(p)
  PROVE  ProcOK' /\ \A q \in Processes : q # p => proc'[q] = proc[q]
<1> DEFINE c == proc[p]
           d == [c EXCEPT !.ask.cmd = "start", !.ask.mode = "foreground", !.todo = Program.start]
<1>1. Busy(p) /\ Become(p, d)
  BY DEF StopFirst, At
<1>2. Fields(c) /\ c.ask \in Asked
  BY <1>1, CommandNow
<1>3. /\ DOMAIN d = DOMAIN NoCommand /\ d.todo = Program.start
      /\ d.ask = [c.ask EXCEPT !.cmd = "start", !.mode = "foreground"]
      /\ d.result = c.result /\ d.left = c.left /\ d.starts = c.starts /\ d.stops = c.stops
  BY <1>2, CommandFields DEF Fields
<1>4. d.ask \in Asked /\ d.ask.cmd = "start"
  <2> DEFINE e == [c.ask EXCEPT !.cmd = "start"]
  <2>1. e \in Asked /\ e.cmd = "start"
    BY <1>2 DEF Asked
  <2>2. d.ask = [e EXCEPT !.mode = "foreground"]
    BY <1>2, <1>3 DEF Asked
  <2> HIDE DEF e, d
  <2>3. [e EXCEPT !.mode = "foreground"] \in Asked /\ [e EXCEPT !.mode = "foreground"].cmd = e.cmd
    BY <2>1 DEF Asked
  <2>q. QED
    BY <2>1, <2>2, <2>3
<1>5. d.todo = Program[d.ask.cmd] /\ d.todo \in Seq(Labels)
  BY <1>3, <1>4 DEF Program, Labels
<1>6. Fields(d)
  BY <1>2, <1>3, <1>5 DEF Fields
<1> HIDE DEF d
<1>q. QED
  BY <1>1, <1>4, <1>5, <1>6, BeginsWith

\* A command that stays at its step, with less to do there or more to do later.
LEMMA StaysAt ==
  ASSUME TypeInv, NEW p \in Processes, Busy(p),
         NEW d, DOMAIN d = DOMAIN NoCommand,
         d.todo = proc[p].todo, d.ask = proc[p].ask, d.unit = proc[p].unit, d.result = proc[p].result,
         d.setFile = proc[p].setFile, d.content = proc[p].content,
         d.left \subseteq Entries, d.starts \subseteq Definitions, d.stops \subseteq Definitions,
         Become(p, d)
  PROVE  ProcOK' /\ proc'[p] = d /\ \A q \in Processes : q # p => proc'[q] = proc[q]
<1>1. Fields(proc[p]) /\ Running(proc[p])
  BY CommandNow
<1>2. Fields(d)
  BY <1>1 DEF Fields
<1>3. Running(d)
  BY <1>1 DEF Running
<1>q. QED
  BY <1>2, <1>3, Becomes DEF Command, TypeInv

LEMMA ScanProc ==
  ASSUME TypeInv, NEW p \in Processes, Scan(p)
  PROVE  ProcOK' /\ \A q \in Processes : q # p => proc'[q] = proc[q]
<1> DEFINE c == proc[p]
<1>1. Busy(p) /\ Head(c.todo) = "scan"
  BY DEF Scan, At
<1>2. Fields(c)
  BY <1>1, CommandNow
<1>3. CASE c.left = {} /\ Advance(p, c)
  BY <1>1, <1>3, GoesOnAlike
<1>4. ASSUME c.left # {} PROVE ProcOK' /\ \A q \in Processes : q # p => proc'[q] = proc[q]
  <2>1. PICK e \in c.left :
          LET d == Dirs[e[1]][e[2]]
              rest == [c EXCEPT !.left = @ \ {e}]
          IN  Become(p, IF d = None THEN rest
                        ELSE IF ~OfFile(d).ok THEN rest
                        ELSE IF ShouldStart(OfFile(d)) THEN [rest EXCEPT !.starts = @ \union {d}]
                        ELSE [rest EXCEPT !.stops = @ \union {d}])
    BY <1>4 DEF Scan
  <2> DEFINE d == Dirs[e[1]][e[2]]
             rest == [c EXCEPT !.left = @ \ {e}]
  <2>2. e \in Entries /\ (d # None => d \in Definitions)
    BY <1>2, <2>1 DEF Fields, Definitions
  <2>3. /\ DOMAIN rest = DOMAIN NoCommand /\ rest.left = c.left \ {e}
        /\ rest.todo = c.todo /\ rest.ask = c.ask /\ rest.unit = c.unit /\ rest.result = c.result
        /\ rest.setFile = c.setFile /\ rest.content = c.content
        /\ rest.starts = c.starts /\ rest.stops = c.stops
    BY <1>2, CommandFields DEF Fields
  <2>4. c.left \subseteq Entries /\ c.starts \subseteq Definitions /\ c.stops \subseteq Definitions
    BY <1>2 DEF Fields
  <2>5. CASE Become(p, rest)
    <3> HIDE DEF rest
    <3>q. QED
      BY <1>1, <2>3, <2>4, <2>5, StaysAt
  <2>6. CASE d # None /\ Become(p, [rest EXCEPT !.starts = @ \union {d}])
    <3> DEFINE x == [rest EXCEPT !.starts = @ \union {d}]
    <3> HIDE DEF rest, d
    <3>1. /\ DOMAIN x = DOMAIN NoCommand /\ x.left = rest.left /\ x.starts = rest.starts \union {d}
          /\ x.todo = c.todo /\ x.ask = c.ask /\ x.unit = c.unit /\ x.result = c.result
          /\ x.setFile = c.setFile /\ x.content = c.content /\ x.stops = c.stops
      BY <2>3, CommandFields
    <3>2. x.left \subseteq Entries /\ x.starts \subseteq Definitions /\ x.stops \subseteq Definitions /\ Become(p, x)
      BY <2>2, <2>3, <2>4, <2>6, <3>1
    <3> HIDE DEF x
    <3>q. QED
      BY <1>1, <3>1, <3>2, StaysAt
  <2>7. CASE d # None /\ Become(p, [rest EXCEPT !.stops = @ \union {d}])
    <3> DEFINE x == [rest EXCEPT !.stops = @ \union {d}]
    <3> HIDE DEF rest, d
    <3>1. /\ DOMAIN x = DOMAIN NoCommand /\ x.left = rest.left /\ x.stops = rest.stops \union {d}
          /\ x.todo = c.todo /\ x.ask = c.ask /\ x.unit = c.unit /\ x.result = c.result
          /\ x.setFile = c.setFile /\ x.content = c.content /\ x.starts = c.starts
      BY <2>3, CommandFields
    <3>2. x.left \subseteq Entries /\ x.starts \subseteq Definitions /\ x.stops \subseteq Definitions /\ Become(p, x)
      BY <2>2, <2>3, <2>4, <2>7, <3>1
    <3> HIDE DEF x
    <3>q. QED
      BY <1>1, <3>1, <3>2, StaysAt
  <2>q. QED
    BY <2>1, <2>5, <2>6, <2>7
<1>q. QED
  BY <1>3, <1>4 DEF Scan

LEMMA ListProc ==
  ASSUME TypeInv, NEW p \in Processes, ListUnits(p)
  PROVE  ProcOK' /\ \A q \in Processes : q # p => proc'[q] = proc[q]
<1> DEFINE c == proc[p]
<1>1. Busy(p) /\ Head(c.todo) = "list"
  BY DEF ListUnits, At
<1>2. Fields(c)
  BY <1>1, CommandNow
<1>3. PICK more \in SUBSET Definitions : Advance(p, [c EXCEPT !.stops = @ \union more])
  <2> DEFINE other == Definitions \ (c.starts \union c.stops)
             active == {d \in other : units[d].active}
  <2>1. PICK idle \in SUBSET {d \in other \ active : units[d].enabled} :
          Advance(p, [c EXCEPT !.stops = @ \union IF c.ask.inclusive THEN {} ELSE active \union idle])
    BY DEF ListUnits
  <2>2. (IF c.ask.inclusive THEN {} ELSE active \union idle) \subseteq Definitions
    OBVIOUS
  <2>q. QED
    BY <2>1, <2>2
<1> DEFINE x == [c EXCEPT !.stops = @ \union more]
<1>4. /\ DOMAIN x = DOMAIN NoCommand /\ x.stops = c.stops \union more
      /\ x.todo = c.todo /\ x.ask = c.ask /\ x.unit = c.unit /\ x.result = c.result
      /\ x.setFile = c.setFile /\ x.content = c.content /\ x.starts = c.starts /\ x.left = c.left
  BY <1>2, CommandFields DEF Fields
<1>5. /\ x.left \subseteq Entries /\ x.starts \subseteq Definitions /\ x.stops \subseteq Definitions
      /\ Advance(p, x) /\ Head(x.todo) \notin {"read", "truncate"} /\ Head(c.todo) # "load"
  BY <1>1, <1>2, <1>3, <1>4 DEF Fields
<1> HIDE DEF x
<1>q. QED
  BY <1>1, <1>4, <1>5, GoesOn

LEMMA QueryProc ==
  ASSUME TypeInv, NEW p \in Processes, Query(p)
  PROVE  ProcOK' /\ \A q \in Processes : q # p => proc'[q] = proc[q]
<1> DEFINE c == proc[p]
           x == [c EXCEPT !.wasActive = units[c.unit].active]
<1>1. Busy(p) /\ Head(c.todo) = "query" /\ Advance(p, x)
  BY DEF Query, At
<1>2. Fields(c)
  BY <1>1, CommandNow
<1>4. /\ DOMAIN x = DOMAIN NoCommand /\ x.stops = c.stops
      /\ x.todo = c.todo /\ x.ask = c.ask /\ x.unit = c.unit /\ x.result = c.result
      /\ x.setFile = c.setFile /\ x.content = c.content /\ x.starts = c.starts /\ x.left = c.left
  BY <1>2, CommandFields DEF Fields
<1>5. /\ x.left \subseteq Entries /\ x.starts \subseteq Definitions /\ x.stops \subseteq Definitions
      /\ Head(x.todo) \notin {"read", "truncate"} /\ Head(c.todo) # "load"
  BY <1>1, <1>2, <1>4 DEF Fields
<1> HIDE DEF x
<1>q. QED
  BY <1>1, <1>4, <1>5, GoesOn

\* The command takes one of the services off its list of those to stop or to start.
LEMMA OneLess ==
  ASSUME TypeInv, NEW p \in Processes, Busy(p), NEW d,
         \/ Become(p, [proc[p] EXCEPT !.stops = @ \ {d}])
         \/ Become(p, [proc[p] EXCEPT !.starts = @ \ {d}])
  PROVE  ProcOK' /\ \A q \in Processes : q # p => proc'[q] = proc[q]
<1> DEFINE c == proc[p]
<1>1. Fields(c)
  BY CommandNow
<1>2. ASSUME NEW x, x = [c EXCEPT !.stops = @ \ {d}] \/ x = [c EXCEPT !.starts = @ \ {d}], Become(p, x)
      PROVE  ProcOK' /\ \A q \in Processes : q # p => proc'[q] = proc[q]
  <2>1. /\ DOMAIN x = DOMAIN NoCommand /\ x.stops \subseteq c.stops /\ x.starts \subseteq c.starts
        /\ x.todo = c.todo /\ x.ask = c.ask /\ x.unit = c.unit /\ x.result = c.result
        /\ x.setFile = c.setFile /\ x.content = c.content /\ x.left = c.left
    BY <1>1, <1>2, CommandFields DEF Fields
  <2>2. x.left \subseteq Entries /\ x.starts \subseteq Definitions /\ x.stops \subseteq Definitions
    BY <1>1, <2>1 DEF Fields
  <2>q. QED
    BY <1>2, <2>1, <2>2, StaysAt
<1>q. QED
  BY <1>2

LEMMA StopOneType ==
  ASSUME TypeInv, NEW p \in Processes, StopOne(p)
  PROVE  ProcOK' /\ UnitsOK' /\ \A q \in Processes : q # p => proc'[q] = proc[q]
<1>1. Busy(p) /\ Head(proc[p].todo) = "stop"
  BY DEF StopOne, At
<1>2. CASE Advance(p, proc[p]) /\ UNCHANGED units
  BY <1>1, <1>2, GoesOnAlike, Kept
<1>3. CASE \E d \in proc[p].stops : SetUnit(d, FALSE, FALSE) /\ Become(p, [proc[p] EXCEPT !.stops = @ \ {d}])
  BY <1>1, <1>3, OneLess, SetUnitOK DEF TypeInv
<1>q. QED
  BY <1>2, <1>3 DEF StopOne

LEMMA StartOneType ==
  ASSUME TypeInv, NEW p \in Processes, StartOne(p)
  PROVE  ProcOK' /\ UnitsOK' /\ \A q \in Processes : q # p => proc'[q] = proc[q]
<1>1. Busy(p) /\ Head(proc[p].todo) = "start"
  BY DEF StartOne, At
<1>2. CASE Advance(p, proc[p]) /\ UNCHANGED units
  BY <1>1, <1>2, GoesOnAlike, Kept
<1>3. CASE \E d \in proc[p].starts : SetUnit(d, TRUE, TRUE) /\ Become(p, [proc[p] EXCEPT !.starts = @ \ {d}])
  BY <1>1, <1>3, OneLess, SetUnitOK DEF TypeInv
<1>q. QED
  BY <1>2, <1>3 DEF StartOne

\* The unit that a command controls is that of its service.
LEMMA UnitIs ==
  ASSUME TypeInv, NEW p \in Processes, At(p, "control")
  PROVE  /\ UnitOf(p) = Target(proc[p].ask) /\ UnitOf(p) \in Definitions \union {None}
         /\ proc[p].ask.cmd # "reloadAll" /\ proc[p].ask \in Asked
<1>1. /\ Running(proc[p]) /\ proc[p].ask.cmd # "reloadAll" /\ Head(proc[p].todo) = "control"
      /\ proc[p].ask \in Asked
  BY CommandNow DEF At
<1>2. UnitOf(p) = Target(proc[p].ask)
  BY <1>1 DEF UnitOf, Running
<1>q. QED
  BY <1>1, <1>2, TargetIs DEF Target

LEMMA ControlType ==
  ASSUME TypeInv, NEW p \in Processes, Control(p)
  PROVE  ProcOK' /\ UnitsOK' /\ \A q \in Processes : q # p => proc'[q] = proc[q]
<1> DEFINE c == proc[p].ask
           d == UnitOf(p)
           u == units[d]
<1>1. Busy(p) /\ Head(proc[p].todo) = "control" /\ d \in Definitions /\ c \in Asked
  BY UnitIs DEF Control, At
<1>2. u.enabled \in BOOLEAN /\ u.active \in BOOLEAN /\ c.now \in BOOLEAN
  BY <1>1 DEF TypeInv, UnitsOK, Asked
<1>3. CASE Fail(p) /\ UNCHANGED units
  BY <1>3, Ends, Kept
<1>4. CASE Systemctl(p) /\ Advance(p, proc[p])
  <2>1. PICK enabled \in BOOLEAN, active \in BOOLEAN : SetUnit(d, enabled, active)
    <3>1. \/ SetUnit(d, TRUE, u.active \/ c.now)
          \/ SetUnit(d, FALSE, u.active /\ ~c.now)
          \/ SetUnit(d, u.enabled, FALSE)
          \/ SetUnit(d, u.enabled, TRUE)
      BY <1>4, Zenon DEF Systemctl
    <3>2. (u.active \/ c.now) \in BOOLEAN /\ (u.active /\ ~c.now) \in BOOLEAN
      OBVIOUS
    <3> HIDE DEF c, d, u
    <3>q. QED
      BY <1>2, <3>1, <3>2
  <2>2. UnitsOK'
    BY <2>1, SetUnitOK DEF TypeInv
  <2>q. QED
    BY <1>1, <1>4, <2>2, GoesOnAlike
<1>q. QED
  BY <1>3, <1>4 DEF Control

LEMMA ControlFailsUnits ==
  ASSUME TypeInv, NEW p \in Processes, ControlFails(p)
  PROVE  UnitsOK'
<1> DEFINE c == proc[p].ask
           d == UnitOf(p)
           u == units[d]
<1>1. d \in Definitions
  BY UnitIs DEF ControlFails
<1>2. u.enabled \in BOOLEAN /\ u.active \in BOOLEAN
  BY <1>1 DEF TypeInv, UnitsOK
<1>3. SetUnit(d, u.enabled \/ c.cmd = "enable", u.active /\ c.cmd = "reload")
  BY DEF ControlFails
<1>4. (u.enabled \/ c.cmd = "enable") \in BOOLEAN /\ (u.active /\ c.cmd = "reload") \in BOOLEAN
  OBVIOUS
<1> HIDE DEF c, d, u
<1>q. QED
  BY <1>3, <1>4, SetUnitOK DEF TypeInv

LEMMA StopFirstUnits ==
  ASSUME TypeInv, NEW p \in Processes, StopFirst(p)
  PROVE  UnitsOK' /\ proc[p].unit \in Definitions /\ proc[p].unit = Target(proc[p].ask)
<1>1. Running(proc[p]) /\ Head(proc[p].todo) = "stop" /\ proc[p].ask.cmd = "restart"
  BY CommandNow DEF StopFirst, At
<1>2. proc[p].unit \in Definitions /\ proc[p].unit = Target(proc[p].ask)
  BY <1>1 DEF Running
<1>3. units[proc[p].unit].enabled \in BOOLEAN
  BY <1>2 DEF TypeInv, UnitsOK
<1>4. SetUnit(proc[p].unit, units[proc[p].unit].enabled, FALSE)
  BY DEF StopFirst
<1>q. QED
  BY <1>2, <1>3, <1>4, SetUnitOK DEF TypeInv

\* A command begins.
LEMMA BeginType ==
  ASSUME TypeInv, NEW p \in Processes, NEW c \in Commands, Begin(p, c)
  PROVE  TypeInv' /\ \A q \in Processes : q # p => proc'[q] = proc[q]
<1> DEFINE others == \E q \in Processes : Busy(q)
           before == IF others THEN touched ELSE [d \in Definitions |-> 0]
           d == Target(c)
           x == [NoCommand EXCEPT !.ask = c, !.todo = Program[c.cmd],
                                  !.left = IF c.cmd = "reloadAll" THEN Entries ELSE {}]
<1>1. c \in Asked /\ c.cmd \in DOMAIN Program
  BY CommandsAssumption DEF Asked, Program
<1>2. /\ DOMAIN x = DOMAIN NoCommand /\ x.ask = c /\ x.todo = Program[c.cmd]
      /\ x.result = "none" /\ x.starts = {} /\ x.stops = {}
      /\ x.left = IF c.cmd = "reloadAll" THEN Entries ELSE {}
  BY CommandFields DEF NoCommand
<1>3. Become(p, x)
  BY DEF Begin
<1>4. x.todo \in Seq(Labels)
  BY <1>1, <1>2, TodoBegins DEF Plan
<1> HIDE DEF x
<1>5. Fields(x)
  BY <1>2, <1>4 DEF Fields
<1>6. ProcOK' /\ \A q \in Processes : q # p => proc'[q] = proc[q]
  BY <1>1, <1>2, <1>3, <1>5, BeginsWith
<1>7. commands < MaxCommands /\ commands' = commands + 1 /\ UNCHANGED faults
  BY DEF Begin
<1>8. touched' = IF d = None THEN before ELSE [before EXCEPT ![d] = @ + 1]
  BY DEF Begin
<1>9. before \in [Definitions -> Nat] /\ \A e \in Definitions : before[e] <= commands
  BY DEF TypeInv, CountsOK
<1>10. touched' \in [Definitions -> Nat] /\ \A e \in Definitions : touched'[e] <= commands'
  <2> HIDE DEF before, d
  <2>1. ASSUME NEW e \in Definitions
        PROVE  touched'[e] \in {before[e], before[e] + 1}
    BY <1>8, <1>9
  <2>2. touched' = [e \in Definitions |-> touched'[e]]
    BY <1>8, <1>9
  <2>3. commands \in Nat
    BY BoundsAssumption DEF TypeInv, CountsOK
  <2>4. ASSUME NEW e \in Definitions
        PROVE  touched'[e] \in Nat /\ touched'[e] <= commands'
    <3>1. before[e] \in Nat /\ before[e] <= commands
      BY <1>9
    <3>q. QED
      BY <1>7, <2>1, <2>3, <3>1
  <2>q. QED
    BY <2>2, <2>4
<1>11. CountsOK'
  BY <1>7, <1>10, BoundsAssumption DEF TypeInv, CountsOK, Definitions, Entries
<1>12. KeysOK'
  <2>1. said' = Except(d) \/ said' = said
    BY DEF Begin
  <2>2. \A k \in DOMAIN said' : k \in DOMAIN said
    BY <2>1 DEF Except
  <2>q. QED
    BY <2>2 DEF TypeInv, KeysOK, Definitions, Entries
<1>13. UNCHANGED <<files, units>>
  BY DEF Begin
<1>q. QED
  BY <1>6, <1>11, <1>12, <1>13, Kept DEF TypeInv

\* The command whose step changes a file, and the service it is for.
LEMMA WriterIs ==
  ASSUME TypeInv, NEW p \in Processes, At(p, "read") \/ At(p, "truncate") \/ At(p, "write") \/ At(p, "check")
  PROVE  /\ Busy(p) /\ proc[p].unit \in Definitions /\ proc[p].unit = Target(proc[p].ask)
         /\ proc[p].ask.cmd \in {"enable", "disable", "set"} /\ proc[p].ask \in Asked
         /\ proc[p].setFile \in DOMAIN files
<1>1. Busy(p) /\ Head(proc[p].todo) \in {"read", "truncate", "write", "check"}
  BY DEF At
<1>2. Running(proc[p]) /\ proc[p].ask.cmd \in {"enable", "disable", "set"} /\ proc[p].ask \in Asked
  BY <1>1, CommandNow
<1>3. DOMAIN files = DOMAIN DirOf
  BY DEF TypeInv, FilesOK
<1>q. QED
  BY <1>1, <1>2, <1>3 DEF Running

\* Only the process whose step it is goes on.
LEMMA StepType ==
  ASSUME TypeInv, NEW p \in Processes, Step(p) \/ Kill(p)
  PROVE  TypeInv' /\ \A q \in Processes : q # p => proc'[q] = proc[q]
<1> DEFINE Others == \A q \in Processes : q # p => proc'[q] = proc[q]
<1> USE DEF TypeInv
<1>1. CASE Load(p)
  <2>1. ProcOK' /\ Others
    BY <1>1, LoadProc
  <2>2. UNCHANGED <<files, units>> /\ Quietly
    BY <1>1 DEF Load
  <2>q. QED
    BY <2>1, <2>2, Kept
<1>2. CASE ReadSetFile(p)
  <2>1. ProcOK' /\ Others
    BY <1>2, ReadProc
  <2>2. UNCHANGED <<files, units>> /\ Quietly
    BY <1>2 DEF ReadSetFile
  <2>q. QED
    BY <2>1, <2>2, Kept
<1>3. CASE Truncate(p)
  <2>1. Busy(p) /\ Head(proc[p].todo) = "truncate" /\ Advance(p, proc[p])
    BY <1>3 DEF Truncate, At
  <2>2. ProcOK' /\ Others
    BY <2>1, GoesOnAlike
  <2>3. FilesOK'
    BY <1>3, FileWritten DEF Truncate
  <2>4. UNCHANGED units /\ Quietly
    BY <1>3 DEF Truncate
  <2>q. QED
    BY <2>2, <2>3, <2>4, Kept
<1>4. CASE Write(p)
  <2>1. Busy(p) /\ Head(proc[p].todo) = "write" /\ Advance(p, proc[p]) /\ At(p, "write")
    BY <1>4 DEF Write, At
  <2>2. ProcOK' /\ Others
    BY <2>1, GoesOnAlike
  <2>3. FilesOK'
    BY <1>4, WriteFiles
  <2>4. UNCHANGED said \/ Report(proc[p].unit, <<>>, proc[p].ask.cmd = "disable")
    BY <1>4 DEF Write
  <2>5. KeysOK'
    BY <2>1, <2>4, WriterIs, ReportOK, Kept
  <2>6. UNCHANGED <<units, commands, faults, touched>>
    BY <1>4 DEF Write
  <2>q. QED
    BY <2>2, <2>3, <2>5, <2>6, Kept
<1>5. CASE Check(p)
  <2>1. ProcOK' /\ KeysOK' /\ Others
    BY <1>5, CheckType
  <2>2. UNCHANGED <<files, units, commands, faults, touched>>
    BY <1>5 DEF Check
  <2>q. QED
    BY <2>1, <2>2, Kept
<1>6. CASE Rollout(p)
  <2>1. Busy(p) /\ Head(proc[p].todo) = "rollout"
    BY <1>6 DEF Rollout, At
  <2>2. Advance(p, proc[p]) \/ Fail(p)
    BY <1>6 DEF Rollout
  <2>3. ProcOK' /\ Others
    BY <2>1, <2>2, GoesOnAlike, Ends
  <2>4. UNCHANGED <<files, units, commands, said, touched>> /\ (UNCHANGED faults \/ Fault)
    BY <1>6 DEF Rollout
  <2>q. QED
    BY <2>3, <2>4, Kept
<1>7. CASE Query(p)
  <2>1. ProcOK' /\ Others
    BY <1>7, QueryProc
  <2>2. UNCHANGED <<files, units>> /\ Quietly
    BY <1>7 DEF Query
  <2>q. QED
    BY <2>1, <2>2, Kept
<1>8. CASE Control(p)
  <2>1. ProcOK' /\ UnitsOK' /\ Others
    BY <1>8, ControlType
  <2>2. UNCHANGED files /\ Quietly
    BY <1>8 DEF Control
  <2>q. QED
    BY <2>1, <2>2, Kept
<1>9. CASE ControlFails(p)
  <2>1. ProcOK' /\ Others
    BY <1>9, Ends DEF ControlFails
  <2>2. UnitsOK'
    BY <1>9, ControlFailsUnits
  <2>3. UNCHANGED <<files, commands, said, touched>> /\ Fault
    BY <1>9 DEF ControlFails
  <2>q. QED
    BY <2>1, <2>2, <2>3, Kept
<1>10. CASE NotFound(p)
  <2>1. ProcOK' /\ Others
    BY <1>10, Ends DEF NotFound
  <2>2. UNCHANGED <<files, units>> /\ Quietly
    BY <1>10 DEF NotFound
  <2>q. QED
    BY <2>1, <2>2, Kept
<1>11. CASE StopFirst(p)
  <2>1. ProcOK' /\ Others
    BY <1>11, StopFirstProc
  <2>2. UnitsOK'
    BY <1>11, StopFirstUnits
  <2>3. UNCHANGED files /\ Quietly
    BY <1>11 DEF StopFirst
  <2>q. QED
    BY <2>1, <2>2, <2>3, Kept
<1>12. CASE Scan(p)
  <2>1. ProcOK' /\ Others
    BY <1>12, ScanProc
  <2>2. UNCHANGED <<files, units>> /\ Quietly
    BY <1>12 DEF Scan
  <2>q. QED
    BY <2>1, <2>2, Kept
<1>13. CASE ListUnits(p)
  <2>1. ProcOK' /\ Others
    BY <1>13, ListProc
  <2>2. UNCHANGED <<files, units>> /\ Quietly
    BY <1>13 DEF ListUnits
  <2>q. QED
    BY <2>1, <2>2, Kept
<1>14. CASE StopOne(p)
  <2>1. ProcOK' /\ UnitsOK' /\ Others
    BY <1>14, StopOneType
  <2>2. UNCHANGED files /\ Quietly
    BY <1>14 DEF StopOne
  <2>q. QED
    BY <2>1, <2>2, Kept
<1>15. CASE StartOne(p)
  <2>1. ProcOK' /\ UnitsOK' /\ Others
    BY <1>15, StartOneType
  <2>2. UNCHANGED files /\ Quietly
    BY <1>15 DEF StartOne
  <2>q. QED
    BY <2>1, <2>2, Kept
<1>16. CASE StartFails(p)
  <2>1. ProcOK' /\ Others
    BY <1>16, Ends DEF StartFails
  <2>2. UnitsOK'
    BY <1>16, SetUnitOK DEF StartFails
  <2>3. UNCHANGED <<files, commands, said, touched>> /\ Fault
    BY <1>16 DEF StartFails
  <2>q. QED
    BY <2>1, <2>2, <2>3, Kept
<1>17. CASE Kill(p)
  <2>1. ProcOK' /\ Others
    BY <1>17, Ends DEF Kill
  <2>2. \A k \in DOMAIN said' : k \in DOMAIN said
    BY <1>17 DEF Kill
  <2>3. KeysOK'
    BY <2>2 DEF KeysOK, Definitions, Entries
  <2>4. UNCHANGED <<files, units, commands, touched>> /\ Fault
    BY <1>17 DEF Kill
  <2>q. QED
    BY <2>1, <2>3, <2>4, Kept
<1>q. QED
  BY <1>1, <1>2, <1>3, <1>4, <1>5, <1>6, <1>7, <1>8, <1>9, <1>10, <1>11, <1>12, <1>13, <1>14,
     <1>15, <1>16, <1>17 DEF Step

LEMMA InitType == Init => TypeInv
<1> SUFFICES ASSUME Init PROVE TypeInv
  OBVIOUS
<1>1. FilesOK
  BY WorldsAssumption DEF Init, FilesOK
<1>2. UnitsOK
  BY DEF Init, UnitsOK
<1>3. CountsOK
  BY BoundsAssumption DEF Init, CountsOK
<1>4. Command(NoCommand)
  BY DEF Command, Fields, NoCommand
<1>5. ProcOK
  BY <1>4 DEF Init, ProcOK
<1>6. KeysOK
  BY DEF Init, KeysOK
<1>q. QED
  BY <1>1, <1>2, <1>3, <1>5, <1>6 DEF TypeInv

LEMMA NextType == TypeInv /\ [Next]_vars => TypeInv'
<1> SUFFICES ASSUME TypeInv, [Next]_vars PROVE TypeInv'
  OBVIOUS
<1>1. ASSUME NEW p \in Processes, Step(p) \/ Kill(p) PROVE TypeInv'
  BY <1>1, StepType
<1>2. ASSUME NEW p \in Processes, NEW c \in Commands, Begin(p, c) PROVE TypeInv'
  BY <1>2, BeginType
<1>3. CASE UNCHANGED vars
  <2>1. ProcOK'
    BY <1>3 DEF vars, TypeInv, ProcOK, Command, Fields, Running, Content, Target, Entries, Definitions
  <2>q. QED
    BY <1>3, <2>1, Kept DEF vars, TypeInv, Quietly
<1>q. QED
  BY <1>1, <1>2, <1>3 DEF Next

LEMMA AlwaysTyped == Spec => []TypeInv
BY InitType, NextType, PTL DEF Spec

\* The files are missing, broken or valid, every service has a unit, the commands' lists
\* hold services (service.go:73-135), and what has been reported is about services.
THEOREM TypeCorrect == Spec => []TypeOK
<1>1. TypeInv => TypeOK
  <2> SUFFICES ASSUME TypeInv PROVE TypeOK
    OBVIOUS
  <2>1. \A f \in DOMAIN files : files[f].json \in {"missing", "broken", "valid"}
    BY DEF TypeInv, FilesOK, WellFormed
  <2>2. ASSUME NEW d \in Definitions
        PROVE  units[d] \in [enabled : BOOLEAN, active : BOOLEAN] /\ touched[d] \in 0..MaxCommands
    BY BoundsAssumption DEF TypeInv, UnitsOK, CountsOK
  <2>3. ASSUME NEW p \in Processes
        PROVE  /\ proc[p].todo \in Seq(Labels)
               /\ proc[p].result \in {"none", "ok", "failed"}
               /\ proc[p].starts \union proc[p].stops \subseteq Definitions
    BY DEF TypeInv, ProcOK, Command, Fields
  <2>4. commands \in 0..MaxCommands /\ faults \in 0..MaxFaults
    BY DEF TypeInv, CountsOK
  <2>5. \A k \in DOMAIN said : k[1] \in Definitions
    BY DEF TypeInv, KeysOK
  <2>q. QED
    BY <2>1, <2>2, <2>3, <2>4, <2>5 DEF TypeOK
<1>q. QED
  BY <1>1, AlwaysTyped, PTL

(***************************************************************************)
(* Where a step takes a command                                            *)
(***************************************************************************)
ProcFields == {"ask", "unit", "setFile", "content", "left", "starts", "stops", "wasActive", "result"}

\* A command that goes on has the rest of its steps to do, and is otherwise as it was given.
LEMMA AdvanceGoes ==
  ASSUME TypeInv, NEW p \in Processes, Busy(p), NEW d, DOMAIN d = DOMAIN NoCommand,
         d.todo = proc[p].todo, Advance(p, d)
  PROVE  /\ proc'[p].todo = Tail(proc[p].todo)
         /\ Tail(proc[p].todo) # <<>> => \A f \in ProcFields : proc'[p][f] = d[f]
         /\ Tail(proc[p].todo) = <<>> => proc'[p] = Done("ok")
<1>1. proc' = [proc EXCEPT ![p] = Advanced(d)] /\ DOMAIN proc = Processes
  BY DEF TypeInv, ProcOK, Advance, Become, Advanced
<1>2. proc'[p] = Advanced(d)
  BY <1>1
<1>3. CASE Tail(proc[p].todo) = <<>>
  BY <1>2, <1>3, DoneFields DEF Advanced
<1>4. CASE Tail(proc[p].todo) # <<>>
  <2>1. "todo" \in DOMAIN d /\ ProcFields \subseteq DOMAIN d
    BY CommandFields DEF ProcFields
  <2>2. Advanced(d) = [d EXCEPT !["todo"] = Tail(d.todo)]
    BY <1>4 DEF Advanced
  <2>3. Advanced(d).todo = Tail(d.todo) /\ \A f \in DOMAIN d : f # "todo" => Advanced(d)[f] = d[f]
    BY <2>1, <2>2, OtherField
  <2>4. "todo" \notin ProcFields
    BY DEF ProcFields
  <2>q. QED
    BY <1>2, <1>4, <2>1, <2>3, <2>4
<1>q. QED
  BY <1>3, <1>4

\* Which steps come next.
LEMMA NextLabels ==
  ASSUME TypeInv, NEW p \in Processes, Busy(p)
  PROVE  LET h == Head(proc[p].todo)
             t == Tail(proc[p].todo)
         IN
         /\ h = "load" => t # <<>> /\ Head(t) \in {"read", "control", "query", "rollout"}
         /\ h = "read" => t # <<>> /\ Head(t) = "truncate"
         /\ h = "truncate" => t # <<>> /\ Head(t) = "write"
         /\ h = "write" => t # <<>> /\ Head(t) = IF proc[p].ask.cmd = "set" THEN "check" ELSE "control"
         /\ h \in {"check", "start"} => t = <<>>
         /\ h = "scan" => t # <<>> /\ Head(t) = "list"
         /\ h = "list" => t # <<>> /\ Head(t) = "stop"
         /\ h = "stop" => IF proc[p].ask.cmd = "reloadAll" THEN t # <<>> /\ Head(t) = "start" ELSE t = <<>>
         /\ h \in {"rollout", "query", "control"} /\ t # <<>> => Head(t) \in {"query", "control"}
<1>1. TodoOf(proc[p].ask.cmd, proc[p].todo) /\ proc[p].ask.cmd \in DOMAIN Program
  BY CommandNow
<1>q. QED
  BY <1>1, TodoTail

\* A command that has been loaded is about the service of its name.
LEMMA LoadGoes ==
  ASSUME TypeInv, NEW p \in Processes, Load(p), Busy(p)'
  PROVE  LET s == Loaded(proc[p].ask.name) IN
         /\ s.ok /\ proc'[p].ask = proc[p].ask /\ proc'[p].unit = s.fileName
         /\ Head(proc'[p].todo) \notin {"truncate", "write", "check", "scan", "list", "start"}
         /\ Head(proc'[p].todo) = "read" => proc'[p].setFile = s.configSetFile
<1> DEFINE c == proc[p]
           s == Loaded(c.ask.name)
<1>1. Busy(p) /\ Head(c.todo) = "load"
  BY DEF Load, At
<1>2. Fields(c) /\ c.ask.cmd \in DOMAIN Program
  BY <1>1, CommandNow
<1>3. ~(Fail(p) \/ Finish(p))
  <2>1. proc'[p].todo # <<>>
    BY DEF Busy
  <2>q. QED
    BY <2>1, Ends
<1>5. CASE /\ s.ok /\ c.ask.cmd \in DOMAIN Foreground
           /\ Become(p, [c EXCEPT !.todo = Foreground[c.ask.cmd], !.unit = s.fileName])
  <2> DEFINE d == [c EXCEPT !.todo = Foreground[c.ask.cmd], !.unit = s.fileName]
  <2>1. d.todo = Foreground[c.ask.cmd] /\ d.unit = s.fileName /\ d.ask = c.ask
    BY <1>2, CommandFields DEF Fields
  <2>2. Head(d.todo) \in {"rollout", "stop"}
    BY <1>5, <2>1, FirstSteps
  <2>3. proc'[p] = d
    BY <1>5 DEF Become, TypeInv, ProcOK
  <2> HIDE DEF d
  <2>q. QED
    BY <1>5, <2>1, <2>2, <2>3
<1>6. CASE s.ok /\ Advance(p, [c EXCEPT !.setFile = s.configSetFile, !.unit = s.fileName])
  <2> DEFINE d == [c EXCEPT !.setFile = s.configSetFile, !.unit = s.fileName]
  <2>1. /\ DOMAIN d = DOMAIN NoCommand /\ d.todo = c.todo
        /\ d.unit = s.fileName /\ d.setFile = s.configSetFile /\ d.ask = c.ask
    BY <1>2, CommandFields DEF Fields
  <2>2. Advance(p, d)
    BY <1>6
  <2>3. Tail(c.todo) # <<>> /\ Head(Tail(c.todo)) \in {"read", "control", "query", "rollout"}
    BY <1>1, NextLabels
  <2> HIDE DEF d
  <2>4. proc'[p].todo = Tail(c.todo) /\ \A f \in ProcFields : proc'[p][f] = d[f]
    BY <1>1, <2>1, <2>2, <2>3, AdvanceGoes
  <2>5. proc'[p].ask = d.ask /\ proc'[p].unit = d.unit /\ proc'[p].setFile = d.setFile
    BY <2>4 DEF ProcFields
  <2>q. QED
    BY <1>6, <2>1, <2>3, <2>4, <2>5
<1>q. QED
  BY <1>3, <1>5, <1>6 DEF Load

\* It reads the file it is to change, unless that is broken.
LEMMA ReadGoes ==
  ASSUME TypeInv, NEW p \in Processes, ReadSetFile(p), Busy(p)'
  PROVE  LET f == files[proc[p].setFile] IN
         /\ f.json # "broken" /\ Head(proc'[p].todo) = "truncate" /\ proc'[p].ask = proc[p].ask
         /\ proc'[p].unit = proc[p].unit /\ proc'[p].setFile = proc[p].setFile
         /\ proc'[p].content = Base(f)
<1> DEFINE c == proc[p]
           f == files[c.setFile]
           d == [c EXCEPT !.content = IF Exists(f) THEN f ELSE NoContent]
<1>1. Busy(p) /\ Head(c.todo) = "read"
  BY DEF ReadSetFile, At
<1>2. Fields(c)
  BY <1>1, CommandNow
<1>3. ~Fail(p)
  <2>1. proc'[p].todo # <<>>
    BY DEF Busy
  <2>q. QED
    BY <2>1, Ends
<1>4. f.json # "broken" /\ Advance(p, d)
  BY <1>3 DEF ReadSetFile
<1>5. /\ DOMAIN d = DOMAIN NoCommand /\ d.content = Base(f) /\ d.todo = c.todo
      /\ d.ask = c.ask /\ d.unit = c.unit /\ d.setFile = c.setFile
  BY <1>2, CommandFields DEF Fields, Base
<1>6. Tail(c.todo) # <<>> /\ Head(Tail(c.todo)) = "truncate"
  BY <1>1, NextLabels
<1> HIDE DEF d
<1>7. proc'[p].todo = Tail(c.todo) /\ \A g \in ProcFields : proc'[p][g] = d[g]
  BY <1>1, <1>4, <1>5, <1>6, AdvanceGoes
<1>8. /\ proc'[p].ask = d.ask /\ proc'[p].unit = d.unit /\ proc'[p].setFile = d.setFile
      /\ proc'[p].content = d.content
  BY <1>7 DEF ProcFields
<1>q. QED
  BY <1>4, <1>5, <1>6, <1>7, <1>8

\* It goes on to write what it has read once it has truncated the file, and then to
\* check what it has written or to its systemctl.
LEMMA WriterGoes ==
  ASSUME TypeInv, NEW p \in Processes, Truncate(p) \/ Write(p)
  PROVE  /\ Truncate(p) => Head(proc'[p].todo) = "write"
         /\ Write(p) => Head(proc'[p].todo) = IF proc[p].ask.cmd = "set" THEN "check" ELSE "control"
         /\ Busy(p)' /\ proc'[p].ask = proc[p].ask /\ proc'[p].unit = proc[p].unit
         /\ proc'[p].setFile = proc[p].setFile /\ proc'[p].content = proc[p].content
<1> DEFINE c == proc[p]
<1>1. Busy(p) /\ Advance(p, c) /\ Head(c.todo) \in {"truncate", "write"}
      /\ (Truncate(p) => Head(c.todo) = "truncate") /\ (Write(p) => Head(c.todo) = "write")
  BY DEF Truncate, Write, At
<1>2. DOMAIN c = DOMAIN NoCommand
  BY <1>1, CommandNow DEF Fields
<1>3. Tail(c.todo) # <<>>
  BY <1>1, NextLabels
<1>4. proc'[p].todo = Tail(c.todo) /\ \A g \in ProcFields : proc'[p][g] = c[g]
  BY <1>1, <1>2, <1>3, AdvanceGoes
<1>5. /\ proc'[p].ask = c.ask /\ proc'[p].unit = c.unit /\ proc'[p].setFile = c.setFile
      /\ proc'[p].content = c.content
  BY <1>4 DEF ProcFields
<1>6. Busy(p)'
  BY <1>3, <1>4 DEF Busy
<1>q. QED
  BY <1>1, <1>4, <1>5, <1>6, NextLabels

\* The other steps lead to none of those that read or write files, and leave the command
\* what it is, but that it becomes a reload or a start of the same service.
Writing == {"read", "truncate", "write", "check"}
LEMMA CheckGoes ==
  ASSUME TypeInv, NEW p \in Processes, Check(p) \/ StopFirst(p), Busy(p)'
  PROVE  /\ Busy(p) /\ Head(proc'[p].todo) = "load" /\ proc'[p].ask.name = proc[p].ask.name
         /\ proc'[p].ask.cmd # "reloadAll" /\ proc[p].ask.cmd # "reloadAll"
<1> DEFINE c == proc[p]
           d == [c EXCEPT !.ask.cmd = "reload", !.todo = Program.reload]
           e == [c EXCEPT !.ask.cmd = "start", !.ask.mode = "foreground", !.todo = Program.start]
<1>1. Busy(p) /\ (Check(p) => Head(c.todo) = "check") /\ (StopFirst(p) => c.ask.cmd = "restart")
  BY DEF Check, StopFirst, At
<1>2. Fields(c) /\ c.ask \in Asked /\ (Check(p) => c.ask.cmd = "set")
  BY <1>1, CommandNow
<1>3. ~(Fail(p) \/ Finish(p))
  <2>1. proc'[p].todo # <<>>
    BY DEF Busy
  <2>q. QED
    BY <2>1, Ends
<1>4. (Check(p) /\ Become(p, d)) \/ (StopFirst(p) /\ Become(p, e))
  BY <1>3 DEF Check, StopFirst
<1>5. proc' = [proc EXCEPT ![p] = d] \/ proc' = [proc EXCEPT ![p] = e]
  BY <1>4 DEF Become
<1>6. proc'[p] = d \/ proc'[p] = e
  BY <1>5 DEF TypeInv, ProcOK
<1>7. /\ d.todo = Program.reload /\ d.ask = [c.ask EXCEPT !.cmd = "reload"]
      /\ e.todo = Program.start /\ e.ask = [c.ask EXCEPT !.cmd = "start", !.mode = "foreground"]
  BY <1>2, CommandFields DEF Fields
<1> DEFINE a == c.ask
<1> HIDE DEF d, e
<1>8. /\ d.ask.name = a.name /\ d.ask.cmd = "reload" /\ e.ask.name = a.name /\ e.ask.cmd = "start"
  <2>1. a \in Asked /\ d.ask = [a EXCEPT !.cmd = "reload"]
        /\ e.ask = [a EXCEPT !.cmd = "start", !.mode = "foreground"]
    BY <1>2, <1>7
  <2> HIDE DEF a
  <2>q. QED
    BY <2>1 DEF Asked
<1>9. Head(d.todo) = "load" /\ Head(e.todo) = "load"
  BY <1>7 DEF Program
<1>10. Head(proc'[p].todo) = "load" /\ proc'[p].ask.name = a.name /\ proc'[p].ask.cmd # "reloadAll"
  BY <1>6, <1>8, <1>9
<1>11. c.ask.cmd # "reloadAll"
  BY <1>1, <1>2
<1>q. QED
  BY <1>1, <1>10, <1>11

\* Those of "conductor reload" are done again and again until nothing is left to do.
LEMMA ScanGoes ==
  ASSUME TypeInv, NEW p \in Processes, Scan(p)
  PROVE  /\ Busy(p)' /\ proc'[p].ask = proc[p].ask
         /\ Head(proc'[p].todo) = IF proc[p].left = {} THEN "list" ELSE "scan"
         /\ proc[p].left = {} => proc'[p].starts = proc[p].starts /\ proc'[p].stops = proc[p].stops
         /\ proc[p].left # {} =>
              \E e \in proc[p].left :
                LET d == Dirs[e[1]][e[2]] IN
                /\ proc'[p].left = proc[p].left \ {e}
                /\ \/ /\ d = None \/ ~OfFile(d).ok
                      /\ proc'[p].starts = proc[p].starts /\ proc'[p].stops = proc[p].stops
                   \/ /\ d # None /\ OfFile(d).ok /\ ShouldStart(OfFile(d))
                      /\ proc'[p].starts = proc[p].starts \union {d} /\ proc'[p].stops = proc[p].stops
                   \/ /\ d # None /\ OfFile(d).ok /\ ~ShouldStart(OfFile(d))
                      /\ proc'[p].stops = proc[p].stops \union {d} /\ proc'[p].starts = proc[p].starts
<1> DEFINE c == proc[p]
<1>1. Busy(p) /\ Head(c.todo) = "scan"
  BY DEF Scan, At
<1>2. Fields(c)
  BY <1>1, CommandNow
<1>3. CASE c.left = {}
  <2>1. Advance(p, c) /\ DOMAIN c = DOMAIN NoCommand
    BY <1>2, <1>3 DEF Scan, Fields
  <2>2. Tail(c.todo) # <<>> /\ Head(Tail(c.todo)) = "list"
    BY <1>1, NextLabels
  <2>3. proc'[p].todo = Tail(c.todo) /\ \A f \in ProcFields : proc'[p][f] = c[f]
    BY <1>1, <2>1, <2>2, AdvanceGoes
  <2>4. proc'[p].ask = c.ask /\ proc'[p].starts = c.starts /\ proc'[p].stops = c.stops
    BY <2>3 DEF ProcFields
  <2>q. QED
    BY <1>3, <2>2, <2>3, <2>4 DEF Busy
<1>4. CASE c.left # {}
  <2>1. PICK e \in c.left :
          LET d == Dirs[e[1]][e[2]]
              rest == [c EXCEPT !.left = @ \ {e}]
          IN  Become(p, IF d = None THEN rest
                        ELSE IF ~OfFile(d).ok THEN rest
                        ELSE IF ShouldStart(OfFile(d)) THEN [rest EXCEPT !.starts = @ \union {d}]
                        ELSE [rest EXCEPT !.stops = @ \union {d}])
    BY <1>4 DEF Scan
  <2> DEFINE d == Dirs[e[1]][e[2]]
             rest == [c EXCEPT !.left = @ \ {e}]
             x == [rest EXCEPT !.starts = @ \union {d}]
             y == [rest EXCEPT !.stops = @ \union {d}]
  <2>2. ASSUME NEW z, Become(p, z) PROVE proc'[p] = z
    BY <2>2 DEF Become, TypeInv, ProcOK
  <2>3. /\ rest.left = c.left \ {e} /\ rest.starts = c.starts /\ rest.stops = c.stops
        /\ rest.todo = c.todo /\ rest.ask = c.ask /\ DOMAIN rest = DOMAIN NoCommand
    BY <1>2, CommandFields DEF Fields
  <2>4. \/ proc'[p] = rest /\ (d = None \/ ~OfFile(d).ok)
        \/ proc'[p] = x /\ d # None /\ OfFile(d).ok /\ ShouldStart(OfFile(d))
        \/ proc'[p] = y /\ d # None /\ OfFile(d).ok /\ ~ShouldStart(OfFile(d))
    BY <2>1, <2>2
  <2> HIDE DEF rest, d
  <2>5. /\ x.left = rest.left /\ x.starts = rest.starts \union {d} /\ x.stops = rest.stops
        /\ x.todo = rest.todo /\ x.ask = rest.ask
        /\ y.left = rest.left /\ y.stops = rest.stops \union {d} /\ y.starts = rest.starts
        /\ y.todo = rest.todo /\ y.ask = rest.ask
    BY <2>3, CommandFields
  <2> HIDE DEF x, y
  <2>6. proc'[p].todo = c.todo /\ proc'[p].ask = c.ask /\ proc'[p].left = c.left \ {e}
    BY <2>3, <2>4, <2>5
  <2>7. \/ /\ d = None \/ ~OfFile(d).ok
           /\ proc'[p].starts = c.starts /\ proc'[p].stops = c.stops
        \/ /\ d # None /\ OfFile(d).ok /\ ShouldStart(OfFile(d))
           /\ proc'[p].starts = c.starts \union {d} /\ proc'[p].stops = c.stops
        \/ /\ d # None /\ OfFile(d).ok /\ ~ShouldStart(OfFile(d))
           /\ proc'[p].stops = c.stops \union {d} /\ proc'[p].starts = c.starts
    BY <2>3, <2>4, <2>5
  <2>8. Busy(p)' /\ Head(proc'[p].todo) = "scan"
    BY <1>1, <2>6 DEF Busy
  <2>q. QED
    BY <1>4, <2>6, <2>7, <2>8 DEF d
<1>q. QED
  BY <1>3, <1>4

LEMMA ListGoes ==
  ASSUME TypeInv, NEW p \in Processes, ListUnits(p)
  PROVE  LET other == Definitions \ (proc[p].starts \union proc[p].stops) IN
         /\ Busy(p)' /\ proc'[p].ask = proc[p].ask /\ Head(proc'[p].todo) = "stop"
         /\ proc'[p].starts = proc[p].starts
         /\ \E more \in SUBSET other : proc'[p].stops = proc[p].stops \union more
         /\ proc[p].ask.inclusive => proc'[p].stops = proc[p].stops
         /\ ~proc[p].ask.inclusive => \A d \in other : units[d].active => d \in proc'[p].stops
<1> DEFINE c == proc[p]
           other == Definitions \ (c.starts \union c.stops)
           active == {d \in other : units[d].active}
<1>1. Busy(p) /\ Head(c.todo) = "list"
  BY DEF ListUnits, At
<1>2. Fields(c)
  BY <1>1, CommandNow
<1>3. PICK idle \in SUBSET {d \in other \ active : units[d].enabled} :
        Advance(p, [c EXCEPT !.stops = @ \union IF c.ask.inclusive THEN {} ELSE active \union idle])
  BY DEF ListUnits
<1> DEFINE more == IF c.ask.inclusive THEN {} ELSE active \union idle
           x == [c EXCEPT !.stops = @ \union more]
<1>4. /\ more \in SUBSET other /\ (c.ask.inclusive => more = {})
      /\ ~c.ask.inclusive => \A d \in other : units[d].active => d \in more
  OBVIOUS
<1>5. Advance(p, x)
  BY <1>3
<1> HIDE DEF more
<1>6. /\ DOMAIN x = DOMAIN NoCommand /\ x.stops = c.stops \union more
      /\ x.todo = c.todo /\ x.ask = c.ask /\ x.starts = c.starts
  BY <1>2, CommandFields DEF Fields
<1> HIDE DEF x
<1>7. Tail(c.todo) # <<>> /\ Head(Tail(c.todo)) = "stop"
  BY <1>1, NextLabels
<1>8. proc'[p].todo = Tail(c.todo) /\ \A f \in ProcFields : proc'[p][f] = x[f]
  BY <1>1, <1>5, <1>6, <1>7, AdvanceGoes
<1>9. proc'[p].ask = c.ask /\ proc'[p].starts = c.starts /\ proc'[p].stops = c.stops \union more
  BY <1>6, <1>8 DEF ProcFields
<1>q. QED
  BY <1>4, <1>7, <1>8, <1>9 DEF Busy

LEMMA StopGoes ==
  ASSUME TypeInv, NEW p \in Processes, StopOne(p)
  PROVE  /\ Busy(p)' /\ proc'[p].ask = proc[p].ask /\ proc'[p].starts = proc[p].starts
         /\ \/ /\ proc[p].stops = {} /\ proc'[p].stops = proc[p].stops
               /\ UNCHANGED units /\ Head(proc'[p].todo) = "start"
            \/ \E d \in proc[p].stops :
                 SetUnit(d, FALSE, FALSE) /\ proc'[p].stops = proc[p].stops \ {d} /\ Head(proc'[p].todo) = "stop"
<1> DEFINE c == proc[p]
<1>1. Busy(p) /\ Head(c.todo) = "stop" /\ c.ask.cmd = "reloadAll"
  BY DEF StopOne, At
<1>2. Fields(c)
  BY <1>1, CommandNow
<1>3. CASE c.stops = {} /\ Advance(p, c) /\ UNCHANGED units
  <2>1. DOMAIN c = DOMAIN NoCommand
    BY <1>2 DEF Fields
  <2>2. Tail(c.todo) # <<>> /\ Head(Tail(c.todo)) = "start"
    BY <1>1, NextLabels
  <2>3. proc'[p].todo = Tail(c.todo) /\ \A f \in ProcFields : proc'[p][f] = c[f]
    BY <1>1, <1>3, <2>1, <2>2, AdvanceGoes
  <2>4. proc'[p].ask = c.ask /\ proc'[p].starts = c.starts /\ proc'[p].stops = c.stops
    BY <2>3 DEF ProcFields
  <2>q. QED
    BY <1>3, <2>2, <2>3, <2>4 DEF Busy
<1>4. ASSUME NEW d \in c.stops, SetUnit(d, FALSE, FALSE), Become(p, [c EXCEPT !.stops = @ \ {d}])
      PROVE  /\ Busy(p)' /\ proc'[p].ask = c.ask /\ proc'[p].starts = c.starts
             /\ proc'[p].stops = c.stops \ {d} /\ Head(proc'[p].todo) = "stop"
  <2> DEFINE x == [c EXCEPT !.stops = @ \ {d}]
  <2>1. proc'[p] = x
    BY <1>4 DEF Become, TypeInv, ProcOK
  <2>2. x.todo = c.todo /\ x.ask = c.ask /\ x.starts = c.starts /\ x.stops = c.stops \ {d}
    BY <1>2, CommandFields DEF Fields
  <2> HIDE DEF x
  <2>q. QED
    BY <1>1, <2>1, <2>2 DEF Busy
<1>q. QED
  BY <1>3, <1>4 DEF StopOne

LEMMA StartGoes ==
  ASSUME TypeInv, NEW p \in Processes, StartOne(p)
  PROVE  \/ proc[p].starts = {} /\ UNCHANGED units /\ proc'[p] = Done("ok")
         \/ \E d \in proc[p].starts :
              /\ SetUnit(d, TRUE, TRUE) /\ proc'[p].starts = proc[p].starts \ {d}
              /\ proc'[p].stops = proc[p].stops /\ proc'[p].ask = proc[p].ask
              /\ Busy(p)' /\ Head(proc'[p].todo) = "start"
<1> DEFINE c == proc[p]
<1>1. Busy(p) /\ Head(c.todo) = "start"
  BY DEF StartOne, At
<1>2. Fields(c)
  BY <1>1, CommandNow
<1>3. CASE c.starts = {} /\ Advance(p, c) /\ UNCHANGED units
  <2>1. DOMAIN c = DOMAIN NoCommand
    BY <1>2 DEF Fields
  <2>2. Tail(c.todo) = <<>>
    BY <1>1, NextLabels
  <2>3. proc'[p] = Done("ok")
    BY <1>1, <1>3, <2>1, <2>2, AdvanceGoes
  <2>q. QED
    BY <1>3, <2>3
<1>4. ASSUME NEW d \in c.starts, SetUnit(d, TRUE, TRUE), Become(p, [c EXCEPT !.starts = @ \ {d}])
      PROVE  /\ Busy(p)' /\ proc'[p].ask = c.ask /\ proc'[p].stops = c.stops
             /\ proc'[p].starts = c.starts \ {d} /\ Head(proc'[p].todo) = "start"
  <2> DEFINE x == [c EXCEPT !.starts = @ \ {d}]
  <2>1. proc'[p] = x
    BY <1>4 DEF Become, TypeInv, ProcOK
  <2>2. x.todo = c.todo /\ x.ask = c.ask /\ x.stops = c.stops /\ x.starts = c.starts \ {d}
    BY <1>2, CommandFields DEF Fields
  <2> HIDE DEF x
  <2>q. QED
    BY <1>1, <2>1, <2>2 DEF Busy
<1>q. QED
  BY <1>3, <1>4 DEF StartOne

LEMMA UnitGoes ==
  ASSUME TypeInv, NEW p \in Processes, Rollout(p) \/ Query(p) \/ Control(p), Busy(p)'
  PROVE  /\ Busy(p) /\ Head(proc'[p].todo) \in {"query", "control"} /\ proc'[p].ask = proc[p].ask
         /\ proc[p].ask.cmd # "reloadAll"
<1> DEFINE c == proc[p]
           x == [c EXCEPT !.wasActive = units[c.unit].active]
<1>1. Busy(p) /\ Head(c.todo) \in {"rollout", "query", "control"}
  BY DEF Rollout, Query, Control, At
<1>2. Fields(c) /\ c.ask.cmd # "reloadAll"
  BY <1>1, CommandNow
<1>3. ~Fail(p)
  <2>1. proc'[p].todo # <<>>
    BY DEF Busy
  <2>q. QED
    BY <2>1, Ends
<1>4. /\ DOMAIN c = DOMAIN NoCommand /\ DOMAIN x = DOMAIN NoCommand
      /\ x.todo = c.todo /\ x.ask = c.ask
  BY <1>2, CommandFields DEF Fields
<1>5. PICK d \in {c, x} : Advance(p, d)
  BY <1>3 DEF Rollout, Query, Control
<1>6. d.todo = c.todo /\ d.ask = c.ask /\ DOMAIN d = DOMAIN NoCommand
  BY <1>4, <1>5
<1>7. proc'[p].todo = Tail(c.todo) /\ (Tail(c.todo) # <<>> => \A f \in ProcFields : proc'[p][f] = d[f])
  BY <1>1, <1>5, <1>6, AdvanceGoes
<1>8. Tail(c.todo) # <<>> /\ proc'[p].ask = d.ask
  BY <1>7 DEF Busy, ProcFields
<1>9. Head(Tail(c.todo)) \in {"query", "control"}
  BY <1>1, <1>8, NextLabels
<1>q. QED
  BY <1>1, <1>2, <1>6, <1>7, <1>8, <1>9

\* A step leaves a command for the service it was for, and each label is come to by one
\* action only.
LEMMA StepGoes ==
  ASSUME TypeInv, NEW p \in Processes, Step(p) \/ Kill(p), Busy(p)'
  PROVE  LET h == Head(proc'[p].todo)
             c == proc[p]
         IN
         /\ Busy(p) /\ proc'[p].ask.name = c.ask.name
         /\ (c.ask.cmd = "reloadAll") = (proc'[p].ask.cmd = "reloadAll")
         /\ c.ask.cmd = "reloadAll" =>
              /\ proc'[p].ask = c.ask
              /\ Scan(p) \/ ListUnits(p) \/ StopOne(p) \/ StartOne(p)
         /\ h = "read" => Load(p)
         /\ h = "truncate" => ReadSetFile(p)
         /\ h = "write" => Truncate(p)
         /\ h = "check" => Write(p)
<1> DEFINE h == Head(proc'[p].todo)
           c == proc[p]
<1>0. proc'[p].todo # <<>>
  BY DEF Busy
<1>1. CASE Load(p)
  <2>1. Busy(p) /\ c.ask.cmd # "reloadAll"
    BY <1>1, CommandNow DEF Load, At
  <2>2. proc'[p].ask = c.ask /\ h \notin {"truncate", "write", "check"}
    BY <1>1, LoadGoes
  <2>q. QED
    BY <1>1, <2>1, <2>2
<1>2. CASE ReadSetFile(p) \/ Truncate(p) \/ Write(p)
  <2>1. Busy(p) /\ c.ask.cmd # "reloadAll"
    <3>1. At(p, "read") \/ At(p, "truncate") \/ At(p, "write")
      BY <1>2 DEF ReadSetFile, Truncate, Write
    <3>2. Busy(p) /\ c.ask.cmd \in {"enable", "disable", "set"}
      BY <3>1, WriterIs
    <3>q. QED
      BY <3>2
  <2>2. proc'[p].ask = c.ask
    BY <1>2, ReadGoes, WriterGoes
  <2>3. /\ ReadSetFile(p) => h = "truncate"
        /\ Truncate(p) => h = "write"
        /\ Write(p) => h \in {"check", "control"}
    BY ReadGoes, WriterGoes
  <2>q. QED
    BY <1>2, <2>1, <2>2, <2>3
<1>3. CASE Check(p) \/ StopFirst(p)
  BY <1>3, CheckGoes
<1>4. CASE Rollout(p) \/ Query(p) \/ Control(p)
  BY <1>4, UnitGoes
<1>5. CASE Fail(p)
  BY <1>0, <1>5, Ends
<1>6. CASE Scan(p)
  <2>1. Busy(p) /\ c.ask.cmd = "reloadAll"
    BY <1>6, CommandNow DEF Scan, At
  <2>2. proc'[p].ask = c.ask /\ h \in {"list", "scan"}
    BY <1>6, ScanGoes
  <2>q. QED
    BY <1>6, <2>1, <2>2
<1>7. CASE ListUnits(p)
  <2>1. Busy(p) /\ c.ask.cmd = "reloadAll"
    BY <1>7, CommandNow DEF ListUnits, At
  <2>2. proc'[p].ask = c.ask /\ h = "stop"
    BY <1>7, ListGoes
  <2>q. QED
    BY <1>7, <2>1, <2>2
<1>8. CASE StopOne(p)
  <2>1. Busy(p) /\ c.ask.cmd = "reloadAll"
    BY <1>8 DEF StopOne, At
  <2>2. proc'[p].ask = c.ask /\ h \in {"stop", "start"}
    BY <1>8, StopGoes
  <2>q. QED
    BY <1>8, <2>1, <2>2
<1>9. CASE StartOne(p)
  <2>1. Busy(p) /\ c.ask.cmd = "reloadAll"
    BY <1>9, CommandNow DEF StartOne, At
  <2>2. proc'[p] # Done("ok")
    BY <1>0, DoneFields
  <2>3. proc'[p].ask = c.ask /\ h = "start"
    BY <1>9, <2>2, StartGoes
  <2>q. QED
    BY <1>9, <2>1, <2>3
<1>q. QED
  BY <1>1, <1>2, <1>3, <1>4, <1>5, <1>6, <1>7, <1>8, <1>9 DEF Step, ControlFails, NotFound, StartFails, Kill

(***************************************************************************)
(* What commands make of the files                                         *)
(*                                                                         *)
(* W is what the files said to begin with, F and G what they say later.    *)
(***************************************************************************)
\* A file that has been read and written: all that it was, but for what is to be set.
Edited(c, d) == c.json # "broken" /\ d.json = "valid" /\ d.inherit = Base(c).inherit

\* Only the files in which services are configured are changed.
Anchor(W, F) ==
  /\ DOMAIN F = DOMAIN W /\ WellFormed(F)
  /\ \A f \in DOMAIN W :
       \/ F[f] = W[f]
       \/ \E d \in Definitions : SetIn(W, d, f) /\ (F[f] = Broken \/ Edited(W[f], F[f]))

LEMMA WorldFiles ==
  ASSUME NEW W \in Worlds, NEW d \in Definitions
  PROVE  /\ DOMAIN W = DOMAIN DirOf /\ WellFormed(W) /\ None \notin DOMAIN W
         /\ d \in FilesOf(W, d) /\ Closed(W, FilesOf(W, d)) /\ FilesOf(W, d) \subseteq DOMAIN W
<1>1. DOMAIN W = DOMAIN DirOf /\ WellFormed(W) /\ None \notin DOMAIN W /\ d \in DOMAIN W
  BY WorldsAssumption, FilesAssumption, DirsAssumption
<1>q. QED
  BY <1>1, FilesOfClosed DEF FilesOf

LEMMA AnchorAlike ==
  ASSUME NEW W \in Worlds, NEW F, Anchor(W, F), NEW S, S \subseteq DOMAIN W
  PROVE  Alike(W, F, S)
<1>1. ASSUME NEW f \in S
      PROVE  SameShape(W[f], F[f]) \/ Filled(W[f], F[f]) \/ F[f].json = "broken"
  <2>1. f \in DOMAIN W /\ W[f].json \in {"missing", "broken", "valid"}
    BY WorldsAssumption DEF WellFormed
  <2>2. CASE F[f] = W[f]
    BY <2>2 DEF SameShape
  <2>3. CASE F[f] = Broken
    BY <2>3 DEF Broken
  <2>4. CASE Edited(W[f], F[f])
    <3>1. CASE W[f].json = "valid"
      BY <2>4, <3>1 DEF Edited, Base, Exists, SameShape
    <3>2. CASE W[f].json = "missing"
      <4>1. NoContent.inherit = <<>>
        BY DEF NoContent
      <4>q. QED
        BY <2>4, <3>2, <4>1 DEF Edited, Base, Exists, Filled
    <3>q. QED
      BY <2>1, <2>4, <3>1, <3>2 DEF Edited
  <2>q. QED
    BY <2>1, <2>2, <2>3, <2>4 DEF Anchor
<1>q. QED
  BY <1>1 DEF Alike, Anchor

LEMMA AnchorClosed ==
  ASSUME NEW W \in Worlds, NEW F, Anchor(W, F), NEW d \in Definitions
  PROVE  Closed(F, FilesOf(W, d)) /\ Alike(W, F, FilesOf(W, d))
<1>1. Closed(W, FilesOf(W, d)) /\ FilesOf(W, d) \subseteq DOMAIN W
  BY WorldFiles
<1>q. QED
  BY <1>1, AnchorAlike, AlikeClosed

\* The file a service is configured in is one of its own.
LEMMA SetFileOwn ==
  ASSUME NEW W \in Worlds, NEW d \in Definitions, NEW f, SetIn(W, d, f)
  PROVE  f \in FilesOf(W, d) /\ f \in DOMAIN W /\ LoadServiceFile(W, Dirs, d).ok
<1>1. LoadServiceFile(W, Dirs, d).ok /\ LoadServiceFile(W, Dirs, d).configSetFile = f
  BY DEF SetIn
<1>2. /\ WellFormed(W) /\ None \notin DOMAIN W /\ d \in FilesOf(W, d) /\ Closed(W, FilesOf(W, d))
      /\ FilesOf(W, d) \subseteq DOMAIN W
  BY WorldFiles
<1>3. LoadServiceFile(W, Dirs, d).configSetFile \in FilesOf(W, d)
  BY <1>1, <1>2, FuelAssumption, ConfigSetFileIn
<1>q. QED
  BY <1>1, <1>2, <1>3

LEMMA OneOwner ==
  ASSUME OwnSetFiles, NEW W \in Worlds, NEW d \in Definitions, NEW e \in Definitions, NEW f,
         f \in FilesOf(W, d) \/ SetIn(W, d, f), SetIn(W, e, f)
  PROVE  e = d
BY SetFileOwn DEF OwnSetFiles

\* Of the files of a service only the one it is configured in is changed.
LEMMA AnchorOthers ==
  ASSUME OwnSetFiles, NEW W \in Worlds, NEW F, Anchor(W, F), NEW d \in Definitions,
         NEW f \in FilesOf(W, d), F[f] # W[f]
  PROVE  SetIn(W, d, f)
<1>1. f \in DOMAIN W
  BY WorldFiles
<1>2. PICK e \in Definitions : SetIn(W, e, f)
  BY <1>1 DEF Anchor
<1>q. QED
  BY <1>2, OneOwner

\* A service is as it was if another one has been written.
LEMMA AnchorSame ==
  ASSUME OwnSetFiles, NEW W \in Worlds, NEW F, NEW G, Anchor(W, F), DOMAIN G = DOMAIN F,
         NEW d \in Definitions, NEW e \in Definitions, e # d, NEW f, SetIn(W, e, f),
         \A g \in DOMAIN F : g # f => G[g] = F[g]
  PROVE  LoadServiceFile(G, Dirs, d) = LoadServiceFile(F, Dirs, d)
<1> DEFINE S == FilesOf(W, d)
<1>1. f \notin S
  BY OneOwner
<1>2. d \in S /\ S \subseteq DOMAIN W /\ None \notin DOMAIN W
  BY WorldFiles
<1>3. DOMAIN F = DOMAIN W /\ WellFormed(F)
  BY DEF Anchor
<1>4. Closed(F, S)
  BY AnchorClosed
<1>5. \A g \in S : G[g] = F[g]
  BY <1>1, <1>2, <1>3
<1> HIDE DEF S
<1>q. QED
  BY <1>2, <1>3, <1>4, <1>5, FuelAssumption, LoadSame

\* Wherever a service is found to be configured is where it was to begin with.
LEMMA AnchorSetFile ==
  ASSUME OwnSetFiles, NEW W \in Worlds, NEW F, Anchor(W, F), NEW d \in Definitions,
         LoadServiceFile(F, Dirs, d).ok
  PROVE  SetIn(W, d, LoadServiceFile(F, Dirs, d).configSetFile)
<1> DEFINE S == FilesOf(W, d)
<1>1. d \in S /\ S \subseteq DOMAIN W /\ None \notin DOMAIN W /\ WellFormed(W) /\ Closed(W, S)
  BY WorldFiles
<1>2. DOMAIN F = DOMAIN W /\ WellFormed(F)
  BY DEF Anchor
<1>3. Closed(F, S) /\ Alike(W, F, S)
  BY AnchorClosed
<1>4. CASE LoadServiceFile(W, Dirs, d).ok
  <2>1. LoadServiceFile(F, Dirs, d).configSetFile = LoadServiceFile(W, Dirs, d).configSetFile
    <3> HIDE DEF S
    <3>q. QED
      BY <1>1, <1>2, <1>3, <1>4, FuelAssumption, AlikeLoads
  <2>q. QED
    BY <1>4, <2>1 DEF SetIn
<1>5. CASE ~LoadServiceFile(W, Dirs, d).ok
  <2>1. \A f \in S : F[f] = W[f]
    BY <1>5, AnchorOthers DEF SetIn
  <2>2. LoadServiceFile(F, Dirs, d) = LoadServiceFile(W, Dirs, d)
    <3> HIDE DEF S
    <3>q. QED
      BY <1>1, <1>2, <2>1, FuelAssumption, LoadSame
  <2>q. QED
    BY <1>5, <2>2
<1>q. QED
  BY <1>4, <1>5

\* What a command writes keeps all that.
LEMMA AnchorWritten ==
  ASSUME NEW W \in Worlds, NEW F, Anchor(W, F), NEW d \in Definitions, NEW f, SetIn(W, d, f),
         NEW c, c = Broken \/ (Edited(W[f], c) /\ Content(c))
  PROVE  Anchor(W, [F EXCEPT ![f] = c])
<1> DEFINE G == [F EXCEPT ![f] = c]
<1>1. DOMAIN G = DOMAIN W /\ DOMAIN F = DOMAIN W /\ DOMAIN W = DOMAIN DirOf /\ WellFormed(F)
  BY WorldsAssumption DEF Anchor
<1>2. \A g \in DOMAIN W : G[g] = IF g = f THEN c ELSE F[g]
  BY <1>1
<1> HIDE DEF G
<1>3. ASSUME NEW g \in DOMAIN W
      PROVE  /\ G[g].json \in {"missing", "broken", "valid"}
             /\ G[g].json = "valid" => DOMAIN G[g] = DOMAIN NoContent /\ G[g].inherit \in Seq(InheritFile(DirOf))
             /\ \/ G[g] = W[g]
                \/ \E e \in Definitions : SetIn(W, e, g) /\ (G[g] = Broken \/ Edited(W[g], G[g]))
  <2>1. CASE g # f
    BY <1>1, <1>2, <2>1 DEF Anchor, WellFormed, InheritFile
  <2>2. CASE g = f /\ c = Broken
    BY <1>2, <2>2 DEF Broken
  <2>3. CASE g = f /\ Edited(W[f], c) /\ Content(c)
    BY <1>2, <2>3 DEF Content
  <2>q. QED
    BY <2>1, <2>2, <2>3
<1>4. WellFormed(G)
  BY <1>1, <1>3 DEF WellFormed, InheritFile
<1>q. QED
  BY <1>1, <1>3, <1>4 DEF Anchor, G

\* And so are the commands at work on them.
Anchored(W) ==
  /\ Anchor(W, files)
  /\ \A p \in Processes :
       /\ At(p, "read") \/ At(p, "truncate") \/ At(p, "write") \/ At(p, "check") =>
            SetIn(W, proc[p].unit, proc[p].setFile)
       /\ At(p, "truncate") \/ At(p, "write") => Edited(W[proc[p].setFile], proc[p].content)

\* A command that begins.
LEMMA BeginGoes ==
  ASSUME TypeInv, NEW p \in Processes, NEW c \in Commands, Begin(p, c)
  PROVE  /\ ~Busy(p) /\ UNCHANGED <<files, units>> /\ Busy(p)' /\ proc'[p].ask = c
         /\ Head(proc'[p].todo) = IF c.cmd = "stop" THEN "control" ELSE IF c.cmd = "reloadAll" THEN "scan" ELSE "load"
         /\ proc'[p].starts = {} /\ proc'[p].stops = {}
         /\ c.cmd = "reloadAll" => proc'[p].left = Entries
<1> DEFINE x == [NoCommand EXCEPT !.ask = c, !.todo = Program[c.cmd],
                                  !.left = IF c.cmd = "reloadAll" THEN Entries ELSE {}]
<1>1. c.cmd \in DOMAIN Program
  BY CommandsAssumption DEF Asked, Program
<1>2. /\ x.ask = c /\ x.todo = Program[c.cmd] /\ x.starts = {} /\ x.stops = {}
      /\ x.left = IF c.cmd = "reloadAll" THEN Entries ELSE {}
  BY CommandFields DEF NoCommand
<1>3. proc'[p] = x
  BY DEF Begin, Become, TypeInv, ProcOK
<1>4. x.todo # <<>>
  BY <1>1, <1>2, TodoBegins DEF Plan
<1> HIDE DEF x
<1>5. Head(x.todo) = IF c.cmd = "stop" THEN "control" ELSE IF c.cmd = "reloadAll" THEN "scan" ELSE "load"
  BY <1>1, <1>2, FirstSteps
<1>6. ~Busy(p) /\ UNCHANGED <<files, units>>
  BY DEF Begin
<1>q. QED
  BY <1>2, <1>3, <1>4, <1>5, <1>6 DEF Busy

\* Who writes what.
LEMMA FilesStep ==
  ASSUME TypeInv, NEW p \in Processes, Step(p) \/ Kill(p)
  PROVE  \/ UNCHANGED files
         \/ Truncate(p) /\ files' = [files EXCEPT ![proc[p].setFile] = Broken]
         \/ Write(p) /\ files' = [files EXCEPT ![proc[p].setFile] = NewContent(proc[p])]
BY WriteFiles DEF Step, Kill, Load, ReadSetFile, Truncate, Check, Rollout, Query, Control, ControlFails,
   NotFound, StopFirst, Scan, ListUnits, StopOne, StartOne, StartFails

LEMMA NewContentEdited ==
  ASSUME TypeInv, NEW W \in Worlds, Anchored(W), NEW p \in Processes, At(p, "write")
  PROVE  /\ Content(proc[p].content) /\ Content(NewContent(proc[p]))
         /\ Edited(W[proc[p].setFile], NewContent(proc[p]))
<1>1. Content(proc[p].content)
  BY CommandNow DEF At, Running
<1>2. Content(NewContent(proc[p])) /\ NewContent(proc[p]).inherit = proc[p].content.inherit
  BY <1>1, NewContentIs
<1>3. Edited(W[proc[p].setFile], proc[p].content)
  BY DEF Anchored
<1>q. QED
  BY <1>1, <1>2, <1>3 DEF Edited, Content

LEMMA AnchorStep ==
  ASSUME OwnSetFiles, TypeInv, NEW W \in Worlds, Anchored(W), NEW p \in Processes, Step(p) \/ Kill(p)
  PROVE  Anchor(W, files')
<1> DEFINE f == proc[p].setFile
           d == proc[p].unit
<1>1. CASE UNCHANGED files
  BY <1>1 DEF Anchored, Anchor, WellFormed, InheritFile
<1>2. CASE Truncate(p) /\ files' = [files EXCEPT ![f] = Broken]
  <2>1. At(p, "truncate") /\ d \in Definitions
    BY <1>2, WriterIs DEF Truncate
  <2>2. SetIn(W, d, f) /\ Anchor(W, files)
    BY <2>1 DEF Anchored
  <2>q. QED
    BY <1>2, <2>1, <2>2, AnchorWritten
<1>3. CASE Write(p) /\ files' = [files EXCEPT ![f] = NewContent(proc[p])]
  <2>1. At(p, "write") /\ d \in Definitions
    BY <1>3, WriterIs DEF Write
  <2>2. SetIn(W, d, f) /\ Anchor(W, files)
    BY <2>1 DEF Anchored
  <2>3. Edited(W[f], NewContent(proc[p])) /\ Content(NewContent(proc[p]))
    BY <2>1, NewContentEdited
  <2>q. QED
    BY <1>3, <2>1, <2>2, <2>3, AnchorWritten
<1>q. QED
  BY <1>1, <1>2, <1>3, FilesStep

\* What is read of a file can be written to it.
LEMMA ReadEdited ==
  ASSUME NEW W \in Worlds, NEW F, Anchor(W, F), NEW f \in DOMAIN W, F[f].json # "broken"
  PROVE  Edited(W[f], Base(F[f]))
<1>1. W[f].json \in {"missing", "broken", "valid"} /\ NoContent.json = "valid"
  BY WorldsAssumption DEF WellFormed, NoContent
<1>2. CASE F[f] = W[f]
  BY <1>1, <1>2 DEF Edited, Base, Exists
<1>3. CASE Edited(W[f], F[f])
  BY <1>3 DEF Edited, Base, Exists
<1>q. QED
  BY <1>2, <1>3 DEF Anchor, Broken

LEMMA AnchoredStep ==
  ASSUME OwnSetFiles, TypeInv, NEW W \in Worlds, Anchored(W), NEW p \in Processes, Step(p) \/ Kill(p)
  PROVE  Anchored(W)'
<1>1. Anchor(W, files')
  BY AnchorStep
<1>2. \A q \in Processes : q # p => proc'[q] = proc[q]
  BY StepType
<1> DEFINE Good(q) ==
             /\ At(q, "read") \/ At(q, "truncate") \/ At(q, "write") \/ At(q, "check") =>
                  SetIn(W, proc[q].unit, proc[q].setFile)
             /\ At(q, "truncate") \/ At(q, "write") => Edited(W[proc[q].setFile], proc[q].content)
<1>3. ASSUME NEW q \in Processes, q # p PROVE Good(q)'
  BY <1>2, <1>3 DEF Anchored, At, Busy
<1>4. Good(p)'
  <2> DEFINE h == Head(proc'[p].todo)
  <2>1. CASE ~Busy(p)'
    BY <2>1 DEF At
  <2>2. CASE Busy(p)' /\ h = "read"
    <3>1. Load(p)
      BY <2>2, StepGoes
    <3> DEFINE s == Loaded(proc[p].ask.name)
               d == ServiceFileByName(Dirs, proc[p].ask.name)
    <3>2. s.ok /\ proc'[p].unit = s.fileName /\ proc'[p].setFile = s.configSetFile
      BY <2>2, <3>1, LoadGoes
    <3>3. d \in Definitions /\ s = LoadServiceFile(files, Dirs, d) /\ s.fileName = d
      BY <3>2, LoadedIs DEF TypeInv, OfFile
    <3>4. Anchor(W, files)
      BY DEF Anchored
    <3> HIDE DEF s, d
    <3>5. SetIn(W, d, s.configSetFile)
      BY <3>2, <3>3, <3>4, AnchorSetFile
    <3>q. QED
      BY <2>2, <3>2, <3>3, <3>5 DEF At
  <2>3. CASE Busy(p)' /\ h = "truncate"
    <3> DEFINE f == proc[p].setFile
    <3>1. ReadSetFile(p)
      BY <2>3, StepGoes
    <3>2. /\ files[f].json # "broken" /\ proc'[p].unit = proc[p].unit /\ proc'[p].setFile = f
          /\ proc'[p].content = Base(files[f])
      BY <2>3, <3>1, ReadGoes
    <3>3. At(p, "read")
      BY <3>1 DEF ReadSetFile
    <3>4. SetIn(W, proc[p].unit, f) /\ Anchor(W, files)
      BY <3>3 DEF Anchored
    <3>5. f \in DOMAIN W
      BY <3>3, <3>4, WriterIs DEF Anchor
    <3>6. Edited(W[f], Base(files[f]))
      BY <3>2, <3>4, <3>5, ReadEdited
    <3>q. QED
      BY <2>3, <3>2, <3>4, <3>6 DEF At
  <2>4. CASE Busy(p)' /\ h = "write"
    <3>1. Truncate(p)
      BY <2>4, StepGoes
    <3>2. /\ proc'[p].unit = proc[p].unit /\ proc'[p].setFile = proc[p].setFile
          /\ proc'[p].content = proc[p].content
      BY <3>1, WriterGoes
    <3>3. SetIn(W, proc[p].unit, proc[p].setFile) /\ Edited(W[proc[p].setFile], proc[p].content)
      BY <3>1 DEF Anchored, Truncate
    <3>q. QED
      BY <2>4, <3>2, <3>3 DEF At
  <2>5. CASE Busy(p)' /\ h = "check"
    <3>1. Write(p)
      BY <2>5, StepGoes
    <3>2. proc'[p].unit = proc[p].unit /\ proc'[p].setFile = proc[p].setFile
      BY <3>1, WriterGoes
    <3>3. SetIn(W, proc[p].unit, proc[p].setFile)
      BY <3>1 DEF Anchored, Write
    <3>q. QED
      BY <2>5, <3>2, <3>3 DEF At
  <2>6. CASE h \notin {"read", "truncate", "write", "check"}
    BY <2>6 DEF At
  <2>q. QED
    BY <2>1, <2>2, <2>3, <2>4, <2>5, <2>6
<1>5. \A q \in Processes : Good(q)'
  BY <1>3, <1>4
<1>q. QED
  BY <1>1, <1>5 DEF Anchored, Anchor, WellFormed, InheritFile, SetIn, Definitions, Entries, Edited, Base,
     LoadServiceFile

LEMMA AnchoredBegin ==
  ASSUME TypeInv, NEW W \in Worlds, Anchored(W), NEW p \in Processes, NEW c \in Commands, Begin(p, c)
  PROVE  Anchored(W)'
<1>1. \A q \in Processes : q # p => proc'[q] = proc[q]
  BY BeginType
<1>2. UNCHANGED files /\ Head(proc'[p].todo) \in {"load", "control", "scan"}
  BY BeginGoes
<1> DEFINE Good(q) ==
             /\ At(q, "read") \/ At(q, "truncate") \/ At(q, "write") \/ At(q, "check") =>
                  SetIn(W, proc[q].unit, proc[q].setFile)
             /\ At(q, "truncate") \/ At(q, "write") => Edited(W[proc[q].setFile], proc[q].content)
<1>3. ASSUME NEW q \in Processes, q # p PROVE Good(q)'
  BY <1>1, <1>3 DEF Anchored, At, Busy
<1>4. Good(p)'
  BY <1>2 DEF At
<1>5. \A q \in Processes : Good(q)'
  BY <1>3, <1>4
<1>6. Anchor(W, files')
  BY <1>2 DEF Anchored, Anchor, WellFormed, InheritFile
<1>q. QED
  BY <1>5, <1>6 DEF Anchored, Anchor, WellFormed, InheritFile, SetIn, Definitions, Entries, Edited, Base,
     LoadServiceFile

(***************************************************************************)
(* Which services are being worked on                                      *)
(***************************************************************************)
For(p, d) == Busy(p) /\ Target(proc[p].ask) = d
TouchedOK ==
  \A d \in Definitions :
    /\ touched[d] = 0 => \A p \in Processes : ~For(p, d)
    /\ touched[d] <= 1 => \A p, q \in Processes : For(p, d) /\ For(q, d) => p = q

LEMMA TouchedKept ==
  ASSUME TypeInv, NEW p \in Processes, Step(p) \/ Kill(p)
  PROVE  UNCHANGED touched
BY DEF Step, Kill, Load, ReadSetFile, Truncate, Write, Check, Rollout, Query, Control, ControlFails,
   NotFound, StopFirst, Scan, ListUnits, StopOne, StartOne, StartFails, Quietly

LEMMA ForStep ==
  ASSUME TypeInv, NEW p \in Processes, Step(p) \/ Kill(p), NEW q \in Processes, NEW d, For(q, d)'
  PROVE  For(q, d)
<1>1. CASE q # p
  <2>1. proc'[q] = proc[q]
    BY <1>1, StepType
  <2>q. QED
    BY <2>1 DEF For, Busy, Target
<1>2. CASE q = p
  <2>1. Busy(p)' /\ Target(proc'[p].ask) = d
    BY <1>2 DEF For, Target
  <2>2. Busy(p) /\ proc'[p].ask.name = proc[p].ask.name
    BY <2>1, StepGoes
  <2>q. QED
    BY <1>2, <2>1, <2>2 DEF For, Target
<1>q. QED
  BY <1>1, <1>2

\* What "touched" says while commands overlap, and when one begins alone.
LEMMA BeginTouched ==
  ASSUME TypeInv, NEW p \in Processes, NEW c \in Commands, Begin(p, c), NEW d \in Definitions
  PROVE  /\ (\E q \in Processes : Busy(q)) =>
              touched'[d] = IF Target(c) = d THEN touched[d] + 1 ELSE touched[d]
         /\ (\A q \in Processes : ~Busy(q)) => touched'[d] = IF Target(c) = d THEN 1 ELSE 0
         /\ touched[d] \in Nat
<1> DEFINE others == \E q \in Processes : Busy(q)
           before == IF others THEN touched ELSE [e \in Definitions |-> 0]
<1>1. touched' = IF Target(c) = None THEN before ELSE [before EXCEPT ![Target(c)] = @ + 1]
  BY DEF Begin
<1>2. touched \in [Definitions -> Nat]
  BY DEF TypeInv, CountsOK
<1>3. None # d
  BY NoneIsNone
<1>q. QED
  BY <1>1, <1>2, <1>3

LEMMA TouchedStep ==
  ASSUME TypeInv, TouchedOK, NEW p \in Processes, Step(p) \/ Kill(p)
  PROVE  TouchedOK'
<1>1. touched' = touched
  BY TouchedKept
<1>2. \A q \in Processes : \A d \in Definitions : For(q, d)' => For(q, d)
  BY ForStep
<1>q. QED
  BY <1>1, <1>2 DEF TouchedOK, Definitions, Entries

LEMMA TouchedBegin ==
  ASSUME TypeInv, TouchedOK, NEW p \in Processes, NEW c \in Commands, Begin(p, c)
  PROVE  TouchedOK'
<1>1. ASSUME NEW q \in Processes, NEW d \in Definitions, q # p
      PROVE  For(q, d)' => For(q, d)
  <2>1. proc'[q] = proc[q]
    BY <1>1, BeginType
  <2>q. QED
    BY <2>1 DEF For, Busy, Target
<1>2. ASSUME NEW d \in Definitions, For(p, d)' PROVE Target(c) = d
  <2>1. proc'[p].ask = c
    BY BeginGoes
  <2>q. QED
    BY <1>2, <2>1 DEF For, Target
<1>3. ASSUME NEW d \in Definitions
      PROVE  /\ touched'[d] = 0 => \A q \in Processes : ~For(q, d)'
             /\ touched'[d] <= 1 => \A q, r \in Processes : For(q, d)' /\ For(r, d)' => q = r
  <2>1. CASE \E q \in Processes : Busy(q)
    <3>1. touched'[d] = (IF Target(c) = d THEN touched[d] + 1 ELSE touched[d]) /\ touched[d] \in Nat
      BY <2>1, BeginTouched
    <3>2. CASE Target(c) = d
      <4>1. touched'[d] # 0 /\ (touched'[d] <= 1 => touched[d] = 0)
        BY <3>1, <3>2
      <4>q. QED
        BY <4>1, <1>1 DEF TouchedOK
    <3>3. CASE Target(c) # d
      <4>1. touched'[d] = touched[d]
        BY <3>1, <3>3
      <4>q. QED
        BY <4>1, <1>1, <1>2, <3>3 DEF TouchedOK
    <3>q. QED
      BY <3>2, <3>3
  <2>2. CASE \A q \in Processes : ~Busy(q)
    <3>1. touched'[d] = IF Target(c) = d THEN 1 ELSE 0
      BY <2>2, BeginTouched
    <3>2. \A q \in Processes : q # p => ~For(q, d)'
      BY <1>1, <2>2 DEF For
    <3>q. QED
      BY <1>2, <3>1, <3>2
  <2>q. QED
    BY <2>1, <2>2
<1>q. QED
  BY <1>3 DEF TouchedOK, Definitions, Entries

(***************************************************************************)
(* conductor reload                                                        *)
(***************************************************************************)
\* Of a command c that reloads and a service d: u is its unit, s what its file says.  What
\* is on the lists is as the file says, and what is on none any more is as it should be.
Runs(s) == s.ok /\ ShouldStart(s)
Stopped(c, u, s) == IF s.ok THEN u = [enabled |-> FALSE, active |-> FALSE] ELSE c.ask.inclusive \/ ~u.active
Reloading(c, u, s, d) ==
  LET h == Head(c.todo)
      listed == d \in c.starts \/ d \in c.stops
  IN
  /\ d \in c.starts => Runs(s)
  /\ d \in c.stops => ~Runs(s)
  /\ h = "scan" /\ s.ok /\ (\A e \in c.left : Dirs[e[1]][e[2]] # d) => listed
  /\ h = "list" /\ s.ok => listed
  /\ h = "stop" => /\ Runs(s) => d \in c.starts
                   /\ d \notin c.stops /\ ~Runs(s) => Stopped(c, u, s)
  /\ h = "start" => /\ d \notin c.starts /\ Runs(s) => u = [enabled |-> TRUE, active |-> TRUE]
                    /\ ~Runs(s) => Stopped(c, u, s)
ReloadOK ==
  \A p \in Processes : Busy(p) /\ proc[p].ask.cmd = "reloadAll" =>
    \A d \in Definitions : touched[d] = 0 => Reloading(proc[p], units[d], OfFile(d), d)

\* A service that no command is for is loaded as before.
LEMMA LoadKept ==
  ASSUME OwnSetFiles, TypeInv, TouchedOK, NEW W \in Worlds, Anchored(W),
         NEW p \in Processes, Step(p) \/ Kill(p), NEW d \in Definitions, ~For(p, d)
  PROVE  LoadServiceFile(files', Dirs, d) = OfFile(d)
<1>1. CASE UNCHANGED files
  BY <1>1 DEF OfFile
<1>2. ASSUME NEW c, files' = [files EXCEPT ![proc[p].setFile] = c], At(p, "truncate") \/ At(p, "write")
      PROVE  LoadServiceFile(files', Dirs, d) = OfFile(d)
  <2> DEFINE e == proc[p].unit
             f == proc[p].setFile
  <2>1. e \in Definitions /\ e = Target(proc[p].ask) /\ Busy(p)
    BY <1>2, WriterIs
  <2>2. e # d
    BY <2>1 DEF For
  <2>3. SetIn(W, e, f) /\ Anchor(W, files)
    BY <1>2 DEF Anchored
  <2>4. DOMAIN files' = DOMAIN files /\ \A g \in DOMAIN files : g # f => files'[g] = files[g]
    BY <1>2
  <2> HIDE DEF e, f
  <2>q. QED
    BY <2>1, <2>2, <2>3, <2>4, AnchorSame DEF OfFile
<1>q. QED
  BY <1>1, <1>2, FilesStep DEF Truncate, Write

LEMMA SetUnitIs ==
  ASSUME TypeInv, NEW e, NEW d \in Definitions, NEW enabled, NEW active, SetUnit(e, enabled, active)
  PROVE  units'[d] = IF e = d THEN [enabled |-> enabled, active |-> active] ELSE units[d]
BY DEF SetUnit, TypeInv, UnitsOK

LEMMA SetUnitSame ==
  ASSUME TypeInv, NEW d \in Definitions, NEW enabled, NEW active, SetUnit(d, enabled, active)
  PROVE  units'[d] = [enabled |-> enabled, active |-> active]
BY SetUnitIs

LEMMA SetUnitElse ==
  ASSUME TypeInv, NEW e, NEW d \in Definitions, NEW enabled, NEW active, SetUnit(e, enabled, active), e # d
  PROVE  units'[d] = units[d]
BY SetUnitIs

\* And its unit changes only to what a reload has found that it should be, or fails to start.
LEMMA UnitChanges ==
  ASSUME TypeInv, TouchedOK, ReloadOK, NEW p \in Processes, Step(p) \/ Kill(p),
         NEW d \in Definitions, touched[d] = 0
  PROVE  \/ units'[d] = units[d]
         \/ ~Runs(OfFile(d)) /\ units'[d] = [enabled |-> FALSE, active |-> FALSE]
         \/ Runs(OfFile(d)) /\ units'[d] = [enabled |-> TRUE, active |-> TRUE]
         \/ Runs(OfFile(d)) /\ units[d].active # TRUE
<1>1. ~For(p, d)
  BY DEF TouchedOK
<1>2. CASE UNCHANGED units
  BY <1>2
<1>3. CASE \E enabled, active : At(p, "control") /\ SetUnit(UnitOf(p), enabled, active)
  <2>1. UnitOf(p) # d
    BY <1>1, <1>3, UnitIs DEF For, At
  <2>2. PICK enabled, active : SetUnit(UnitOf(p), enabled, active)
    BY <1>3
  <2>q. QED
    BY <2>1, <2>2, SetUnitElse
<1>4. CASE StopFirst(p)
  <2>1. proc[p].unit # d
    BY <1>1, <1>4, StopFirstUnits DEF For, StopFirst, At
  <2>2. PICK enabled, active : SetUnit(proc[p].unit, enabled, active)
    BY <1>4 DEF StopFirst
  <2>q. QED
    BY <2>1, <2>2, SetUnitElse
<1>5. ASSUME StopOne(p), NEW e \in proc[p].stops, SetUnit(e, FALSE, FALSE), e = d
      PROVE  ~Runs(OfFile(d)) /\ units'[d] = [enabled |-> FALSE, active |-> FALSE]
  <2>1. Busy(p) /\ proc[p].ask.cmd = "reloadAll"
    BY <1>5 DEF StopOne, At
  <2>2. Reloading(proc[p], units[d], OfFile(d), d)
    BY <2>1 DEF ReloadOK
  <2>3. ~Runs(OfFile(d))
    BY <1>5, <2>2 DEF Reloading
  <2>q. QED
    BY <1>5, <2>3, SetUnitIs
<1>6. CASE StartOne(p) \/ StartFails(p)
  <2>1. Busy(p) /\ proc[p].ask.cmd = "reloadAll"
    BY <1>6, CommandNow DEF StartOne, StartFails, At
  <2>2. Reloading(proc[p], units[d], OfFile(d), d)
    BY <2>1 DEF ReloadOK
  <2>3. d \in proc[p].starts => Runs(OfFile(d))
    BY <2>2 DEF Reloading
  <2>4. CASE \E e \in proc[p].starts : SetUnit(e, TRUE, TRUE)
    <3>1. PICK e \in proc[p].starts : SetUnit(e, TRUE, TRUE)
      BY <2>4
    <3>2. CASE e = d
      BY <2>3, <3>1, <3>2, SetUnitIs
    <3>3. CASE e # d
      BY <3>1, <3>3, SetUnitElse
    <3>q. QED
      BY <3>2, <3>3
  <2>5. CASE \E e \in proc[p].starts : ~units[e].active /\ SetUnit(e, TRUE, FALSE)
    <3>1. PICK e \in proc[p].starts : ~units[e].active /\ SetUnit(e, TRUE, FALSE)
      BY <2>5
    <3>2. CASE e = d
      BY <2>3, <3>1, <3>2
    <3>3. CASE e # d
      BY <3>1, <3>3, SetUnitElse
    <3>q. QED
      BY <3>2, <3>3
  <2>q. QED
    BY <1>2, <1>6, <2>4, <2>5 DEF StartOne, StartFails
<1>7. CASE StopOne(p)
  <2>1. CASE \E e \in proc[p].stops : SetUnit(e, FALSE, FALSE)
    <3>1. PICK e \in proc[p].stops : SetUnit(e, FALSE, FALSE)
      BY <2>1
    <3>2. CASE e = d
      BY <1>5, <1>7, <3>1, <3>2
    <3>3. CASE e # d
      BY <3>1, <3>3, SetUnitElse
    <3>q. QED
      BY <3>2, <3>3
  <2>q. QED
    BY <1>2, <1>7, <2>1 DEF StopOne
<1>8. CASE Control(p) \/ ControlFails(p)
  <2>1. ASSUME NEW enabled, NEW active, SetUnit(UnitOf(p), enabled, active)
        PROVE  \E x, y : SetUnit(UnitOf(p), x, y)
    BY <2>1
  <2>2. Systemctl(p) => \E enabled, active : SetUnit(UnitOf(p), enabled, active)
    <3> DEFINE c == proc[p].ask
               u == units[UnitOf(p)]
    <3>1. Systemctl(p) => \/ SetUnit(UnitOf(p), TRUE, u.active \/ c.now)
                          \/ SetUnit(UnitOf(p), FALSE, u.active /\ ~c.now)
                          \/ SetUnit(UnitOf(p), u.enabled, FALSE)
                          \/ SetUnit(UnitOf(p), u.enabled, TRUE)
      BY Zenon DEF Systemctl
    <3>q. QED
      BY <2>1, <3>1
  <2>3. At(p, "control") /\ (UNCHANGED units \/ \E enabled, active : SetUnit(UnitOf(p), enabled, active))
    BY <1>8, <2>1, <2>2 DEF Control, ControlFails
  <2>q. QED
    BY <1>2, <1>3, <2>3
<1>q. QED
  BY <1>2, <1>4, <1>6, <1>7, <1>8 DEF Step, Kill, Load, ReadSetFile, Truncate, Write, Check, Rollout,
     Query, NotFound, Scan, ListUnits

\* A reload that does nothing itself.
LEMMA ReloadingKept ==
  ASSUME NEW c, NEW u, NEW v, NEW s, NEW d, Reloading(c, u, s, d),
         \/ v = u
         \/ ~Runs(s) /\ v = [enabled |-> FALSE, active |-> FALSE]
         \/ Runs(s) /\ v = [enabled |-> TRUE, active |-> TRUE]
         \/ Runs(s) /\ u.active # TRUE
  PROVE  Reloading(c, v, s, d)
<1> DEFINE Unlisted(w) == Head(c.todo) = "stop" /\ d \notin c.stops /\ ~Runs(s) => Stopped(c, w, s)
           Over(w) == Head(c.todo) = "start" =>
                        /\ d \notin c.starts /\ Runs(s) => w = [enabled |-> TRUE, active |-> TRUE]
                        /\ ~Runs(s) => Stopped(c, w, s)
<1>0. v = [enabled |-> FALSE, active |-> FALSE] => Stopped(c, v, s)
  BY DEF Stopped
<1>a. [enabled |-> TRUE, active |-> TRUE].active = TRUE
  OBVIOUS
<1>1. Unlisted(v)
  <2>1. Unlisted(u)
    BY DEF Reloading
  <2>q. QED
    BY <1>0, <2>1
<1>2. Over(v)
  <2>1. Over(u)
    BY DEF Reloading
  <2>q. QED
    BY <1>0, <1>a, <2>1
<1>q. QED
  BY <1>1, <1>2 DEF Reloading

\* Its own steps.
LEMMA ReloadingScan ==
  ASSUME TypeInv, NEW p \in Processes, Scan(p), NEW d \in Definitions, NEW u, NEW v,
         Reloading(proc[p], u, OfFile(d), d)
  PROVE  Reloading(proc'[p], v, OfFile(d), d)
<1> DEFINE c == proc[p]
           x == proc'[p]
           s == OfFile(d)
<1>0. Head(c.todo) = "scan" /\ d # None
  BY NoneIsNone DEF Scan, At
<1>1. CASE c.left = {}
  <2>1. Head(x.todo) = "list" /\ x.starts = c.starts /\ x.stops = c.stops
    BY <1>1, ScanGoes
  <2>q. QED
    BY <1>0, <1>1, <2>1 DEF Reloading
<1>2. CASE c.left # {}
  <2>1. PICK e \in c.left :
          LET f == Dirs[e[1]][e[2]] IN
          /\ x.left = c.left \ {e}
          /\ \/ /\ f = None \/ ~OfFile(f).ok
                /\ x.starts = c.starts /\ x.stops = c.stops
             \/ /\ f # None /\ OfFile(f).ok /\ ShouldStart(OfFile(f))
                /\ x.starts = c.starts \union {f} /\ x.stops = c.stops
             \/ /\ f # None /\ OfFile(f).ok /\ ~ShouldStart(OfFile(f))
                /\ x.stops = c.stops \union {f} /\ x.starts = c.starts
    BY <1>2, ScanGoes
  <2>2. Head(x.todo) = "scan"
    BY <1>2, ScanGoes
  <2> DEFINE f == Dirs[e[1]][e[2]]
  <2>3. CASE f = d
    <3>1. (d \in x.starts => d \in c.starts \/ Runs(s)) /\ (d \in x.stops => d \in c.stops \/ ~Runs(s))
      BY <2>1, <2>3 DEF Runs
    <3>2. s.ok => d \in x.starts \/ d \in x.stops
      BY <1>0, <2>1, <2>3
    <3>q. QED
      BY <2>2, <3>1, <3>2 DEF Reloading
  <2>4. CASE f # d
    <3>1. (d \in x.starts <=> d \in c.starts) /\ (d \in x.stops <=> d \in c.stops)
      BY <2>1, <2>4
    <3>2. (\A g \in x.left : Dirs[g[1]][g[2]] # d) => \A g \in c.left : Dirs[g[1]][g[2]] # d
      BY <2>1, <2>4
    <3>q. QED
      BY <1>0, <2>2, <3>1, <3>2 DEF Reloading
  <2>q. QED
    BY <2>3, <2>4
<1>q. QED
  BY <1>1, <1>2

LEMMA ReloadingList ==
  ASSUME TypeInv, NEW p \in Processes, ListUnits(p), NEW d \in Definitions,
         Reloading(proc[p], units[d], OfFile(d), d)
  PROVE  Reloading(proc'[p], units[d], OfFile(d), d)
<1> DEFINE c == proc[p]
           x == proc'[p]
           s == OfFile(d)
           other == Definitions \ (c.starts \union c.stops)
<1>0. Head(c.todo) = "list"
  BY DEF ListUnits, At
<1>1. /\ x.ask = c.ask /\ Head(x.todo) = "stop" /\ x.starts = c.starts
      /\ \E more \in SUBSET other : x.stops = c.stops \union more
      /\ ~c.ask.inclusive => \A e \in other : units[e].active => e \in x.stops
  BY ListGoes
<1>2. d \in c.stops => d \in x.stops
  BY <1>1
<1>3. d \in x.stops => d \in c.stops \/ d \in other
  BY <1>1
<1>4. d \in other => ~s.ok
  BY <1>0 DEF Reloading
<1>5. d \in x.stops => ~Runs(s)
  BY <1>3, <1>4 DEF Reloading, Runs
<1>6. Runs(s) => d \in c.starts
  BY <1>0 DEF Reloading, Runs
<1>7. ASSUME d \notin x.stops, ~Runs(s) PROVE Stopped(c, units[d], s)
  <2>1. d \notin c.starts
    BY <1>7 DEF Reloading
  <2>2. d \in other
    BY <1>2, <1>7, <2>1
  <2>3. c.ask.inclusive \/ ~units[d].active
    BY <1>1, <1>7, <2>2
  <2>q. QED
    BY <1>4, <2>2, <2>3 DEF Stopped
<1>8. Stopped(c, units[d], s) => Stopped(x, units[d], s)
  BY <1>1 DEF Stopped
<1>q. QED
  BY <1>1, <1>5, <1>6, <1>7, <1>8 DEF Reloading

LEMMA ReloadingStop ==
  ASSUME TypeInv, NEW p \in Processes, StopOne(p), NEW d \in Definitions,
         Reloading(proc[p], units[d], OfFile(d), d)
  PROVE  Reloading(proc'[p], units'[d], OfFile(d), d)
<1> DEFINE c == proc[p]
           x == proc'[p]
           s == OfFile(d)
<1>0. Head(c.todo) = "stop"
  BY DEF StopOne, At
<1>1. x.ask = c.ask /\ x.starts = c.starts
  BY StopGoes
<1>2. \A u : Stopped(c, u, s) => Stopped(x, u, s)
  BY <1>1 DEF Stopped
<1>3. CASE c.stops = {} /\ x.stops = c.stops /\ UNCHANGED units /\ Head(x.todo) = "start"
  <2>1. Runs(s) => d \in x.starts
    BY <1>0, <1>1 DEF Reloading
  <2>2. ~Runs(s) => Stopped(x, units'[d], s)
    BY <1>0, <1>2, <1>3 DEF Reloading
  <2>3. d \in x.starts => Runs(s)
    BY <1>1 DEF Reloading
  <2>4. d \in x.stops => ~Runs(s)
    BY <1>3 DEF Reloading
  <2>q. QED
    BY <1>3, <2>1, <2>2, <2>3, <2>4 DEF Reloading
<1>4. ASSUME NEW e \in c.stops, SetUnit(e, FALSE, FALSE), x.stops = c.stops \ {e}, Head(x.todo) = "stop"
      PROVE  Reloading(x, units'[d], s, d)
  <2>1. (d \in x.starts => Runs(s)) /\ (d \in x.stops => ~Runs(s)) /\ (Runs(s) => d \in x.starts)
    BY <1>0, <1>1, <1>4 DEF Reloading
  <2>2. ASSUME d \notin x.stops, ~Runs(s) PROVE Stopped(x, units'[d], s)
    <3>1. CASE e = d
      <4>1. SetUnit(d, FALSE, FALSE)
        BY <1>4, <3>1
      <4>2. units'[d] = [enabled |-> FALSE, active |-> FALSE]
        BY <4>1, SetUnitSame
      <4>q. QED
        BY <4>2 DEF Stopped
    <3>2. CASE e # d
      <4>1. units'[d] = units[d]
        BY <1>4, <3>2, SetUnitElse
      <4>2. Stopped(c, units[d], s)
        BY <1>0, <1>4, <2>2, <3>2 DEF Reloading
      <4>q. QED
        BY <1>2, <4>1, <4>2
    <3>q. QED
      BY <3>1, <3>2
  <2>q. QED
    BY <1>4, <2>1, <2>2 DEF Reloading
<1>q. QED
  BY <1>3, <1>4, StopGoes

LEMMA ReloadingStart ==
  ASSUME TypeInv, NEW p \in Processes, StartOne(p), Busy(p)', NEW d \in Definitions,
         Reloading(proc[p], units[d], OfFile(d), d)
  PROVE  Reloading(proc'[p], units'[d], OfFile(d), d)
<1> DEFINE c == proc[p]
           x == proc'[p]
           s == OfFile(d)
<1>0. Head(c.todo) = "start" /\ x # Done("ok")
  BY DoneFields DEF StartOne, At, Busy
<1>1. PICK e \in c.starts : /\ SetUnit(e, TRUE, TRUE) /\ x.starts = c.starts \ {e}
                            /\ x.stops = c.stops /\ x.ask = c.ask /\ Head(x.todo) = "start"
  BY <1>0, StartGoes
<1>2. \A u : Stopped(c, u, s) => Stopped(x, u, s)
  BY <1>1 DEF Stopped
<1>3. (d \in x.starts => Runs(s)) /\ (d \in x.stops => ~Runs(s))
  BY <1>1 DEF Reloading
<1>4. CASE e = d
  <2>1. SetUnit(d, TRUE, TRUE) /\ Runs(s)
    BY <1>1, <1>4 DEF Reloading
  <2>2. units'[d] = [enabled |-> TRUE, active |-> TRUE]
    BY <2>1, SetUnitSame
  <2>q. QED
    BY <1>1, <1>3, <2>1, <2>2 DEF Reloading
<1>5. CASE e # d
  <2>1. units'[d] = units[d]
    BY <1>1, <1>5, SetUnitElse
  <2>2. d \notin x.starts /\ Runs(s) => units'[d] = [enabled |-> TRUE, active |-> TRUE]
    BY <1>0, <1>1, <1>5, <2>1 DEF Reloading
  <2>3. ~Runs(s) => Stopped(x, units'[d], s)
    BY <1>0, <1>2, <2>1 DEF Reloading
  <2>q. QED
    BY <1>1, <1>3, <2>2, <2>3 DEF Reloading
<1>q. QED
  BY <1>4, <1>5

LEMMA ReloadStep ==
  ASSUME OwnSetFiles, TypeInv, TouchedOK, ReloadOK, NEW W \in Worlds, Anchored(W),
         NEW p \in Processes, Step(p) \/ Kill(p)
  PROVE  ReloadOK'
<1>1. ASSUME NEW q \in Processes, Busy(q)', proc'[q].ask.cmd = "reloadAll", NEW d \in Definitions, touched'[d] = 0
      PROVE  Reloading(proc'[q], units'[d], LoadServiceFile(files', Dirs, d), d)
  <2> DEFINE s == OfFile(d)
  <2>1. touched[d] = 0
    BY <1>1, TouchedKept
  <2>2. ~For(p, d)
    BY <2>1 DEF TouchedOK
  <2>3. LoadServiceFile(files', Dirs, d) = s
    BY <2>2, LoadKept
  <2>4. Busy(q) /\ proc[q].ask.cmd = "reloadAll"
    <3>1. CASE q = p
      BY <1>1, <3>1, StepGoes
    <3>2. CASE q # p
      BY <1>1, <3>2, StepType DEF Busy
    <3>q. QED
      BY <3>1, <3>2
  <2>5. Reloading(proc[q], units[d], s, d)
    BY <2>1, <2>4 DEF ReloadOK
  <2>6. CASE q # p
    <3>1. proc'[q] = proc[q]
      BY <2>6, StepType
    <3>2. \/ units'[d] = units[d]
          \/ ~Runs(s) /\ units'[d] = [enabled |-> FALSE, active |-> FALSE]
          \/ Runs(s) /\ units'[d] = [enabled |-> TRUE, active |-> TRUE]
          \/ Runs(s) /\ units[d].active # TRUE
      BY <2>1, UnitChanges
    <3>q. QED
      BY <2>3, <2>5, <3>1, <3>2, ReloadingKept
  <2>7. CASE q = p
    <3>1. Scan(p) \/ ListUnits(p) \/ StopOne(p) \/ StartOne(p)
      BY <1>1, <2>4, <2>7, StepGoes
    <3>2. Busy(p)' /\ Reloading(proc[p], units[d], s, d)
      BY <1>1, <2>5, <2>7
    <3>3. CASE Scan(p)
      BY <2>3, <2>7, <3>2, <3>3, ReloadingScan
    <3>4. CASE ListUnits(p)
      <4>1. units'[d] = units[d]
        BY <3>4 DEF ListUnits
      <4>q. QED
        BY <2>3, <2>7, <3>2, <3>4, <4>1, ReloadingList
    <3>5. CASE StopOne(p)
      BY <2>3, <2>7, <3>2, <3>5, ReloadingStop
    <3>6. CASE StartOne(p)
      BY <2>3, <2>7, <3>2, <3>6, ReloadingStart
    <3>q. QED
      BY <3>1, <3>3, <3>4, <3>5, <3>6
  <2>q. QED
    BY <2>6, <2>7
<1>q. QED
  BY <1>1 DEF ReloadOK, OfFile, Definitions, Entries

LEMMA ReloadBegin ==
  ASSUME TypeInv, TouchedOK, ReloadOK, NEW p \in Processes, NEW c \in Commands, Begin(p, c)
  PROVE  ReloadOK'
<1>0. UNCHANGED <<files, units>>
  BY BeginGoes
<1>1. ASSUME NEW q \in Processes, Busy(q)', proc'[q].ask.cmd = "reloadAll", NEW d \in Definitions, touched'[d] = 0
      PROVE  Reloading(proc'[q], units[d], OfFile(d), d)
  <2>1. CASE q # p
    <3>1. proc'[q] = proc[q]
      BY <2>1, BeginType
    <3>2. Busy(q) /\ proc[q].ask.cmd = "reloadAll"
      BY <1>1, <3>1 DEF Busy
    <3>3. touched[d] = 0
      <4>1. touched[d] \in Nat /\ touched'[d] = IF Target(c) = d THEN touched[d] + 1 ELSE touched[d]
        BY <3>2, BeginTouched
      <4>q. QED
        BY <1>1, <4>1
    <3>q. QED
      BY <3>1, <3>2, <3>3 DEF ReloadOK
  <2>2. CASE q = p
    <3>1. /\ Head(proc'[p].todo) = "scan" /\ proc'[p].starts = {} /\ proc'[p].stops = {}
          /\ proc'[p].left = Entries
      BY <1>1, <2>2, BeginGoes
    <3>2. \E e \in Entries : Dirs[e[1]][e[2]] = d
      BY DEF Definitions
    <3>q. QED
      BY <2>2, <3>1, <3>2 DEF Reloading
  <2>q. QED
    BY <2>1, <2>2
<1>2. \A d : OfFile(d)' = OfFile(d)
  BY <1>0 DEF OfFile
<1>q. QED
  BY <1>0, <1>1, <1>2 DEF ReloadOK, OfFile, Definitions, Entries

\* What holds however the commands overlap, if each service is configured in files of its own.
SeparateInv == TypeInv /\ TouchedOK /\ (\E W \in Worlds : Anchored(W))
ReloadInv == SeparateInv /\ ReloadOK

LEMMA InitSeparate == Init => SeparateInv /\ ReloadOK
<1> SUFFICES ASSUME Init PROVE SeparateInv /\ ReloadOK
  OBVIOUS
<1>1. TypeInv
  BY InitType
<1>2. \A p \in Processes : ~Busy(p)
  BY DEF Init, Busy, NoCommand
<1>3. TouchedOK /\ ReloadOK
  BY <1>2 DEF TouchedOK, For, ReloadOK
<1>4. Anchor(files, files)
  BY WorldsAssumption DEF Init, Anchor
<1>5. Anchored(files) /\ files \in Worlds
  BY <1>2, <1>4 DEF Anchored, At, Init
<1>q. QED
  BY <1>1, <1>3, <1>5 DEF SeparateInv

\* A step that changes nothing.
LEMMA SeparateStutter ==
  ASSUME SeparateInv, UNCHANGED vars
  PROVE  SeparateInv'
<1>1. TypeInv'
  BY NextType DEF SeparateInv
<1>2. TouchedOK'
  BY DEF SeparateInv, vars, TouchedOK, For, Busy, Target, Definitions, Entries
<1>3. PICK W \in Worlds : Anchored(W)
  BY DEF SeparateInv
<1>4. Anchored(W)'
  BY <1>3 DEF vars, Anchored, At, Busy, Anchor, WellFormed, InheritFile, SetIn, Definitions, Entries,
     Edited, Base, LoadServiceFile
<1>q. QED
  BY <1>1, <1>2, <1>4 DEF SeparateInv

LEMMA NextSeparate ==
  ASSUME OwnSetFiles, SeparateInv, [Next]_vars
  PROVE  SeparateInv'
<1>1. PICK W \in Worlds : Anchored(W)
  BY DEF SeparateInv
<1>2. TypeInv'
  BY NextType DEF SeparateInv
<1>3. ASSUME NEW p \in Processes, Step(p) \/ Kill(p) PROVE SeparateInv'
  BY <1>1, <1>2, <1>3, TouchedStep, AnchoredStep DEF SeparateInv
<1>4. ASSUME NEW p \in Processes, NEW c \in Commands, Begin(p, c) PROVE SeparateInv'
  BY <1>1, <1>2, <1>4, TouchedBegin, AnchoredBegin DEF SeparateInv
<1>q. QED
  BY <1>3, <1>4, SeparateStutter DEF Next

LEMMA NextReload ==
  ASSUME OwnSetFiles, ReloadInv, [Next]_vars
  PROVE  ReloadInv'
<1>1. SeparateInv'
  BY NextSeparate DEF ReloadInv
<1>2. PICK W \in Worlds : Anchored(W)
  BY DEF ReloadInv, SeparateInv
<1>3. ASSUME NEW p \in Processes, Step(p) \/ Kill(p) PROVE ReloadOK'
  BY <1>2, <1>3, ReloadStep DEF ReloadInv, SeparateInv
<1>4. ASSUME NEW p \in Processes, NEW c \in Commands, Begin(p, c) PROVE ReloadOK'
  BY <1>4, ReloadBegin DEF ReloadInv, SeparateInv
<1>5. ASSUME UNCHANGED vars PROVE ReloadOK'
  <2>1. \A d : OfFile(d)' = OfFile(d)
    BY <1>5 DEF vars, OfFile
  <2>q. QED
    BY <1>5, <2>1 DEF ReloadInv, ReloadOK, vars, Busy, OfFile, Definitions, Entries
<1>q. QED
  BY <1>1, <1>3, <1>4, <1>5 DEF Next, ReloadInv

\* The end of a reload.
LEMMA ReloadEnds ==
  ASSUME OwnSetFiles, ReloadInv, [Next]_vars, NEW p \in Processes,
         At(p, "start"), proc[p].ask.cmd = "reloadAll", proc'[p] = Done("ok"),
         NEW d \in Definitions, touched[d] = 0
  PROVE  LET s == OfFile(d) IN
         IF s.ok THEN units'[d] = [enabled |-> ShouldStart(s), active |-> ShouldStart(s)]
         ELSE proc[p].ask.inclusive \/ ~units'[d].active
<1> DEFINE s == OfFile(d)
<1>0. TypeInv /\ Busy(p) /\ Done("ok").todo = <<>>
  BY DoneFields DEF ReloadInv, SeparateInv, At
<1>1. proc'[p] # proc[p]
  BY <1>0 DEF Busy
<1>2. Step(p) \/ Kill(p)
  <2>1. ASSUME NEW q \in Processes, Step(q) \/ Kill(q) PROVE q = p
    BY <1>0, <1>1, <2>1, StepType
  <2>2. ASSUME NEW q \in Processes, NEW c \in Commands, Begin(q, c) PROVE q = p /\ ~Busy(q)
    BY <1>0, <1>1, <2>2, BeginType DEF Begin
  <2>3. ~UNCHANGED vars
    BY <1>1 DEF vars
  <2>q. QED
    BY <1>0, <2>1, <2>2, <2>3 DEF Next
<1>3. ~Fail(p)
  <2>1. DOMAIN proc = Processes
    BY <1>0 DEF TypeInv, ProcOK
  <2>2. Fail(p) => proc'[p] = Done("failed")
    BY <2>1 DEF Fail, Become
  <2>3. Done("failed") # Done("ok")
    BY DoneFields
  <2>q. QED
    BY <2>2, <2>3
<1>4. StartOne(p)
  BY <1>2, <1>3 DEF At, Step, Kill, Load, ReadSetFile, Truncate, Write, Check, Rollout, Query, Control,
     ControlFails, NotFound, StopFirst, Scan, ListUnits, StopOne, StartFails
<1>5. proc[p].starts = {} /\ UNCHANGED units
  BY <1>0, <1>4, StartGoes DEF Busy
<1>6. Reloading(proc[p], units[d], s, d) /\ Head(proc[p].todo) = "start"
  BY <1>0 DEF ReloadInv, ReloadOK, At
<1>7. /\ Runs(s) => units[d] = [enabled |-> TRUE, active |-> TRUE]
      /\ ~Runs(s) => Stopped(proc[p], units[d], s)
  BY <1>5, <1>6 DEF Reloading
<1>8. ShouldStart(s) \in BOOLEAN
  BY DEF ShouldStart
<1>9. CASE Runs(s)
  <2>1. s.ok /\ ShouldStart(s) = TRUE
    BY <1>8, <1>9 DEF Runs
  <2>2. units'[d] = [enabled |-> TRUE, active |-> TRUE]
    BY <1>5, <1>7, <1>9
  <2>q. QED
    BY <2>1, <2>2
<1>10. CASE ~Runs(s)
  <2>1. Stopped(proc[p], units'[d], s)
    BY <1>5, <1>7, <1>10
  <2>2. s.ok => ShouldStart(s) = FALSE
    BY <1>8, <1>10 DEF Runs
  <2>q. QED
    BY <2>1, <2>2 DEF Stopped
<1>q. QED
  BY <1>9, <1>10

\* A reload that reports success leaves each service running and enabled exactly if its
\* configuration says so (service.go:73-135), if no service is configured in the files of
\* another one.
THEOREM ReloadsConverge == OwnSetFiles => (Spec => ReloadConverges)
<1> SUFFICES ASSUME OwnSetFiles PROVE Spec => ReloadConverges
  OBVIOUS
<1>1. Init => ReloadInv
  BY InitSeparate DEF ReloadInv
<1>2. ReloadInv /\ [Next]_vars => ReloadInv'
  BY NextReload
<1> DEFINE EndsRight(p) ==
      /\ At(p, "start") /\ proc[p].ask.cmd = "reloadAll" /\ proc'[p] = Done("ok")
      => \A d \in {d \in Definitions : touched[d] = 0} :
           LET s == OfFile(d) IN
           IF s.ok THEN units'[d] = [enabled |-> ShouldStart(s), active |-> ShouldStart(s)]
           ELSE proc[p].ask.inclusive \/ ~units'[d].active
<1>3. ReloadInv /\ [Next]_vars => [\A p \in Processes : EndsRight(p)]_vars
  BY ReloadEnds
<1>q. QED
  BY <1>1, <1>2, <1>3, PTL DEF Spec, ReloadConverges

(***************************************************************************)
(* What has been reported of a service                                     *)
(***************************************************************************)
\* A key of "said" is the service's file with nothing, for whether it is disabled, or with
\* a variable.
Key(k) == \E d \in Definitions : k = <<d, <<>>>> \/ \E v \in STRING : k = <<d, <<v>>>>
Says(s, k, x) ==
  /\ s.ok
  /\ k[2] = <<>> => s.disable = x
  /\ \A v \in STRING : k[2] = <<v>> => ValueIn(s.config, v) = <<x>>
\* Two contents of a file say the same of it.
SayAlike(b, c, k) ==
  /\ k[2] = <<>> => SaysDisable(c) = SaysDisable(b)
  /\ \A v \in STRING : k[2] = <<v>> => SaysOf(c, v) = SaysOf(b, v)

LEMMA EditedShape ==
  ASSUME NEW c, NEW d, c.json \in {"missing", "broken", "valid"}, Edited(c, d)
  PROVE  SameShape(c, d) \/ Filled(c, d)
BY DEF Edited, SameShape, Filled, Base, Exists, NoContent

\* Only what the files of a service say of it counts, in whatever order they are loaded.
LEMMA WrittenSays ==
  ASSUME NEW W \in Worlds, NEW F, NEW G, Anchor(W, F), Anchor(W, G), NEW d \in Definitions,
         Written(F, G, FilesOf(W, d)), NEW k, NEW x, Says(LoadServiceFile(F, Dirs, d), k, x),
         \A f \in FilesOf(W, d) : SayAlike(F[f], G[f], k)
  PROVE  Says(LoadServiceFile(G, Dirs, d), k, x)
<1> DEFINE S == FilesOf(W, d)
           s == LoadServiceFile(F, Dirs, d)
           t == LoadServiceFile(G, Dirs, d)
<1>1. d \in S /\ None \notin DOMAIN W
  BY WorldFiles
<1>2. DOMAIN F = DOMAIN W /\ WellFormed(F) /\ WellFormed(G)
  BY DEF Anchor
<1>3. Closed(F, S) /\ Closed(G, S)
  BY AnchorClosed
<1>4. s.ok
  BY DEF Says
<1>5. Written(F, G, S) /\ \A f \in S : SayAlike(F[f], G[f], k)
  OBVIOUS
<1> HIDE DEF S
<1>6. t.ok
  BY <1>1, <1>2, <1>3, <1>4, <1>5, FuelAssumption, WrittenLoads
<1>7. k[2] = <<>> => t.disable = x
  <2>1. SUFFICES ASSUME k[2] = <<>> PROVE t.disable = x
    OBVIOUS
  <2>2. \A f \in S : SaysDisable(G[f]) = SaysDisable(F[f])
    BY <1>5, <2>1 DEF SayAlike
  <2>3. t.disable = s.disable
    BY <1>1, <1>2, <1>3, <1>4, <1>5, <2>2, FuelAssumption, WrittenDisable
  <2>q. QED
    BY <2>1, <2>3 DEF Says
<1>8. ASSUME NEW v \in STRING, k[2] = <<v>> PROVE ValueIn(t.config, v) = <<x>>
  <2>1. \A f \in S : SaysOf(G[f], v) = SaysOf(F[f], v)
    BY <1>5, <1>8 DEF SayAlike
  <2>2. SetAnew(F, G, S, v, {})
    BY <2>1 DEF SetAnew
  <2>3. ValueIn(t.config, v) = ValueIn(s.config, v) \/ ValueIn(t.config, v) \in {}
    BY <1>1, <1>2, <1>3, <1>4, <1>5, <2>2, FuelAssumption, WrittenConfig
  <2>q. QED
    BY <1>8, <2>3 DEF Says
<1>q. QED
  BY <1>6, <1>7, <1>8 DEF Says

\* What is written of a variable is what the service has, unless another file hides it.
Updated(old, now, y) == now = old \/ now = <<y>>
LEMMA WrittenSets ==
  ASSUME NEW W \in Worlds, NEW F, NEW G, Anchor(W, F), Anchor(W, G), NEW d \in Definitions,
         Written(F, G, FilesOf(W, d)), LoadServiceFile(F, Dirs, d).ok, NEW v, NEW y,
         \A f \in FilesOf(W, d) : Updated(SaysOf(F[f], v), SaysOf(G[f], v), y)
  PROVE  LET s == LoadServiceFile(F, Dirs, d)
             t == LoadServiceFile(G, Dirs, d)
         IN  t.ok /\ Updated(ValueIn(s.config, v), ValueIn(t.config, v), y)
<1> DEFINE S == FilesOf(W, d)
           s == LoadServiceFile(F, Dirs, d)
           t == LoadServiceFile(G, Dirs, d)
           new == {<<y>>}
<1>1. d \in S /\ None \notin DOMAIN W
  BY WorldFiles
<1>2. None \notin DOMAIN F /\ WellFormed(F) /\ WellFormed(G) /\ s.ok
  BY <1>1 DEF Anchor
<1>3. Closed(F, S) /\ Closed(G, S)
  BY AnchorClosed
<1>4. Written(F, G, S)
  OBVIOUS
<1>5. SetAnew(F, G, S, v, new)
  BY DEF Updated, SetAnew
<1> HIDE DEF S
<1>6. t.ok
  BY <1>1, <1>2, <1>3, <1>4, FuelAssumption, WrittenLoads
<1>7. <<>> \notin new
  OBVIOUS
<1> HIDE DEF new
<1>8. ValueIn(t.config, v) = ValueIn(s.config, v) \/ ValueIn(t.config, v) \in new
  BY <1>1, <1>2, <1>3, <1>4, <1>5, <1>7, FuelAssumption, WrittenConfig
<1>q. QED
  BY <1>6, <1>8 DEF new, Updated

\* One file of a service is written anew.
LEMMA OneWritten ==
  ASSUME NEW W \in Worlds, NEW F, NEW G, Anchor(W, F), Anchor(W, G), NEW d \in Definitions,
         NEW f, SameShape(F[f], G[f]) \/ Filled(F[f], G[f]),
         \A g \in DOMAIN W : g # f => G[g] = F[g]
  PROVE  Written(F, G, FilesOf(W, d))
BY WorldFiles DEF Written, Anchor, SameShape

\* What a file says after it has been read and written.
LEMMA BaseSays ==
  ASSUME NEW c, NEW k
  PROVE  SayAlike(c, Base(c), k)
BY DEF SayAlike, Base, SaysDisable, SaysOf, ValueIn, Exists, NoContent

LEMMA DisableSays ==
  ASSUME NEW c, Content(c), NEW b
  PROVE  LET d == WithDisable(c, b) IN
         /\ SameShape(c, d) /\ Content(d) /\ d.inherit = c.inherit /\ SaysDisable(d) = b
         /\ \A v : SaysOf(d, v) = SaysOf(c, v)
BY ContentFields DEF WithDisable, Content, SameShape, SaysDisable, SaysOf, Exists

LEMMA ConfigSays ==
  ASSUME NEW c, Content(c), NEW var, NEW value
  PROVE  LET d == WithConfig(c, var, value) IN
         /\ SameShape(c, d) /\ SaysDisable(d) = SaysDisable(c)
         /\ SaysOf(d, var) = <<value>>
         /\ \A v : v # var => SaysOf(d, v) = SaysOf(c, v)
<1> DEFINE d == WithConfig(c, var, value)
           m == MergeConfig([v \in {var} |-> value], c.config)
<1>1. d.json = c.json /\ d.inherit = c.inherit /\ d.disable = c.disable /\ d.config = m
  BY ContentFields DEF Content, WithConfig
<1>2. DOMAIN m = {var} \union DOMAIN c.config /\ m[var] = value
      /\ \A v \in DOMAIN c.config : v # var => m[v] = c.config[v]
  BY DEF MergeConfig
<1> HIDE DEF m
<1>3. ValueIn(m, var) = <<value>> /\ \A v : v # var => ValueIn(m, v) = ValueIn(c.config, v)
  BY <1>2 DEF ValueIn
<1> HIDE DEF d
<1>4. Exists(c) /\ Exists(d)
  BY <1>1 DEF Content, Exists
<1>q. QED
  BY <1>1, <1>3, <1>4 DEF SameShape, SaysDisable, SaysOf, d

\* What a command will have written once it has written back what it has read.
Pending(p) == [files EXCEPT ![proc[p].setFile] = proc[p].content]

\* A command that is about to truncate a file has read what the file still says.
ContentOK ==
  \A p \in Processes : At(p, "truncate") /\ touched[proc[p].unit] <= 1 =>
    proc[p].content = Base(files[proc[p].setFile])

\* What has been reported of a service is so, or will be once the command at work on the
\* file has written back what it has read; or it has been set to another value, and the
\* command that did is still to report that.
Changing(p, k) ==
  /\ At(p, "check") /\ proc[p].unit = k[1] /\ k[2] = <<proc[p].ask.var>>
  /\ Says(OfFile(k[1]), k, proc[p].ask.value)
Confirmed(k, x) ==
  /\ touched[k[1]] <= 1
  /\ \A p \in Processes : At(p, "write") /\ proc[p].unit = k[1] =>
       Says(LoadServiceFile(Pending(p), Dirs, k[1]), k, x)
  /\ \/ \E p \in Processes : At(p, "write") /\ proc[p].unit = k[1]
     \/ \E p \in Processes : Changing(p, k)
     \/ Says(OfFile(k[1]), k, x)
SaidOK == \A k \in DOMAIN said : Key(k) /\ Confirmed(k, said[k])

LEMMA KeyIs ==
  ASSUME NEW k, Key(k)
  PROVE  /\ k[1] \in Definitions /\ k = <<k[1], k[2]>>
         /\ k[2] = <<>> \/ \E v \in STRING : k[2] = <<v>>
BY DEF Key

LEMMA PendingAnchor ==
  ASSUME TypeInv, NEW W \in Worlds, Anchored(W), NEW p \in Processes, At(p, "write")
  PROVE  Anchor(W, Pending(p))
<1>1. SetIn(W, proc[p].unit, proc[p].setFile) /\ Edited(W[proc[p].setFile], proc[p].content)
      /\ Anchor(W, files)
  BY DEF Anchored
<1>2. proc[p].unit \in Definitions
  BY WriterIs
<1>3. Content(proc[p].content)
  BY NewContentEdited
<1>q. QED
  BY <1>1, <1>2, <1>3, AnchorWritten DEF Pending

\* A command at work on another service makes no difference to what will be written.
LEMMA PendingKept ==
  ASSUME OwnSetFiles, TypeInv, NEW W \in Worlds, Anchored(W), NEW p \in Processes, Step(p) \/ Kill(p),
         NEW q \in Processes, q # p, At(q, "write"), ~For(p, proc[q].unit)
  PROVE  LoadServiceFile(Pending(q)', Dirs, proc[q].unit) = LoadServiceFile(Pending(q), Dirs, proc[q].unit)
<1> DEFINE d == proc[q].unit
           g == proc[q].setFile
           F == Pending(q)
           G == [files' EXCEPT ![g] = proc[q].content]
<1>1. Pending(q)' = G
  BY StepType DEF Pending
<1>2. Anchor(W, F) /\ d \in Definitions
  BY PendingAnchor, WriterIs
<1>3. CASE UNCHANGED files
  BY <1>1, <1>3 DEF Pending
<1>4. ASSUME NEW c, files' = [files EXCEPT ![proc[p].setFile] = c], At(p, "truncate") \/ At(p, "write")
      PROVE  LoadServiceFile(G, Dirs, d) = LoadServiceFile(F, Dirs, d)
  <2> DEFINE e == proc[p].unit
             f == proc[p].setFile
  <2>1. e \in Definitions /\ e = Target(proc[p].ask) /\ Busy(p)
    BY <1>4, WriterIs
  <2>2. e # d
    BY <2>1 DEF For
  <2>3. SetIn(W, e, f)
    BY <1>4 DEF Anchored
  <2>4. DOMAIN G = DOMAIN F /\ \A h \in DOMAIN F : h # f => G[h] = F[h]
    BY <1>4 DEF Pending
  <2> HIDE DEF e, f, d, F, G
  <2>q. QED
    BY <1>2, <2>1, <2>2, <2>3, <2>4, AnchorSame
<1>q. QED
  BY <1>1, <1>3, <1>4, FilesStep DEF Truncate, Write

\* Two commands at work on one file are for one service, and one command if there is one.
LEMMA OneWriter ==
  ASSUME OwnSetFiles, TypeInv, TouchedOK, NEW W \in Worlds, Anchored(W),
         NEW p \in Processes, NEW q \in Processes,
         At(p, "truncate") \/ At(p, "write"), At(q, "truncate") \/ At(q, "write"),
         proc[p].setFile = proc[q].setFile, touched[proc[q].unit] <= 1
  PROVE  p = q
<1> DEFINE d == proc[q].unit
           e == proc[p].unit
           f == proc[q].setFile
<1>1. /\ d \in Definitions /\ d = Target(proc[q].ask) /\ Busy(q)
      /\ e \in Definitions /\ e = Target(proc[p].ask) /\ Busy(p)
  BY WriterIs
<1>2. SetIn(W, d, f) /\ SetIn(W, e, f)
  BY DEF Anchored
<1>3. e = d
  <2> HIDE DEF d, e, f
  <2>q. QED
    BY <1>1, <1>2, OneOwner
<1>q. QED
  BY <1>1, <1>3 DEF TouchedOK, For

LEMMA ContentStep ==
  ASSUME OwnSetFiles, TypeInv, TouchedOK, ContentOK, NEW W \in Worlds, Anchored(W),
         NEW p \in Processes, Step(p) \/ Kill(p)
  PROVE  ContentOK'
<1>1. touched' = touched
  BY TouchedKept
<1>2. ASSUME NEW q \in Processes, At(q, "truncate")', touched[proc'[q].unit] <= 1
      PROVE  proc'[q].content = Base(files'[proc'[q].setFile])
  <2>1. CASE q = p
    <3>1. Busy(p)' /\ Head(proc'[p].todo) = "truncate"
      BY <1>2, <2>1 DEF At
    <3>2. ReadSetFile(p)
      BY <3>1, StepGoes
    <3>3. proc'[p].setFile = proc[p].setFile /\ proc'[p].content = Base(files[proc[p].setFile])
      BY <3>1, <3>2, ReadGoes
    <3>4. UNCHANGED files
      BY <3>2 DEF ReadSetFile
    <3>q. QED
      BY <2>1, <3>3, <3>4
  <2>2. CASE q # p
    <3>1. proc'[q] = proc[q]
      BY <2>2, StepType
    <3>2. At(q, "truncate") /\ touched[proc[q].unit] <= 1
      BY <1>2, <3>1 DEF At, Busy
    <3>3. proc[q].content = Base(files[proc[q].setFile])
      BY <3>2 DEF ContentOK
    <3>4. ASSUME At(p, "truncate") \/ At(p, "write") PROVE proc[p].setFile # proc[q].setFile
      BY <2>2, <3>2, <3>4, OneWriter
    <3>5. proc[q].setFile \in DOMAIN files
      BY <3>2, WriterIs
    <3>6. files'[proc[q].setFile] = files[proc[q].setFile]
      BY <3>4, <3>5, FilesStep DEF Truncate, Write
    <3>q. QED
      BY <3>1, <3>3, <3>6
  <2>q. QED
    BY <2>1, <2>2
<1>q. QED
  BY <1>1, <1>2 DEF ContentOK, Base

LEMMA ContentBegin ==
  ASSUME TypeInv, ContentOK, NEW p \in Processes, NEW c \in Commands, Begin(p, c)
  PROVE  ContentOK'
<1>1. UNCHANGED files /\ Head(proc'[p].todo) # "truncate"
  BY BeginGoes
<1>2. ASSUME NEW q \in Processes, At(q, "truncate")', touched'[proc'[q].unit] <= 1
      PROVE  proc'[q].content = Base(files'[proc'[q].setFile])
  <2>1. q # p
    BY <1>1, <1>2 DEF At
  <2>2. proc'[q] = proc[q]
    BY <2>1, BeginType
  <2>3. At(q, "truncate") /\ Busy(q)
    BY <1>2, <2>2 DEF At, Busy
  <2>4. proc[q].unit \in Definitions
    BY <2>3, WriterIs
  <2>5. touched[proc[q].unit] \in Nat /\ touched[proc[q].unit] <= touched'[proc[q].unit]
    BY <2>3, <2>4, BeginTouched
  <2>6. touched[proc[q].unit] <= 1
    <3>1. touched'[proc[q].unit] \in Nat
      BY <2>4, BeginType DEF TypeInv, CountsOK, Definitions, Entries
    <3>q. QED
      BY <1>2, <2>2, <2>5, <3>1
  <2>q. QED
    BY <1>1, <2>2, <2>3, <2>6 DEF ContentOK
<1>q. QED
  BY <1>2 DEF ContentOK, Base

\* What has been reported of a service, as commands for other ones go on.
LEMMA OthersConfirmed ==
  ASSUME OwnSetFiles, TypeInv, TouchedOK, NEW W \in Worlds, Anchored(W),
         NEW p \in Processes, Step(p) \/ Kill(p), NEW k, NEW x, k[1] \in Definitions, Confirmed(k, x),
         ~For(p, k[1])
  PROVE  Confirmed(k, x)'
<1> DEFINE d == k[1]
<1>1. touched' = touched
  BY TouchedKept
<1>2. LoadServiceFile(files', Dirs, d) = LoadServiceFile(files, Dirs, d)
  BY LoadKept DEF OfFile
<1>3. \A q \in Processes : q # p => proc'[q] = proc[q]
  BY StepType
<1>4. ASSUME NEW q \in Processes, At(q, "write") \/ At(q, "check"), proc[q].unit = d PROVE q # p
  BY <1>4, WriterIs DEF For
<1>5. ASSUME NEW q \in Processes, At(q, "write")', proc'[q].unit = d
      PROVE  q # p /\ At(q, "write") /\ proc[q].unit = d
  <2>1. CASE q = p
    <3>1. Busy(p)' /\ Head(proc'[p].todo) = "write"
      BY <1>5, <2>1 DEF At
    <3>2. Truncate(p)
      BY <3>1, StepGoes
    <3>3. proc[p].unit = d
      BY <1>5, <2>1, <3>2, WriterGoes
    <3>4. For(p, d)
      BY <3>2, <3>3, WriterIs DEF For, Truncate
    <3>q. QED
      BY <3>4
  <2>2. CASE q # p
    BY <1>3, <1>5, <2>2 DEF At, Busy
  <2>q. QED
    BY <2>1, <2>2
<1>6. ASSUME NEW q \in Processes, At(q, "write")', proc'[q].unit = d
      PROVE  Says(LoadServiceFile(Pending(q)', Dirs, d), k, x)
  <2>1. q # p /\ At(q, "write") /\ proc[q].unit = d
    BY <1>5, <1>6
  <2>2. LoadServiceFile(Pending(q)', Dirs, d) = LoadServiceFile(Pending(q), Dirs, d)
    BY <2>1, PendingKept
  <2>q. QED
    BY <2>1, <2>2 DEF Confirmed
<1>7. ASSUME NEW q \in Processes, At(q, "write"), proc[q].unit = d
      PROVE  At(q, "write")' /\ proc'[q].unit = d
  <2>1. proc'[q] = proc[q]
    BY <1>3, <1>4, <1>7
  <2>q. QED
    BY <1>7, <2>1 DEF At, Busy
<1>8. ASSUME NEW q \in Processes, Changing(q, k)
      PROVE  Changing(q, k)'
  <2>1. proc'[q] = proc[q]
    BY <1>3, <1>4, <1>8 DEF Changing
  <2>q. QED
    BY <1>2, <1>8, <2>1 DEF Changing, At, Busy, OfFile
<1>9. Says(OfFile(d), k, x) => Says(OfFile(d)', k, x)
  BY <1>2 DEF OfFile
<1>q. QED
  BY <1>1, <1>6, <1>7, <1>8, <1>9 DEF Confirmed, Says

\* A command that truncates the file of a service will write back all that it says.
LEMMA TruncateSays ==
  ASSUME OwnSetFiles, TypeInv, ContentOK, NEW W \in Worlds, Anchored(W),
         NEW p \in Processes, Truncate(p), touched[proc[p].unit] <= 1,
         NEW k, NEW x, Says(OfFile(proc[p].unit), k, x)
  PROVE  Says(LoadServiceFile(Pending(p)', Dirs, proc[p].unit), k, x)
<1> DEFINE d == proc[p].unit
           f == proc[p].setFile
           c == proc[p].content
           G == Pending(p)'
<1>1. At(p, "truncate") /\ d \in Definitions /\ f \in DOMAIN files
  BY WriterIs DEF Truncate
<1>2. c = Base(files[f]) /\ Content(c)
  BY <1>1, CommandNow DEF ContentOK, At, Running
<1>3. Anchor(W, files) /\ Anchor(W, files')
  BY AnchorStep DEF Anchored, Step
<1>4. TypeInv' /\ Anchored(W)'
  BY StepType, AnchoredStep DEF Step
<1>5. Busy(p)' /\ Head(proc'[p].todo) = "write" /\ proc'[p].setFile = f /\ proc'[p].content = c
      /\ proc'[p].unit = d
  BY WriterGoes
<1>6. G = [files' EXCEPT ![f] = c]
  BY <1>5 DEF Pending
<1>7. files' = [files EXCEPT ![f] = Broken]
  BY DEF Truncate
<1>8. G[f] = c /\ \A g \in DOMAIN files : g # f => G[g] = files[g]
  BY <1>1, <1>6, <1>7
<1>9. SetIn(W, d, f) /\ Edited(W[f], c)
  BY <1>1 DEF Anchored
<1>10. Anchor(W, G)
  <2> DEFINE H == files'
  <2>1. Anchor(W, H)
    BY <1>3
  <2> HIDE DEF H, c, f, d
  <2>2. Anchor(W, [H EXCEPT ![f] = c])
    BY <1>1, <1>2, <1>9, <2>1, AnchorWritten
  <2>q. QED
    BY <1>6, <2>2 DEF H, c, f
<1>11. SameShape(files[f], G[f]) \/ Filled(files[f], G[f])
  <2>1. files[f].json \in {"missing", "broken", "valid"}
    BY <1>1 DEF TypeInv, FilesOK, WellFormed
  <2>2. Edited(files[f], c)
    BY <1>2 DEF Edited, Base, Content, Exists
  <2>q. QED
    BY <1>8, <2>1, <2>2, EditedShape
<1>12. DOMAIN files = DOMAIN W
  BY <1>3 DEF Anchor
<1>13. Written(files, G, FilesOf(W, d))
  BY <1>1, <1>3, <1>8, <1>10, <1>11, <1>12, OneWritten
<1>14. \A g \in FilesOf(W, d) : SayAlike(files[g], G[g], k)
  <2>1. SayAlike(files[f], G[f], k)
    BY <1>2, <1>8, BaseSays
  <2>2. \A g \in DOMAIN files : g # f => SayAlike(files[g], G[g], k)
    BY <1>8 DEF SayAlike
  <2>q. QED
    BY <1>1, <1>12, <2>1, <2>2, WorldFiles
<1> HIDE DEF G
<1>q. QED
  BY <1>1, <1>3, <1>10, <1>13, <1>14, WrittenSays DEF OfFile, G

\* A command that writes the file changes of what it says only what it was asked to.
LEMMA WriteSays ==
  ASSUME OwnSetFiles, TypeInv, NEW W \in Worlds, Anchored(W),
         NEW p \in Processes, Write(p), NEW k, Key(k), NEW x,
         proc[p].ask.cmd # "set" => k[2] # <<>>,
         Says(LoadServiceFile(Pending(p), Dirs, proc[p].unit), k, x)
  PROVE  \/ Says(LoadServiceFile(files', Dirs, proc[p].unit), k, x)
         \/ /\ proc[p].ask.cmd = "set" /\ k[2] = <<proc[p].ask.var>>
            /\ Says(LoadServiceFile(files', Dirs, proc[p].unit), k, proc[p].ask.value)
<1> DEFINE d == proc[p].unit
           f == proc[p].setFile
           c == proc[p].content
           a == proc[p].ask
           F == Pending(p)
           G == files'
           S == FilesOf(W, d)
<1>1. At(p, "write") /\ d \in Definitions /\ f \in DOMAIN files /\ a \in Asked
  BY WriterIs DEF Write
<1>2. Content(c) /\ G = [files EXCEPT ![f] = NewContent(proc[p])]
  BY <1>1, NewContentEdited, WriteFiles
<1>3. Anchor(W, F) /\ Anchor(W, G)
  BY <1>1, PendingAnchor, AnchorStep DEF Step
<1>4. F[f] = c /\ G[f] = NewContent(proc[p]) /\ \A g \in DOMAIN files : g # f => G[g] = F[g]
  BY <1>1, <1>2 DEF Pending
<1>5. DOMAIN files = DOMAIN W /\ S \subseteq DOMAIN W
  BY <1>1, WorldFiles DEF Anchored, Anchor
<1>6. NewContent(proc[p]) = IF a.cmd = "set" THEN WithConfig(c, a.var, a.value)
                            ELSE WithDisable(c, a.cmd = "disable")
  BY DEF NewContent
<1> HIDE DEF c, F, G, S
<1>7. SameShape(F[f], G[f])
  BY <1>2, <1>4, <1>6, DisableSays, ConfigSays
<1>8. Written(F, G, S)
  BY <1>1, <1>3, <1>4, <1>5, <1>7, OneWritten DEF S
<1>9. CASE a.cmd # "set" \/ k[2] # <<a.var>>
  <2>1. SayAlike(F[f], G[f], k)
    <3>1. CASE a.cmd # "set"
      <4>1. \A v : SaysOf(G[f], v) = SaysOf(F[f], v)
        BY <1>2, <1>4, <1>6, <3>1, DisableSays
      <4>q. QED
        BY <3>1, <4>1 DEF SayAlike
    <3>2. CASE a.cmd = "set" /\ k[2] # <<a.var>>
      <4>1. SaysDisable(G[f]) = SaysDisable(F[f]) /\ \A v : v # a.var => SaysOf(G[f], v) = SaysOf(F[f], v)
        BY <1>2, <1>4, <1>6, <3>2, ConfigSays
      <4>q. QED
        BY <3>2, <4>1 DEF SayAlike
    <3>q. QED
      BY <1>9, <3>1, <3>2
  <2>2. \A g \in S : SayAlike(F[g], G[g], k)
    BY <1>4, <1>5, <2>1 DEF SayAlike
  <2>3. Says(LoadServiceFile(G, Dirs, d), k, x)
    BY <1>1, <1>3, <1>8, <2>2, WrittenSays DEF S, F
  <2>q. QED
    BY <2>3 DEF G
<1>10. CASE a.cmd = "set" /\ k[2] = <<a.var>>
  <2> DEFINE s == LoadServiceFile(F, Dirs, d)
             t == LoadServiceFile(G, Dirs, d)
             v == a.var
  <2>1. SaysOf(G[f], v) = <<a.value>>
    BY <1>2, <1>4, <1>6, <1>10, ConfigSays
  <2>2. \A g \in S : SaysOf(G[g], v) = SaysOf(F[g], v) \/ SaysOf(G[g], v) = <<a.value>>
    BY <1>4, <1>5, <2>1
  <2>3. v \in STRING
    BY <1>1 DEF Asked
  <2>4. s.ok /\ ValueIn(s.config, v) = <<x>>
    BY <1>10, <2>3 DEF Says, F
  <2> DEFINE y == a.value
  <2>5. t.ok /\ Updated(ValueIn(s.config, v), ValueIn(t.config, v), y)
    <3>1. s.ok /\ Written(F, G, FilesOf(W, d)) /\ d \in Definitions
      BY <1>1, <1>8, <2>4 DEF S
    <3>2. \A g \in FilesOf(W, d) : Updated(SaysOf(F[g], v), SaysOf(G[g], v), y)
      BY <2>2 DEF S, Updated
    <3> HIDE DEF d, v, y
    <3>q. QED
      BY <1>3, <3>1, <3>2, WrittenSets
  <2>6. Says(t, k, x) \/ Says(t, k, a.value)
    BY <1>10, <2>4, <2>5 DEF Says, Updated
  <2>q. QED
    BY <1>10, <2>6 DEF G
<1>q. QED
  BY <1>9, <1>10

\* Whether a service is disabled is what a command has written, if its other files do not
\* say otherwise.
LEMMA DisableWritten ==
  ASSUME OwnSetFiles, DecidesDisable, TypeInv, NEW W \in Worlds, Anchored(W),
         NEW p \in Processes, Write(p), proc[p].ask.cmd # "set"
  PROVE  LET s == LoadServiceFile(files', Dirs, proc[p].unit) IN
         s.ok /\ s.disable = (proc[p].ask.cmd = "disable")
<1> DEFINE d == proc[p].unit
           f == proc[p].setFile
           b == (proc[p].ask.cmd = "disable")
           c == proc[p].content
           e == WithDisable(Base(W[f]), b)
           F == [W EXCEPT ![f] = e]
           G == files'
           S == FilesOf(W, d)
<1>1. At(p, "write") /\ d \in Definitions /\ f \in DOMAIN files /\ b \in BOOLEAN
  BY WriterIs DEF Write
<1>2. SetIn(W, d, f) /\ Edited(W[f], c) /\ Content(c) /\ Anchor(W, files) /\ Anchor(W, G)
  BY <1>1, AnchorStep, NewContentEdited DEF Anchored, Step
<1>3. DOMAIN files = DOMAIN W /\ DOMAIN W = DOMAIN DirOf /\ WellFormed(W) /\ S \subseteq DOMAIN W /\ d \in S
      /\ None \notin DOMAIN W
  BY <1>1, <1>2, WorldFiles DEF Anchor
<1>4. W[f].json # "broken" /\ W[f].json \in {"missing", "broken", "valid"}
  BY <1>1, <1>2, <1>3 DEF Edited, WellFormed
<1>5. Content(Base(W[f]))
  <2>1. CASE W[f].json = "valid"
    BY <1>1, <1>3, <2>1 DEF WellFormed, InheritFile, Content, Base, Exists
  <2>2. CASE W[f].json = "missing"
    BY <2>2 DEF Content, Base, Exists, NoContent
  <2>q. QED
    BY <1>4, <2>1, <2>2
<1>6. G[f] = WithDisable(c, b) /\ \A g \in DOMAIN W : g # f => G[g] = files[g]
  BY <1>1, <1>3, WriteFiles DEF NewContent
<1>7. F[f] = e /\ \A g \in DOMAIN W : g # f => F[g] = W[g]
  BY <1>1, <1>3
<1>8. LoadServiceFile(F, Dirs, d).disable = b
  BY <1>1, <1>2, <1>3, <1>4 DEF DecidesDisable
<1> HIDE DEF b
<1>9. Content(e) /\ SaysDisable(e) = b /\ e.inherit = Base(W[f]).inherit
  BY <1>5, DisableSays
<1>10. G[f].json = "valid" /\ SaysDisable(G[f]) = b /\ G[f].inherit = Base(W[f]).inherit
  BY <1>2, <1>6, DisableSays DEF Content, Edited
<1>11. Edited(W[f], e)
  BY <1>4, <1>9 DEF Edited, Content
<1> HIDE DEF e, c, d, f
<1>12. Anchor(W, W)
  BY <1>3 DEF Anchor
<1>13. Anchor(W, F)
  BY <1>1, <1>2, <1>9, <1>11, <1>12, AnchorWritten
<1> HIDE DEF F, G
<1>14. \A g \in S : g # f => G[g] = F[g]
  <2>1. \A g \in S : files[g] # W[g] => SetIn(W, d, g)
    BY <1>1, <1>2, AnchorOthers
  <2>2. \A g \in S : files[g] # W[g] => g = f
    BY <1>2, <2>1 DEF SetIn
  <2>q. QED
    BY <1>3, <1>6, <1>7, <2>2
<1>15. Written(W, F, S)
  <2>1. SameShape(W[f], F[f]) \/ Filled(W[f], F[f])
    BY <1>4, <1>7, <1>11, EditedShape
  <2>q. QED
    BY <1>1, <1>7, <1>12, <1>13, <2>1, OneWritten
<1>16. Written(F, G, S)
  <2>1. SameShape(F[f], G[f])
    BY <1>7, <1>9, <1>10 DEF SameShape, Content
  <2>2. DOMAIN G = DOMAIN F
    BY <1>2, <1>13 DEF Anchor
  <2>q. QED
    BY <1>14, <2>1, <2>2 DEF Written, SameShape
<1>17. WellFormed(F) /\ WellFormed(G) /\ None \notin DOMAIN F /\ Closed(W, S) /\ Closed(F, S) /\ Closed(G, S)
  <2>1. Closed(W, S) /\ Closed(F, S) /\ Closed(G, S)
    BY <1>1, <1>2, <1>12, <1>13, AnchorClosed
  <2>q. QED
    BY <1>2, <1>3, <1>13, <2>1 DEF Anchor
<1>18. \A g \in S : SaysDisable(G[g]) = SaysDisable(F[g])
  BY <1>7, <1>9, <1>10, <1>14
<1>19. LoadServiceFile(W, Dirs, d).ok
  BY <1>2 DEF SetIn
<1> HIDE DEF S
<1>20. LoadServiceFile(F, Dirs, d).ok
  BY <1>3, <1>15, <1>17, <1>19, FuelAssumption, WrittenLoads
<1>21. LoadServiceFile(G, Dirs, d).ok
  BY <1>3, <1>16, <1>17, <1>20, FuelAssumption, WrittenLoads
<1>22. LoadServiceFile(G, Dirs, d).disable = LoadServiceFile(F, Dirs, d).disable
  BY <1>3, <1>16, <1>17, <1>18, <1>20, FuelAssumption, WrittenDisable
<1>q. QED
  BY <1>8, <1>21, <1>22 DEF G, d, b

\* What a command reports, and what becomes of what has been reported.
SaysDisabled(p, k, x) ==
  /\ Write(p) /\ proc[p].ask.cmd # "set" /\ touched[proc[p].unit] <= 1
  /\ k = <<proc[p].unit, <<>>>> /\ x = (proc[p].ask.cmd = "disable")
SaysSet(p, k, x) ==
  /\ Check(p) /\ touched[proc[p].unit] <= 1
  /\ Says(OfFile(proc[p].unit), k, x)
  /\ k = <<proc[p].unit, <<proc[p].ask.var>>>> /\ x = proc[p].ask.value
LEMMA CheckSays ==
  ASSUME TypeInv, NEW p \in Processes, Check(p)
  PROVE  LET d == proc[p].unit
             key == <<d, <<proc[p].ask.var>>>>
             value == proc[p].ask.value
         IN
         /\ d \in Definitions /\ proc[p].ask.var \in STRING /\ UNCHANGED files
         /\ \/ Says(OfFile(d), key, value) /\ Report(d, <<proc[p].ask.var>>, value)
            \/ ~Says(OfFile(d), key, value) /\ said' = said
<1> DEFINE d == proc[p].unit
           a == proc[p].ask
           s == OfFile(d)
           key == <<d, <<a.var>>>>
<1>1. At(p, "check") /\ d \in Definitions /\ d = Target(a) /\ a \in Asked
  BY WriterIs DEF Check
<1>2. a.cmd = "set"
  BY <1>1, CommandNow DEF At
<1>3. Loaded(a.name) = s
  BY <1>1, NoneIsNone DEF Loaded, LoadServiceByName, Target, OfFile
<1>4. a.var \in STRING /\ key[2] = <<a.var>>
  BY <1>1 DEF Asked
<1>5. Says(s, key, a.value) <=> s.ok /\ ValueIn(s.config, a.var) = <<a.value>>
  BY <1>4 DEF Says
<1>6. AlreadySet(a, s) <=> ValueIn(s.config, a.var) = <<a.value>>
  BY <1>2 DEF AlreadySet, ValueIn
<1>7. \/ s.ok /\ AlreadySet(a, s) /\ Report(d, <<a.var>>, a.value)
      \/ ~(s.ok /\ AlreadySet(a, s)) /\ said' = said
  BY <1>3 DEF Check
<1>8. UNCHANGED files
  BY DEF Check
<1>q. QED
  BY <1>1, <1>4, <1>5, <1>6, <1>7, <1>8

LEMMA SaidChanges ==
  ASSUME TypeInv, NEW p \in Processes, Step(p) \/ Kill(p), NEW k \in DOMAIN said'
  PROVE  \/ SaysDisabled(p, k, said'[k])
         \/ SaysSet(p, k, said'[k])
         \/ /\ k \in DOMAIN said /\ said'[k] = said[k]
            /\ Kill(p) => k \notin Unsettled(p)
            /\ touched[k[1]] <= 1 =>
                 /\ Write(p) /\ proc[p].ask.cmd # "set" => k # <<proc[p].unit, <<>>>>
                 /\ Check(p) => \/ k # <<proc[p].unit, <<proc[p].ask.var>>>>
                                \/ ~Says(OfFile(proc[p].unit), k, proc[p].ask.value)
<1> DEFINE d == proc[p].unit
<1>0. ASSUME d \in Definitions, NEW field, NEW value, Report(d, field, value)
      PROVE  \/ touched[d] <= 1 /\ k = <<d, field>> /\ said'[k] = value
             \/ k \in DOMAIN said /\ said'[k] = said[k] /\ (touched[d] <= 1 => k # <<d, field>>)
  <2>0. touched[d] \in Nat
    BY <1>0 DEF TypeInv, CountsOK
  <2>1. CASE touched[d] > 1
    <3>1. said' = said
      BY <1>0, <2>1 DEF Report
    <3>2. ASSUME touched[d] <= 1 PROVE FALSE
      BY <2>0, <2>1, <3>2
    <3>q. QED
      BY <3>1, <3>2
  <2>2. CASE ~(touched[d] > 1)
    <3>1. said' = [j \in DOMAIN said \union {<<d, field>>} |-> IF j = <<d, field>> THEN value ELSE said[j]]
      BY <1>0, <2>2 DEF Report
    <3>2. CASE k = <<d, field>>
      <4>1. said'[k] = value
        BY <3>1, <3>2
      <4>q. QED
        BY <2>0, <2>2, <3>2, <4>1
    <3>3. CASE k # <<d, field>>
      <4>1. k \in DOMAIN said /\ said'[k] = said[k]
        BY <3>1, <3>3
      <4>q. QED
        BY <3>3, <4>1
    <3>q. QED
      BY <3>2, <3>3
  <2>q. QED
    BY <2>1, <2>2
<1>1. CASE Write(p)
  <2>1. ~Kill(p) /\ ~Check(p)
    <3>1. Head(proc[p].todo) = "write" /\ UNCHANGED faults
      BY <1>1 DEF Write, At
    <3>2. faults \in Nat
      BY BoundsAssumption DEF TypeInv, CountsOK
    <3>q. QED
      BY <3>1, <3>2 DEF Kill, Fault, Check, At
  <2>2. CASE proc[p].ask.cmd = "set"
    BY <1>1, <2>1, <2>2 DEF Write
  <2>3. CASE proc[p].ask.cmd # "set"
    <3>1. Report(d, <<>>, proc[p].ask.cmd = "disable")
      BY <1>1, <2>3 DEF Write
    <3>2. d \in Definitions
      BY <1>1, WriterIs DEF Write
    <3>q. QED
      BY <1>0, <1>1, <2>1, <2>3, <3>1, <3>2 DEF SaysDisabled
  <2>q. QED
    BY <2>2, <2>3
<1>2. CASE Check(p)
  <2>1. ~Kill(p) /\ ~Write(p)
    <3>1. Head(proc[p].todo) = "check" /\ UNCHANGED faults
      BY <1>2 DEF Check, At
    <3>2. faults \in Nat
      BY BoundsAssumption DEF TypeInv, CountsOK
    <3>q. QED
      BY <3>1, <3>2 DEF Kill, Fault, Write, At
  <2>2. CASE /\ Says(OfFile(d), <<d, <<proc[p].ask.var>>>>, proc[p].ask.value)
             /\ Report(d, <<proc[p].ask.var>>, proc[p].ask.value)
    BY <1>0, <1>2, <2>1, <2>2, CheckSays DEF SaysSet
  <2>3. CASE ~Says(OfFile(d), <<d, <<proc[p].ask.var>>>>, proc[p].ask.value) /\ said' = said
    BY <1>2, <2>1, <2>3
  <2>q. QED
    BY <1>2, <2>2, <2>3, CheckSays
<1>3. CASE Kill(p)
  <2>1. /\ said' = [j \in DOMAIN said \ Unsettled(p) |-> said[j]]
        /\ faults' = faults + 1 /\ faults \in Nat
    BY <1>3, BoundsAssumption DEF Kill, Fault, TypeInv, CountsOK
  <2>2. ~Write(p) /\ ~Check(p)
    BY <2>1 DEF Write, Check
  <2>q. QED
    BY <2>1, <2>2
<1>4. CASE ~Write(p) /\ ~Check(p) /\ ~Kill(p)
  <2>1. said' = said
    BY <1>4 DEF Step, Load, ReadSetFile, Truncate, Rollout, Query, Control, ControlFails, NotFound,
       StopFirst, Scan, ListUnits, StopOne, StartOne, StartFails, Quietly
  <2>q. QED
    BY <1>4, <2>1
<1>q. QED
  BY <1>1, <1>2, <1>3, <1>4

\* A command that is about to write was so before, or has truncated the file.
LEMMA NowWriting ==
  ASSUME TypeInv, NEW p \in Processes, Step(p) \/ Kill(p), NEW q \in Processes, At(q, "write")'
  PROVE  /\ (q = p /\ Truncate(p)) \/ (q # p /\ At(q, "write"))
         /\ proc'[q].unit = proc[q].unit /\ For(q, proc[q].unit)
<1>1. CASE q = p
  <2>1. Busy(p)' /\ Head(proc'[p].todo) = "write"
    BY <1>1 DEF At
  <2>2. Truncate(p)
    BY <2>1, StepGoes
  <2>3. proc'[p].unit = proc[p].unit
    BY <2>2, WriterGoes
  <2>4. For(p, proc[p].unit)
    BY <2>2, WriterIs DEF For, Truncate
  <2>q. QED
    BY <1>1, <2>2, <2>3, <2>4
<1>2. CASE q # p
  <2>1. proc'[q] = proc[q]
    BY <1>2, StepType
  <2>2. At(q, "write")
    BY <2>1 DEF At, Busy
  <2>3. For(q, proc[q].unit)
    BY <2>2, WriterIs DEF For
  <2>q. QED
    BY <1>2, <2>1, <2>2, <2>3
<1>q. QED
  BY <1>1, <1>2

\* What has been reported of a service while the one command for it goes on.
LEMMA OwnConfirmed ==
  ASSUME OwnSetFiles, TypeInv, TouchedOK, ContentOK, NEW W \in Worlds, Anchored(W),
         NEW p \in Processes, Step(p), NEW k, Key(k), NEW x, Confirmed(k, x), For(p, k[1]),
         Write(p) /\ proc[p].ask.cmd # "set" => k # <<proc[p].unit, <<>>>>,
         Check(p) => \/ k # <<proc[p].unit, <<proc[p].ask.var>>>>
                     \/ ~Says(OfFile(proc[p].unit), k, proc[p].ask.value)
  PROVE  Confirmed(k, x)'
<1> DEFINE d == k[1]
<1>1. touched' = touched /\ touched[d] <= 1 /\ d \in Definitions /\ k = <<d, k[2]>>
  BY TouchedKept, KeyIs DEF Confirmed
<1>2. \A q \in Processes : For(q, d) => q = p
  BY <1>1 DEF TouchedOK
<1>3. ASSUME NEW q \in Processes, At(q, "truncate") \/ At(q, "write") \/ At(q, "check"), proc[q].unit = d
      PROVE  q = p
  BY <1>2, <1>3, WriterIs DEF For
<1>4. ASSUME At(p, "truncate") \/ At(p, "write") \/ At(p, "check") PROVE proc[p].unit = d
  BY <1>4, WriterIs DEF For
<1>5. ASSUME NEW q \in Processes, At(q, "write")', proc'[q].unit = d
      PROVE  q = p /\ Truncate(p)
  <2>1. For(q, d)
    BY <1>5, NowWriting
  <2>2. q = p
    BY <1>2, <2>1
  <2>q. QED
    BY <1>5, <2>2, NowWriting
<1>6. CASE Truncate(p)
  <2>1. At(p, "truncate") /\ proc[p].unit = d
    BY <1>4, <1>6 DEF Truncate
  <2>2. ~At(p, "write") /\ ~At(p, "check")
    BY <2>1 DEF At
  <2>3. Says(OfFile(d), k, x)
    BY <1>3, <2>2 DEF Confirmed, Changing
  <2>4. Says(LoadServiceFile(Pending(p)', Dirs, d), k, x)
    BY <1>1, <1>6, <2>1, <2>3, TruncateSays
  <2>5. At(p, "write")' /\ proc'[p].unit = d
    BY <1>6, <2>1, WriterGoes DEF At
  <2>q. QED
    BY <1>1, <1>5, <2>4, <2>5 DEF Confirmed, Says
<1>7. CASE Write(p)
  <2>1. At(p, "write") /\ proc[p].unit = d
    BY <1>4, <1>7 DEF Write
  <2>2. Says(LoadServiceFile(Pending(p), Dirs, d), k, x)
    BY <2>1 DEF Confirmed
  <2>3. proc[p].ask.cmd # "set" => k[2] # <<>>
    BY <1>1, <1>7, <2>1
  <2>4. \/ Says(LoadServiceFile(files', Dirs, d), k, x)
        \/ /\ proc[p].ask.cmd = "set" /\ k[2] = <<proc[p].ask.var>>
           /\ Says(LoadServiceFile(files', Dirs, d), k, proc[p].ask.value)
    BY <1>7, <2>1, <2>2, <2>3, WriteSays
  <2>5. /\ Busy(p)' /\ proc'[p].ask = proc[p].ask /\ proc'[p].unit = d
        /\ proc[p].ask.cmd = "set" => Head(proc'[p].todo) = "check"
    BY <1>7, <2>1, WriterGoes
  <2>6. ~Truncate(p)
    BY <2>1 DEF Truncate, At
  <2>7. Says(OfFile(d)', k, x) \/ Changing(p, k)'
    BY <2>4, <2>5 DEF OfFile, Changing, At
  <2>8. \A q \in Processes : ~(At(q, "write")' /\ proc'[q].unit = d)
    BY <1>5, <2>6
  <2>q. QED
    BY <1>1, <2>7, <2>8 DEF Confirmed, Says
<1>8. CASE ~Truncate(p) /\ ~Write(p)
  <2>1. UNCHANGED files
    BY <1>8, FilesStep
  <2>2. \A q \in Processes : ~(At(q, "write")' /\ proc'[q].unit = d)
    BY <1>5, <1>8
  <2>3. Says(OfFile(d), k, x)
    <3>1. ~At(p, "write")
      BY <1>8 DEF Step, Load, ReadSetFile, Check, Rollout, Query, Control, ControlFails, NotFound,
         StopFirst, Scan, ListUnits, StopOne, StartOne, StartFails, At
    <3>2. ASSUME NEW q \in Processes, Changing(q, k) PROVE FALSE
      <4>1. q = p /\ At(p, "check") /\ proc[p].unit = d
        BY <1>3, <3>2 DEF Changing
      <4>2. Check(p)
        BY <1>8, <4>1 DEF Step, Load, ReadSetFile, Rollout, Query, Control, ControlFails, NotFound,
           StopFirst, Scan, ListUnits, StopOne, StartOne, StartFails, At
      <4>3. k[2] = <<proc[p].ask.var>> /\ Says(OfFile(d), k, proc[p].ask.value)
        BY <3>2, <4>1 DEF Changing
      <4>4. k = <<proc[p].unit, <<proc[p].ask.var>>>>
        BY <1>1, <4>1, <4>3
      <4>q. QED
        BY <4>1, <4>2, <4>3, <4>4
    <3>q. QED
      BY <1>3, <3>1, <3>2 DEF Confirmed
  <2>4. OfFile(d)' = OfFile(d)
    BY <2>1 DEF OfFile
  <2>q. QED
    BY <1>1, <2>2, <2>3, <2>4 DEF Confirmed, Says
<1>q. QED
  BY <1>6, <1>7, <1>8

\* What has been reported of a service when the one command for it is killed.
LEMMA KilledConfirmed ==
  ASSUME TypeInv, TouchedOK, NEW p \in Processes, Kill(p), NEW k \in DOMAIN said, Key(k),
         NEW x, Confirmed(k, x), For(p, k[1]), k \notin Unsettled(p)
  PROVE  Confirmed(k, x)'
<1> DEFINE d == k[1]
<1>1. /\ touched' = touched /\ touched[d] <= 1 /\ d \in Definitions /\ k = <<d, k[2]>>
      /\ files' = files
  BY KeyIs DEF Confirmed, Kill
<1>2. \A q \in Processes : For(q, d) => q = p
  BY <1>1 DEF TouchedOK
<1>3. ~At(p, "write") /\ ~(At(p, "check") /\ k[2] = <<proc[p].ask.var>>)
  BY DEF Unsettled, For
<1>4. ASSUME NEW q \in Processes, At(q, "write") \/ At(q, "check"), proc[q].unit = d
      PROVE  q = p
  BY <1>2, <1>4, WriterIs DEF For
<1>5. Says(OfFile(d), k, x)
  <2>1. ~\E q \in Processes : At(q, "write") /\ proc[q].unit = d
    BY <1>3, <1>4
  <2>2. ~\E q \in Processes : Changing(q, k)
    BY <1>3, <1>4 DEF Changing
  <2>q. QED
    BY <2>1, <2>2 DEF Confirmed
<1>6. ASSUME NEW q \in Processes, At(q, "write")', proc'[q].unit = d
      PROVE  FALSE
  <2>1. For(q, d)
    BY <1>6, NowWriting
  <2>2. q = p
    BY <1>2, <2>1
  <2>3. Truncate(p)
    BY <1>6, <2>2, NowWriting
  <2>4. files' # files \/ faults' = faults
    BY <2>3 DEF Truncate, Quietly
  <2>5. faults' = faults + 1 /\ faults \in Nat
    BY BoundsAssumption DEF Kill, Fault, TypeInv, CountsOK
  <2>q. QED
    BY <1>1, <2>4, <2>5
<1>7. OfFile(d)' = OfFile(d)
  BY <1>1 DEF OfFile
<1>q. QED
  BY <1>1, <1>5, <1>6, <1>7 DEF Confirmed, Says

\* What a command has reported is so.
LEMMA ReportConfirmed ==
  ASSUME OwnSetFiles, DecidesDisable, TypeInv, TouchedOK, NEW W \in Worlds, Anchored(W),
         NEW p \in Processes, Step(p), NEW k, NEW x, SaysDisabled(p, k, x) \/ SaysSet(p, k, x)
  PROVE  Key(k) /\ Confirmed(k, x)'
<1> DEFINE d == proc[p].unit
<1>1. At(p, "write") \/ At(p, "check")
  BY DEF SaysDisabled, SaysSet, Write, Check
<1>2. d \in Definitions /\ d = Target(proc[p].ask) /\ Busy(p) /\ proc[p].ask.var \in STRING
  BY <1>1, WriterIs DEF Asked
<1>3. Key(k) /\ k[1] = d
  <2>1. k = <<d, <<>>>> \/ k = <<d, <<proc[p].ask.var>>>>
    BY DEF SaysDisabled, SaysSet
  <2> HIDE DEF d
  <2>2. k[1] = d
    BY <2>1
  <2>3. Key(k)
    BY <1>2, <2>1 DEF Key
  <2>q. QED
    BY <2>2, <2>3
<1>4. touched' = touched /\ touched[d] <= 1
  BY TouchedKept DEF SaysDisabled, SaysSet
<1>5. ASSUME NEW q \in Processes, At(q, "write")', proc'[q].unit = d
      PROVE  FALSE
  <2>1. For(q, d) /\ For(p, d)
    BY <1>2, <1>5, NowWriting DEF For
  <2>2. q = p
    BY <1>2, <1>4, <2>1 DEF TouchedOK
  <2>3. Truncate(p)
    BY <1>5, <2>2, NowWriting
  <2>q. QED
    BY <1>1, <2>3 DEF Truncate, At
<1>6. Says(LoadServiceFile(files', Dirs, d), k, x)
  <2>1. CASE SaysDisabled(p, k, x)
    <3>1. LET s == LoadServiceFile(files', Dirs, d) IN s.ok /\ s.disable = x
      BY <2>1, DisableWritten DEF SaysDisabled
    <3>2. k[2] = <<>>
      BY <2>1 DEF SaysDisabled
    <3>q. QED
      BY <3>1, <3>2 DEF Says
  <2>2. CASE SaysSet(p, k, x)
    <3>1. UNCHANGED files
      BY <2>2 DEF SaysSet, Check
    <3>q. QED
      BY <2>2, <3>1 DEF SaysSet, OfFile
  <2>q. QED
    BY <2>1, <2>2
<1>q. QED
  BY <1>3, <1>4, <1>5, <1>6 DEF Confirmed, OfFile

LEMMA SaidStep ==
  ASSUME OwnSetFiles, DecidesDisable, TypeInv, TouchedOK, ContentOK, SaidOK, NEW W \in Worlds, Anchored(W),
         NEW p \in Processes, Step(p) \/ Kill(p)
  PROVE  SaidOK'
<1>1. ASSUME NEW k \in DOMAIN said', NEW x, x = said'[k]
      PROVE  Key(k) /\ Confirmed(k, x)'
  <2>1. CASE SaysDisabled(p, k, x) \/ SaysSet(p, k, x)
    <3>1. Step(p)
      BY <2>1 DEF SaysDisabled, SaysSet, Step
    <3>q. QED
      BY <2>1, <3>1, ReportConfirmed
  <2>2. CASE ~(SaysDisabled(p, k, x) \/ SaysSet(p, k, x))
    <3>1. /\ k \in DOMAIN said /\ said'[k] = said[k]
          /\ Kill(p) => k \notin Unsettled(p)
          /\ touched[k[1]] <= 1 =>
               /\ Write(p) /\ proc[p].ask.cmd # "set" => k # <<proc[p].unit, <<>>>>
               /\ Check(p) => \/ k # <<proc[p].unit, <<proc[p].ask.var>>>>
                              \/ ~Says(OfFile(proc[p].unit), k, proc[p].ask.value)
      BY <1>1, <2>2, SaidChanges
    <3>2. Key(k) /\ Confirmed(k, x)
      BY <1>1, <3>1 DEF SaidOK
    <3>3. k[1] \in Definitions /\ touched[k[1]] <= 1
      BY <3>2, KeyIs DEF Confirmed
    <3>4. Confirmed(k, x)'
      <4>1. CASE ~For(p, k[1])
        BY <3>2, <3>3, <4>1, OthersConfirmed
      <4>2. CASE For(p, k[1])
        <5>1. CASE Step(p)
          BY <3>1, <3>2, <3>3, <4>2, <5>1, OwnConfirmed
        <5>2. CASE Kill(p)
          BY <3>1, <3>2, <4>2, <5>2, KilledConfirmed
        <5>q. QED
          BY <5>1, <5>2
      <4>q. QED
        BY <4>1, <4>2
    <3>q. QED
      BY <3>2, <3>4
  <2>q. QED
    BY <2>1, <2>2
<1>2. ASSUME NEW k \in DOMAIN said'
      PROVE  Key(k)' /\ Confirmed(k, said[k])'
  <2>1. PICK x : x = said'[k]
    OBVIOUS
  <2>2. Key(k) /\ Confirmed(k, x)'
    BY <1>1, <1>2, <2>1
  <2>3. Confirmed(k, said[k])'
    BY <2>1, <2>2 DEF Confirmed, Changing, Says
  <2>q. QED
    BY <2>2, <2>3 DEF Key, Definitions, Entries
<1>q. QED
  BY <1>2 DEF SaidOK

\* A command that begins is the only one for its service, or nothing is counted on.
LEMMA SaidBegin ==
  ASSUME TypeInv, SaidOK, NEW p \in Processes, NEW c \in Commands, Begin(p, c)
  PROVE  SaidOK'
<1>1. ASSUME NEW k \in DOMAIN said', NEW x, x = said'[k]
      PROVE  Key(k) /\ Confirmed(k, x)'
  <2> DEFINE d == k[1]
             others == \E q \in Processes : Busy(q)
             before == IF others THEN touched ELSE [e \in Definitions |-> 0]
  <2>1. said' = IF Target(c) # None /\ before[Target(c)] > 0 THEN Except(Target(c)) ELSE said
    BY DEF Begin
  <2>2. /\ k \in DOMAIN said /\ said'[k] = said[k]
        /\ Target(c) = d /\ Target(c) # None => ~(before[Target(c)] > 0)
    <3> HIDE DEF before
    <3>q. QED
      BY <2>1 DEF Except
  <2>3. Key(k) /\ Confirmed(k, x)
    BY <1>1, <2>2 DEF SaidOK
  <2>4. d \in Definitions /\ touched[d] <= 1 /\ touched[d] \in Nat /\ d # None
    BY <2>3, KeyIs, NoneIsNone DEF Confirmed, TypeInv, CountsOK
  <2>5. touched'[d] <= 1
    <3>1. CASE others
      BY <2>2, <2>4, <3>1, BeginTouched
    <3>2. CASE ~others
      BY <2>4, <3>2, BeginTouched
    <3>q. QED
      BY <3>1, <3>2
  <2>6. UNCHANGED files /\ ~Busy(p) /\ Head(proc'[p].todo) # "write"
    BY BeginGoes
  <2>7. ASSUME NEW q \in Processes, Busy(q) \/ At(q, "write")' PROVE proc'[q] = proc[q]
    BY <2>6, <2>7, BeginType DEF At
  <2>8. \A q \in Processes : At(q, "write")' /\ proc'[q].unit = d =>
          Says(LoadServiceFile(Pending(q)', Dirs, d), k, x)
    <3>1. SUFFICES ASSUME NEW q \in Processes, At(q, "write")', proc'[q].unit = d
                   PROVE  Says(LoadServiceFile(Pending(q)', Dirs, d), k, x)
      OBVIOUS
    <3>2. proc'[q] = proc[q]
      BY <2>7, <3>1
    <3>3. At(q, "write") /\ proc[q].unit = d
      BY <3>1, <3>2 DEF At, Busy
    <3>4. Pending(q)' = Pending(q)
      BY <2>6, <3>2 DEF Pending
    <3>q. QED
      BY <2>3, <3>3, <3>4 DEF Confirmed
  <2>9. ASSUME NEW q \in Processes, At(q, "write"), proc[q].unit = d
        PROVE  At(q, "write")' /\ proc'[q].unit = d
    <3>1. proc'[q] = proc[q]
      BY <2>7, <2>9 DEF At
    <3>q. QED
      BY <2>9, <3>1 DEF At, Busy
  <2>10. OfFile(d)' = OfFile(d)
    BY <2>6 DEF OfFile
  <2>11. ASSUME NEW q \in Processes, Changing(q, k)
         PROVE  Changing(q, k)'
    <3>1. proc'[q] = proc[q]
      BY <2>7, <2>11 DEF Changing, At
    <3>q. QED
      BY <2>10, <2>11, <3>1 DEF Changing, At, Busy, Says
  <2>q. QED
    BY <2>3, <2>5, <2>8, <2>9, <2>10, <2>11 DEF Confirmed, Says
<1>2. ASSUME NEW k \in DOMAIN said'
      PROVE  Key(k)' /\ Confirmed(k, said[k])'
  <2>1. PICK x : x = said'[k]
    OBVIOUS
  <2>2. Key(k) /\ Confirmed(k, x)'
    BY <1>1, <1>2, <2>1
  <2>3. Confirmed(k, said[k])'
    BY <2>1, <2>2 DEF Confirmed, Changing, Says
  <2>q. QED
    BY <2>2, <2>3 DEF Key, Definitions, Entries
<1>q. QED
  BY <1>2 DEF SaidOK

\* The inductive invariant.
ReportInv == SeparateInv /\ ContentOK /\ SaidOK

LEMMA InitReport == Init => ReportInv
<1> SUFFICES ASSUME Init PROVE ReportInv
  OBVIOUS
<1>1. SeparateInv
  BY InitSeparate
<1>2. \A p \in Processes : ~Busy(p)
  BY DEF Init, Busy, NoCommand
<1>3. DOMAIN said = {}
  BY DEF Init
<1>q. QED
  BY <1>1, <1>2, <1>3 DEF ReportInv, ContentOK, SaidOK, At

LEMMA NextReport ==
  ASSUME OwnSetFiles, DecidesDisable, ReportInv, [Next]_vars
  PROVE  ReportInv'
<1>1. SeparateInv'
  BY NextSeparate DEF ReportInv
<1>2. PICK W \in Worlds : Anchored(W)
  BY DEF ReportInv, SeparateInv
<1>3. ASSUME NEW p \in Processes, Step(p) \/ Kill(p) PROVE ContentOK' /\ SaidOK'
  BY <1>2, <1>3, ContentStep, SaidStep DEF ReportInv, SeparateInv
<1>4. ASSUME NEW p \in Processes, NEW c \in Commands, Begin(p, c) PROVE ContentOK' /\ SaidOK'
  BY <1>4, ContentBegin, SaidBegin DEF ReportInv, SeparateInv
<1>5. ASSUME UNCHANGED vars PROVE ContentOK' /\ SaidOK'
  <2>1. \A d : OfFile(d)' = OfFile(d)
    BY <1>5 DEF vars, OfFile
  <2>2. \A p : Pending(p)' = Pending(p)
    BY <1>5 DEF vars, Pending
  <2>3. ContentOK'
    BY <1>5 DEF vars, ReportInv, ContentOK, At, Busy, Base
  <2>4. \A k : Key(k)' = Key(k)
    BY DEF Key, Definitions, Entries
  <2>5. \A k, x : Confirmed(k, x)' = Confirmed(k, x)
    BY <1>5, <2>1, <2>2 DEF vars, Confirmed, Changing, Says, At, Busy
  <2>6. \A k \in DOMAIN said' : Confirmed(k, said[k])'
    <3>1. SUFFICES ASSUME NEW k \in DOMAIN said' PROVE Confirmed(k, said[k])'
      OBVIOUS
    <3>2. PICK x : x = said'[k]
      OBVIOUS
    <3>3. k \in DOMAIN said /\ x = said[k]
      BY <1>5, <3>2 DEF vars
    <3>4. Confirmed(k, x)'
      BY <2>5, <3>3 DEF ReportInv, SaidOK
    <3>q. QED
      BY <3>2, <3>4 DEF Confirmed, Changing, Says
  <2>7. \A k \in DOMAIN said' : Key(k)
    BY <1>5 DEF vars, ReportInv, SaidOK
  <2>q. QED
    BY <2>3, <2>4, <2>6, <2>7 DEF SaidOK
<1>q. QED
  BY <1>1, <1>3, <1>4, <1>5 DEF Next, ReportInv

LEMMA ReportedIsSo == ReportInv => AcknowledgedApplied
<1> SUFFICES ASSUME ReportInv, \A p \in Processes : ~Busy(p), NEW k \in DOMAIN said
             PROVE  LET s == OfFile(k[1]) IN
                    s.ok /\ said[k] = IF k[2] = <<>> THEN s.disable ELSE s.config[k[2][1]]
  BY DEF AcknowledgedApplied
<1> DEFINE s == OfFile(k[1])
<1>1. Key(k) /\ Confirmed(k, said[k])
  BY DEF ReportInv, SaidOK
<1>2. Says(s, k, said[k])
  BY <1>1 DEF Confirmed, Changing, At
<1> HIDE DEF s
<1>3. CASE k[2] = <<>>
  BY <1>2, <1>3 DEF Says, s
<1>4. ASSUME NEW v \in STRING, k[2] = <<v>>
      PROVE  s.ok /\ said[k] = s.config[k[2][1]] /\ k[2] # <<>>
  <2>1. s.ok /\ ValueIn(s.config, v) = <<said[k]>>
    BY <1>2, <1>4 DEF Says
  <2>2. s.config[v] = said[k]
    BY <2>1 DEF ValueIn
  <2>q. QED
    BY <1>4, <2>1, <2>2
<1>q. QED
  BY <1>1, <1>3, <1>4, KeyIs DEF s

\* What "enable", "disable" and "config set" have reported stays so, through all commands
\* that follow (service.go:140, 497), if no service is configured in a file of another one
\* and no other file overrides what is written of it being disabled.
THEOREM ReportsHold == OwnSetFiles /\ DecidesDisable => (Spec => []AcknowledgedApplied)
<1> SUFFICES ASSUME OwnSetFiles, DecidesDisable PROVE Spec => []AcknowledgedApplied
  OBVIOUS
<1>1. Init => ReportInv
  BY InitReport
<1>2. ReportInv /\ [Next]_vars => ReportInv'
  BY NextReport
<1>q. QED
  BY <1>1, <1>2, ReportedIsSo, PTL DEF Spec
=============================================================================
