----------------------------- MODULE MCServices -----------------------------
(* Two services, each found under its name, one of them under a second name in
   a later directory, which has an entry that is no service too; the first is
   configured in a file of its own.                                        *)
EXTENDS Services

TwoDirs == <<[a |-> "own", b |-> "other"], [alias |-> "own", b |-> "hidden", none |-> None]>>
AllDirOf == ("own" :> "/own") @@ ("set" :> "/own") @@ ("other" :> "/other") @@ ("hidden" :> "/hidden")
NoPrints == <<>>
NoDots == <<>>

File == NoContent
SetByFile == <<[path |-> "set", ignoreError |-> TRUE, setConfig |-> TRUE]>>
Host(h) == <<[hostname |-> h]>>

AllWorlds ==
  {("own" :> [File EXCEPT !.inherit = SetByFile, !.conditions = w[1], !.autoRestart = w[2]]) @@ ("set" :> w[3])
     @@ ("other" :> w[4]) @@ ("hidden" :> w[5]) :
   w \in {<<None, None, Missing, [File EXCEPT !.disable = TRUE], File>>,
          <<None, FALSE, [File EXCEPT !.disable = TRUE], File, Missing>>,
          <<Host("there"), FALSE, Missing, Broken, File>>}}

Cmd(cmd, name) == [cmd |-> cmd, name |-> name, mode |-> "", now |-> FALSE, noReload |-> FALSE,
                   inclusive |-> FALSE, var |-> "", value |-> ""]
Set(name, value, noReload) ==
  [Cmd("set", name) EXCEPT !.var = "x", !.value = value, !.noReload = noReload]
AllCommands ==
  {[Cmd("enable", "b") EXCEPT !.now = TRUE], Cmd("enable", "a"), Cmd("disable", "a"),
   Set("alias", "1", FALSE), Set("a", "2", TRUE),
   Cmd("reloadAll", ""), [Cmd("reloadAll", "") EXCEPT !.inclusive = TRUE],
   Cmd("start", "a"), [Cmd("restart", "a") EXCEPT !.mode = "background"], Cmd("restart", "a"),
   [Cmd("reload", "a") EXCEPT !.mode = "foreground"], Cmd("stop", "a"), Cmd("stop", "none"),
   Cmd("rollingRestart", "a"), [Cmd("disable", "b") EXCEPT !.now = TRUE]}
ASSUME WorldsAreSeparate == OwnSetFiles /\ DecidesDisable
Symmetry == Permutations(Processes)
=============================================================================
