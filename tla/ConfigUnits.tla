---------------------------- MODULE ConfigUnits -----------------------------
(***************************************************************************)
(* What configuration units promise: a set of registered items that units  *)
(* change one item at a time, each its own and only on the way up or down. *)
(* A unit that is up has all its items registered, one that is down none.  *)
(***************************************************************************)
CONSTANTS Units, Items, Home

VARIABLES there, state

vars == <<there, state>>

Owned(u) == {Items[u][k] : k \in DOMAIN Items[u]}

\* What an item takes with it when it is replaced or removed.
Within(i) == {j \in UNION {Owned(u) : u \in Units} : Home[j.mount] = i.key}

Init ==
  /\ there = {}
  /\ state = [u \in Units |-> "down"]

Change(u) ==
  /\ state[u] \in {"up", "down"}
  /\ state' = [state EXCEPT ![u] = "changing"]
  /\ UNCHANGED there

Put(u, i) ==
  /\ state[u] = "changing"
  /\ there' = (there \ Within(i)) \union {i}
  /\ UNCHANGED state

Take(u, i) ==
  /\ state[u] = "changing"
  /\ there' = (there \ Within(i)) \ {i}
  /\ UNCHANGED state

ComeUp(u) ==
  /\ state[u] = "changing" /\ Owned(u) \subseteq there
  /\ state' = [state EXCEPT ![u] = "up"]
  /\ UNCHANGED there

GoDown(u) ==
  /\ state[u] = "changing" /\ Owned(u) \intersect there = {}
  /\ state' = [state EXCEPT ![u] = "down"]
  /\ UNCHANGED there

\* Caddy restarts: nothing is registered and nothing is up.
Forget ==
  /\ there' = {}
  /\ state' = [u \in Units |-> IF state[u] = "up" THEN "changing" ELSE state[u]]

\* Nothing that a unit that is up relies on is taken away.
KeepsWord == \A u \in Units : state[u] = "up" /\ state'[u] = "up" => Owned(u) \subseteq there'

Next ==
  \/ Forget
  \/ /\ KeepsWord
     /\ \E u \in Units :
          \/ Change(u) \/ ComeUp(u) \/ GoDown(u)
          \/ \E i \in Owned(u) : Put(u, i) \/ Take(u, i)

Spec == Init /\ [][Next]_vars
=============================================================================
