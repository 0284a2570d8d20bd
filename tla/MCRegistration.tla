--------------------------- MODULE MCRegistration ---------------------------
(* A service, whose item is the route with the arrays "upstreams" and "hosts"
   inside, and its deployments.                                            *)
EXTENDS Registration, TLC

An(key, val, mount) == [mount |-> mount, key |-> key, val |-> val, only |-> FALSE]

TwoDeployments == {"svc", "d1", "d2"}
ServiceOfOne == ("svc" :> None) @@ ("d1" :> "svc")
ServiceOfTwo == ServiceOfOne @@ ("d2" :> "svc")

Arrays == {"server", "upstreams", "hosts"}
HostsInRoute ==
  [m \in Arrays |-> IF m \in {"upstreams", "hosts"} THEN "route" ELSE None]

Hosts == {"host1", "host2"}

OneDeployment == {"svc", "d1"}
Route == "svc" :> <<An("route", "svc", "server")>>
Deployment1 == "d1" :> <<An("up1", "d1", "upstreams"), An("host1", "", "hosts")>>
Deployment2 == "d2" :> <<An("up2", "d2", "upstreams"), An("host2", "", "hosts")>>

OfOne == Route @@ Deployment1
OfTwo == Route @@ Deployment1 @@ Deployment2

\* The default items of two deployments of a part: CaddyConfigName(...).upstream.
SameId ==
  Route @@ ("d1" :> <<An("up", "d1", "upstreams")>>)
        @@ ("d2" :> <<An("up", "d2", "upstreams")>>)
=============================================================================
