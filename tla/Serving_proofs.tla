--------------------------- MODULE Serving_proofs ---------------------------
(***************************************************************************)
(* However many connections come, ask, keep quiet and leave, and however   *)
(* often servers are started for them: the timer of the API server runs    *)
(* exactly while nothing is asked, and without a signal it drops only who  *)
(* came when it had fired.                                                 *)
(***************************************************************************)
EXTENDS Serving, FiniteSetTheorems, SequenceTheorems, WellFoundedInduction, TLAPS

Busy == {"new", "active"}
Held == Accepted \union {"queued"}
States == Held \union {"none", "waiting", "answered", "closed", "aborted"}

(***************************************************************************)
(* The inductive invariant                                                 *)
(***************************************************************************)
ConnInv ==
  /\ conn \in [Clients -> States]
  /\ server = "off" => In(Held) = {}
  /\ kind # "stdio" => In({"queued"}) = {}
  /\ kind \in Single => \A c, d \in In(Held) : c = d

ProcessInv ==
  /\ kind \in Kinds /\ server \in {"off", "serving", "woken", "closing"}
  /\ late \subseteq Clients
  /\ timer \in {"running", "stopped", "fired"} /\ term \in BOOLEAN
  /\ "at" \in DOMAIN program /\ program.at \in {"none", "run", "headers", "written"}
  /\ requests \in 0..MaxRequests /\ signals \in 0..MaxSignals
  /\ term = TRUE => signals > 0

\* The tracker has exactly the busy connections of the API server, and of no other one.
TrackerInv ==
  /\ kind # "api" \/ server = "off" => tracked = {}
  /\ kind = "api" /\ server # "off" =>
       tracked = In(Busy) /\ (timer \in {"running", "fired"} <=> tracked = {})

\* Which servers end without a signal, and with whom.
DroppedInv ==
  signals = 0 =>
    /\ \A c \in In({"aborted"}) : c \in late \/ kind \in Cgis
    /\ kind = "api" /\ server \in {"woken", "closing"} => In(Busy) \subseteq late
    /\ kind = "stdio" => server # "woken" /\ (server = "closing" => In(Held) = {})
    /\ kind \notin Cgis \union {"api", "stdio"} => server \notin {"woken", "closing"}

ServingInv == ConnInv /\ ProcessInv /\ TrackerInv /\ DroppedInv

-----------------------------------------------------------------------------
\* What ConnState does to the connections and to the tracker.
LEMMA ConnStateFacts ==
  ASSUME ConnInv, TrackerInv, server # "off", NEW c \in Clients, NEW state \in States, ConnState(c, state),
         kind' = kind
  PROVE  /\ conn' = [conn EXCEPT ![c] = state]
         /\ conn'[c] = state /\ \A d \in Clients \ {c} : conn'[d] = conn[d]
         /\ kind # "api" => tracked' = tracked /\ timer' = timer
         /\ kind = "api" => tracked' = In(Busy)' /\ (timer' \in {"running", "fired"} <=> tracked' = {})
         /\ timer \in {"running", "stopped", "fired"} => timer' \in {"running", "stopped", "fired"}
<1>1. /\ conn' = [conn EXCEPT ![c] = state]
      /\ conn'[c] = state /\ \A d \in Clients \ {c} : conn'[d] = conn[d]
  BY DEF ConnState, ConnInv
<1>2. CASE kind # "api"
  BY <1>1, <1>2 DEF ConnState
<1>3. CASE kind = "api"
  <2> DEFINE now == IF state \in Busy THEN tracked \union {c} ELSE tracked \ {c}
  <2>1. tracked = In(Busy) /\ (timer \in {"running", "fired"} <=> tracked = {})
    BY <1>3 DEF TrackerInv
  <2>2. /\ tracked' = now
        /\ timer' = CASE tracked = {} /\ now # {} -> "stopped"
                      [] tracked # {} /\ now = {} -> "running"
                      [] OTHER -> timer
    BY <1>3 DEF ConnState, Busy
  <2>3. now = In(Busy)'
    BY <1>1, <2>1 DEF In
  <2> HIDE DEF now
  <2>4. timer' \in {"running", "fired"} <=> tracked' = {}
    BY <2>1, <2>2
  <2>5. timer \in {"running", "stopped", "fired"} => timer' \in {"running", "stopped", "fired"}
    BY <2>2
  <2> QED
    BY <1>1, <1>3, <2>2, <2>3, <2>4, <2>5
<1> QED
  BY <1>2, <1>3

\* Two connections at most once: what TypeOK says of them.
LEMMA AtMostOne ==
  ASSUME NEW S, \A c, d \in S : c = d
  PROVE  Cardinality(S) <= 1
<1>1. CASE S = {}
  BY <1>1, FS_EmptySet
<1>2. CASE S # {}
  <2>1. PICK c \in S : TRUE
    BY <1>2
  <2>2. S = {c}
    BY <2>1
  <2>3. Cardinality({c}) = 1
    BY FS_Singleton
  <2> QED
    BY <2>2, <2>3
<1> QED
  BY <1>1, <1>2

-----------------------------------------------------------------------------
LEMMA ServingInit == Init => ServingInv
<1> SUFFICES ASSUME Init PROVE ServingInv
  OBVIOUS
<1>1. conn \in [Clients -> States] /\ \A c \in Clients : conn[c] = "none"
  BY DEF Init, States
<1>2. In(Held) = {} /\ In({"queued"}) = {} /\ In({"aborted"}) = {}
  BY <1>1 DEF In, Held, Accepted
<1>3. "at" \in DOMAIN program /\ program.at = "none"
  BY DEF Init, NoProgram
<1>4. term \in BOOLEAN /\ term # TRUE
  BY DEF Init
<1>5. requests \in 0..MaxRequests /\ signals \in 0..MaxSignals
  BY BoundsAssumption DEF Init
<1>6. ConnInv
  BY <1>1, <1>2 DEF ConnInv
<1>7. ProcessInv
  BY <1>3, <1>4, <1>5 DEF ProcessInv, Init
<1>8. TrackerInv /\ DroppedInv
  BY <1>2 DEF TrackerInv, DroppedInv, Init
<1> QED
  BY <1>6, <1>7, <1>8 DEF ServingInv

-----------------------------------------------------------------------------
LEMMA ProcessStep == ConnInv /\ ProcessInv /\ [Next]_vars => ProcessInv'
<1> SUFFICES ASSUME ConnInv, ProcessInv, [Next]_vars PROVE ProcessInv'
  OBVIOUS
<1> USE BoundsAssumption DEF ProcessInv, Counters, Rest, CgiRest, Cgi
<1>1. CASE Activate
  BY <1>1 DEF Activate
<1>2. CASE Exit
  BY <1>2 DEF Exit, NoProgram
<1>3. CASE Fires \/ Shutdown \/ AcceptFails \/ Kill
  BY <1>3 DEF Fires, Shutdown, AcceptFails, Kill
<1>4. CASE StartProgram
  BY <1>4 DEF StartProgram
<1>5. CASE NoRequest \/ Wait
  BY <1>5 DEF NoRequest, Wait
<1>6. CASE ReadHeaders
  <2>1. "at" \in DOMAIN program' /\ program'.at = "headers"
    BY <1>6 DEF ReadHeaders
  <2> QED
    BY <1>6, <2>1 DEF ReadHeaders
<1>7. CASE WriteCGIResponse
  <2>1. "at" \in DOMAIN program' /\ program'.at = "written"
    BY <1>7 DEF WriteCGIResponse
  <2> QED
    BY <1>7, <2>1 DEF WriteCGIResponse
<1>8. CASE Terminate
  BY <1>8 DEF Terminate
<1>9. CASE \E c \in Clients : Connect(c) \/ Accept(c) \/ Respond(c) \/ Request(c) \/ HangUp(c)
  <2>1. PICK c \in Clients : Connect(c) \/ Accept(c) \/ Respond(c) \/ Request(c) \/ HangUp(c)
    BY <1>9
  <2>2. CASE Connect(c)
    BY <2>2 DEF Connect
  <2>3. CASE Accept(c)
    BY <2>3 DEF Accept, ConnState
  <2>4. CASE Respond(c)
    BY <2>4 DEF Respond, ConnState
  <2>5. CASE Request(c)
    BY <2>5 DEF Request, ConnState
  <2>6. CASE HangUp(c)
    BY <2>6 DEF HangUp, ConnState
  <2> QED
    BY <2>1, <2>2, <2>3, <2>4, <2>5, <2>6
<1>10. CASE UNCHANGED vars
  BY <1>10 DEF vars
<1> QED
  BY <1>1, <1>2, <1>3, <1>4, <1>5, <1>6, <1>7, <1>8, <1>9, <1>10 DEF Next, System, CgiStep

LEMMA ConnStep == ConnInv /\ TrackerInv /\ [Next]_vars => ConnInv'
<1> SUFFICES ASSUME ConnInv, TrackerInv, [Next]_vars PROVE ConnInv'
  OBVIOUS
<1> USE DEF Held, Accepted, States, Busy
<1>1. CASE Activate
  <2>1. server = "off" /\ server' = "serving" /\ kind' = kind
    BY <1>1 DEF Activate, Counters
  <2>2. PICK c \in In({"waiting"}) :
          conn' = IF kind \in Single
                  THEN [conn EXCEPT ![c] = IF kind = "stdio" THEN "queued" ELSE "active"] ELSE conn
    BY <1>1 DEF Activate
  <2>3. c \in Clients
    BY <2>2 DEF In
  <2>4. CASE kind \in Single
    <3>1. conn' \in [Clients -> States]
      BY <2>2, <2>3, <2>4 DEF ConnInv
    <3>2. \A d \in Clients \ {c} : conn'[d] = conn[d]
      BY <2>2, <2>3, <2>4 DEF ConnInv
    <3>3. In(Held)' \subseteq {c}
      BY <2>1, <3>2 DEF ConnInv, In
    <3>4. kind # "stdio" => conn'[c] = "active"
      BY <2>2, <2>3, <2>4 DEF ConnInv
    <3> QED
      BY <2>1, <2>3, <3>1, <3>2, <3>3, <3>4 DEF ConnInv, In
  <2>5. CASE kind \notin Single
    BY <2>1, <2>2, <2>5 DEF ConnInv, In
  <2> QED
    BY <2>4, <2>5
<1>2. CASE Exit
  <2>1. kind' = kind /\ conn' \in [Clients -> States]
    BY <1>2 DEF Exit, Counters, ConnInv
  <2>2. In(Held)' = {}
    BY <1>2 DEF Exit, In, ConnInv
  <2> QED
    BY <2>1, <2>2 DEF ConnInv, In
<1>3. CASE Fires \/ Shutdown \/ AcceptFails \/ Kill \/ StartProgram \/ NoRequest \/ ReadHeaders \/ Wait
  <2>1. UNCHANGED <<kind, conn>> /\ server' # "off"
    BY <1>3 DEF Fires, Shutdown, AcceptFails, Kill, StartProgram, NoRequest, ReadHeaders, Wait, Counters, CgiRest, Cgi
  <2> QED
    BY <2>1 DEF ConnInv, In
<1>4. CASE WriteCGIResponse
  <2>1. kind' = kind /\ server' # "off"
    BY <1>4 DEF WriteCGIResponse, CgiRest, Cgi
  <2>2. /\ conn' \in [Clients -> States]
        /\ \A c \in Clients : conn'[c] = conn[c] \/ (conn[c] = "active" /\ conn'[c] = "answered")
    BY <1>4 DEF WriteCGIResponse, ConnInv
  <2>3. In(Held)' \subseteq In(Held) /\ In({"queued"})' = In({"queued"})
    BY <2>2 DEF In
  <2> QED
    BY <2>1, <2>2, <2>3 DEF ConnInv
<1>5. CASE Terminate
  <2>1. UNCHANGED <<kind, conn>> /\ server' # "off"
    BY <1>5 DEF Terminate
  <2> QED
    BY <2>1 DEF ConnInv, In
<1>6. ASSUME NEW c \in Clients, Connect(c)
      PROVE  ConnInv'
  <2>1. /\ conn[c] = "none" /\ conn' = [conn EXCEPT ![c] = "waiting"] /\ UNCHANGED <<kind, server>>
    BY <1>6 DEF Connect, Rest, Counters
  <2>2. conn' \in [Clients -> States]
    BY <2>1 DEF ConnInv
  <2>3. In(Held)' = In(Held) /\ In({"queued"})' = In({"queued"})
    BY <2>1 DEF In, ConnInv
  <2> QED
    BY <2>1, <2>2, <2>3 DEF ConnInv
<1>7. ASSUME NEW c \in Clients, Accept(c) \/ Respond(c) \/ Request(c) \/ HangUp(c)
      PROVE  ConnInv'
  <2>1. PICK state \in Accepted \union {"closed"} : ConnState(c, state)
    BY <1>7 DEF Accept, Respond, Request, HangUp
  <2>2. c \in In(Held) \/ (kind \notin Single /\ server # "off")
    BY <1>7 DEF Accept, Respond, Request, HangUp, In, Single
  <2>3. server # "off" /\ kind' = kind
    BY <1>7, <2>2 DEF Accept, Respond, Request, HangUp, Rest, Counters, ConnInv
  <2>4. server' # "off"
    BY <1>7, <2>3 DEF Accept, Respond, Request, HangUp, Rest
  <2>5. conn' = [conn EXCEPT ![c] = state] /\ conn'[c] = state /\ \A d \in Clients \ {c} : conn'[d] = conn[d]
    BY <2>1, <2>3, ConnStateFacts
  <2>6. conn' \in [Clients -> States]
    BY <2>5 DEF ConnInv
  <2>7. In({"queued"})' \subseteq In({"queued"}) /\ In(Held)' \subseteq In(Held) \union {c}
    BY <2>5 DEF In
  <2>8. kind \in Single => In(Held)' \subseteq In(Held)
    BY <2>2, <2>7
  <2> QED
    BY <2>3, <2>4, <2>6, <2>7, <2>8 DEF ConnInv
<1>8. CASE UNCHANGED vars
  BY <1>8 DEF vars, ConnInv, In
<1> QED
  BY <1>1, <1>2, <1>3, <1>4, <1>5, <1>6, <1>7, <1>8 DEF Next, System, CgiStep

LEMMA TrackerStep == ConnInv /\ ProcessInv /\ TrackerInv /\ [Next]_vars => TrackerInv'
<1> SUFFICES ASSUME ConnInv, ProcessInv, TrackerInv, [Next]_vars PROVE TrackerInv'
  OBVIOUS
<1>1. CASE Activate
  <2>1. /\ server = "off" /\ server' = "serving" /\ kind' = kind
        /\ tracked' = {} /\ timer' = "running"
    BY <1>1 DEF Activate, Counters
  <2>2. kind = "api" => conn' = conn
    BY <1>1 DEF Activate, Single, Cgis
  <2>3. kind = "api" => In(Busy)' = {}
    BY <2>1, <2>2 DEF In, Busy, Held, Accepted, ConnInv
  <2> QED
    BY <2>1, <2>3 DEF TrackerInv
<1>2. CASE Exit
  BY <1>2 DEF Exit, Counters, TrackerInv
<1>3. CASE Fires
  BY <1>3 DEF Fires, Counters, TrackerInv, In
<1>4. CASE Shutdown \/ AcceptFails \/ Kill \/ StartProgram \/ NoRequest \/ ReadHeaders \/ Wait
  <2>1. UNCHANGED <<kind, conn, tracked, timer>> /\ server # "off"
    BY <1>4 DEF Shutdown, AcceptFails, Kill, StartProgram, NoRequest, ReadHeaders, Wait, Counters, CgiRest, Cgi
  <2>2. server' # "off"
    BY <1>4 DEF Shutdown, AcceptFails, Kill, StartProgram, NoRequest, ReadHeaders, Wait, Cgi
  <2> QED
    BY <2>1, <2>2 DEF TrackerInv, In
<1>5. CASE WriteCGIResponse
  BY <1>5 DEF WriteCGIResponse, CgiRest, Cgi, Cgis, TrackerInv
<1>6. CASE Terminate
  <2>1. UNCHANGED <<kind, conn, tracked, timer>> /\ server # "off" /\ server' # "off"
    BY <1>6 DEF Terminate
  <2> QED
    BY <2>1 DEF TrackerInv, In
<1>7. ASSUME NEW c \in Clients, Connect(c)
      PROVE  TrackerInv'
  <2>1. /\ conn[c] = "none" /\ conn' = [conn EXCEPT ![c] = "waiting"]
        /\ UNCHANGED <<kind, server, tracked, timer>>
    BY <1>7 DEF Connect, Rest, Counters
  <2>2. In(Busy)' = In(Busy)
    BY <2>1 DEF In, Busy, ConnInv
  <2> QED
    BY <2>1, <2>2 DEF TrackerInv
<1>8. ASSUME NEW c \in Clients, Accept(c) \/ Respond(c) \/ Request(c) \/ HangUp(c)
      PROVE  TrackerInv'
  <2>1. PICK state \in Accepted \union {"closed"} : ConnState(c, state)
    BY <1>8 DEF Accept, Respond, Request, HangUp, Accepted
  <2>2. c \in In(Held) \/ server # "off"
    BY <1>8 DEF Accept, Respond, Request, HangUp, In, Held, Accepted
  <2>3. server # "off" /\ kind' = kind
    BY <1>8, <2>2 DEF Accept, Respond, Request, HangUp, Rest, Counters, ConnInv
  <2>4. server' # "off"
    BY <1>8, <2>3 DEF Accept, Respond, Request, HangUp, Rest
  <2>5. state \in States
    BY <2>1 DEF States, Held
  <2>6. /\ kind # "api" => tracked' = tracked
        /\ kind = "api" => tracked' = In(Busy)' /\ (timer' \in {"running", "fired"} <=> tracked' = {})
    BY <2>1, <2>3, <2>5, ConnStateFacts
  <2> QED
    BY <2>3, <2>4, <2>6 DEF TrackerInv
<1>9. CASE UNCHANGED vars
  BY <1>9 DEF vars, TrackerInv, In
<1> QED
  BY <1>1, <1>2, <1>3, <1>4, <1>5, <1>6, <1>7, <1>8, <1>9 DEF Next, System, CgiStep

LEMMA DroppedStep ==
  ConnInv /\ ProcessInv /\ TrackerInv /\ DroppedInv /\ [Next]_vars => DroppedInv'
<1> SUFFICES ASSUME ConnInv, ProcessInv, TrackerInv, DroppedInv, [Next]_vars, signals' = 0
             PROVE  DroppedInv'
  BY DEF DroppedInv
<1>1. CASE Activate
  <2>1. server' = "serving" /\ UNCHANGED <<kind, late, signals>>
    BY <1>1 DEF Activate, Counters
  <2>2. In({"aborted"})' \subseteq In({"aborted"})
    BY <1>1 DEF Activate, In, ConnInv
  <2> QED
    BY <2>1, <2>2 DEF DroppedInv
<1>2. CASE Exit
  <2>1. server = "closing" /\ server' = "off" /\ UNCHANGED <<kind, late, signals>>
    BY <1>2 DEF Exit, Counters
  <2>2. In({"aborted"})' \subseteq In({"aborted"}) \union In({"queued"}) \union In(Busy)
    BY <1>2 DEF Exit, In, Busy
  <2>3. CASE kind = "api"
    BY <2>1, <2>2, <2>3 DEF DroppedInv, ConnInv
  <2>4. CASE kind = "stdio"
    <3>1. In({"queued"}) \union In(Busy) \subseteq In(Held)
      BY DEF In, Busy, Held, Accepted
    <3> QED
      BY <2>1, <2>2, <2>4, <3>1 DEF DroppedInv
  <2>5. CASE kind \in Cgis
    BY <2>1, <2>5 DEF DroppedInv, Cgis
  <2> QED
    BY <2>1, <2>3, <2>4, <2>5 DEF DroppedInv
<1>3. CASE Fires
  <2>1. /\ kind = "api" /\ timer = "running" /\ server = "serving"
        /\ UNCHANGED <<kind, conn, late, signals>>
    BY <1>3 DEF Fires, Counters
  <2>2. In(Busy) = {}
    BY <2>1 DEF TrackerInv
  <2>3. In(Busy)' = {} /\ In({"aborted"})' = In({"aborted"})
    BY <2>1, <2>2 DEF In
  <2> QED
    BY <2>1, <2>3 DEF DroppedInv
<1>4. CASE Shutdown
  <2>1. server = "woken" /\ UNCHANGED <<kind, conn, late, signals>>
    BY <1>4 DEF Shutdown, Counters
  <2>2. In(Busy)' = In(Busy) /\ In({"aborted"})' = In({"aborted"}) /\ In(Held)' = In(Held)
    BY <2>1 DEF In
  <2> QED
    BY <2>1, <2>2 DEF DroppedInv
<1>5. CASE AcceptFails \/ Kill
  <2>1. term /\ signals' = signals
    BY <1>5 DEF AcceptFails, Kill, Counters
  <2> QED
    BY <2>1 DEF ProcessInv
<1>6. CASE StartProgram \/ NoRequest \/ ReadHeaders \/ Wait
  <2>1. kind \in Cgis /\ UNCHANGED <<kind, conn, late, signals>>
    BY <1>6 DEF StartProgram, NoRequest, ReadHeaders, Wait, CgiRest, Cgi
  <2> QED
    BY <2>1 DEF DroppedInv, Cgis
<1>7. CASE WriteCGIResponse
  <2>1. kind \in Cgis /\ kind' = kind
    BY <1>7 DEF WriteCGIResponse, CgiRest, Cgi
  <2>2. late' = late /\ In({"aborted"})' \subseteq In({"aborted"})
    BY <1>7 DEF WriteCGIResponse, CgiRest, In
  <2> QED
    BY <2>1, <2>2 DEF DroppedInv, Cgis
<1>8. CASE Terminate
  BY <1>8 DEF Terminate, ProcessInv
<1>9. ASSUME NEW c \in Clients, Connect(c)
      PROVE  DroppedInv'
  <2>1. /\ conn[c] = "none" /\ conn' = [conn EXCEPT ![c] = "waiting"]
        /\ UNCHANGED <<kind, server, late, signals>>
    BY <1>9 DEF Connect, Rest, Counters
  <2>2. In(Busy)' = In(Busy) /\ In({"aborted"})' = In({"aborted"}) /\ In(Held)' = In(Held)
    BY <2>1 DEF In, Busy, Held, Accepted, ConnInv
  <2> QED
    BY <2>1, <2>2 DEF DroppedInv
<1>10. ASSUME NEW c \in Clients, Accept(c) \/ Respond(c) \/ Request(c) \/ HangUp(c)
       PROVE  DroppedInv'
  <2>1. PICK state \in Accepted \union {"closed"} : ConnState(c, state)
    BY <1>10 DEF Accept, Respond, Request, HangUp, Accepted
  <2>2. c \in In(Held) \/ (kind # "stdio" /\ server # "off")
    BY <1>10 DEF Accept, Respond, Request, HangUp, In, Held, Accepted
  <2>3. server # "off" /\ UNCHANGED <<kind, signals>>
    BY <1>10, <2>2 DEF Accept, Respond, Request, HangUp, Rest, Counters, ConnInv
  <2>4. state \in States
    BY <2>1 DEF States, Held
  <2>5. conn'[c] = state /\ \A d \in Clients \ {c} : conn'[d] = conn[d]
    BY <2>1, <2>3, <2>4, ConnStateFacts
  <2>6. In({"aborted"})' \subseteq In({"aborted"})
    BY <2>1, <2>5 DEF In, Accepted
  <2>7. late \subseteq late' /\ (server' = server \/ (kind = "stdio" /\ HangUp(c)))
    BY <1>10 DEF Accept, Respond, Request, HangUp, Rest
  <2>8. CASE kind = "api"
    <3>1. In(Busy)' \subseteq In(Busy) \union {c}
      BY <2>5 DEF In
    <3>2. server \in {"woken", "closing"} /\ c \in In(Busy)' => c \in late'
      <4>1. CASE Accept(c)
        BY <4>1, <2>8 DEF Accept, In
      <4>2. CASE Request(c)
        BY <4>2 DEF Request
      <4>3. CASE Respond(c) \/ HangUp(c)
        BY <4>3 DEF Respond, HangUp, ConnState, In, Busy, ConnInv
      <4> QED
        BY <1>10, <4>1, <4>2, <4>3
    <3> QED
      BY <2>3, <2>6, <2>7, <2>8, <3>1, <3>2 DEF DroppedInv
  <2>9. CASE kind = "stdio"
    <3>1. c \in In(Held) /\ In(Held)' \subseteq In(Held) /\ server \notin {"woken", "closing"}
      BY <2>2, <2>3, <2>5, <2>9 DEF DroppedInv, In
    <3>2. HangUp(c) => In(Held)' = {}
      <4>1. HangUp(c) => conn'[c] = "closed"
        BY DEF HangUp, ConnState, ConnInv
      <4> QED
        BY <3>1, <4>1, <2>9 DEF ConnInv, Single, In, Held, Accepted
    <3>3. server' # "woken" /\ (server' = "closing" => HangUp(c))
      BY <1>10, <2>7, <3>1 DEF HangUp
    <3> QED
      BY <2>3, <2>6, <2>7, <2>9, <3>2, <3>3 DEF DroppedInv
  <2>10. CASE kind \notin {"api", "stdio"}
    BY <2>3, <2>6, <2>7, <2>10 DEF DroppedInv
  <2> QED
    BY <2>8, <2>9, <2>10
<1>11. CASE UNCHANGED vars
  BY <1>11 DEF vars, DroppedInv, In
<1> QED
  BY <1>1, <1>2, <1>3, <1>4, <1>5, <1>6, <1>7, <1>8, <1>9, <1>10, <1>11 DEF Next, System, CgiStep

-----------------------------------------------------------------------------
LEMMA Inductive == Spec => []ServingInv
<1>1. ServingInv /\ [Next]_vars => ServingInv'
  BY ProcessStep, ConnStep, TrackerStep, DroppedStep DEF ServingInv
<1> QED
  BY <1>1, ServingInit, PTL DEF Spec

\* Every variable keeps its type, and a server of one connection never has a second one,
\* for any number of connections, requests and signals.
THEOREM ServingTypeCorrect == Spec => []TypeOK
<1>1. ServingInv => TypeOK
  <2> SUFFICES ASSUME ServingInv PROVE TypeOK
    OBVIOUS
  <2>1. \A c \in Clients :
          conn[c] \in Accepted \union {"none", "waiting", "queued", "answered", "closed", "aborted"}
    BY DEF ServingInv, ConnInv, States, Held
  <2>2. tracked \subseteq In(Accepted)
    BY DEF ServingInv, TrackerInv, In, Busy, Accepted
  <2>3. kind \in Single => Cardinality(In(Accepted \union {"queued"})) <= 1
    BY AtMostOne DEF ServingInv, ConnInv, Held
  <2> QED
    BY <2>1, <2>2, <2>3 DEF ServingInv, ProcessInv, TypeOK
<1> QED
  BY <1>1, Inductive, PTL

\* idlehttp.go:50: however many connections there are and however they interleave, the
\* timer runs exactly while none of them is new or has a request.
THEOREM TimerRunsWhenIdle == Spec => []TimerMeansIdle
<1>1. ServingInv => TimerMeansIdle
  BY DEF ServingInv, ProcessInv, TrackerInv, TimerMeansIdle, Busy
<1> QED
  BY <1>1, Inductive, PTL

\* idlehttp.go:84: as long as no SIGTERM has been sent, no connection of a server other than
\* the CGI programs is dropped but those that came, or asked again, after the timer had fired.
THEOREM OnlyLateDropped == Spec => []DroppedOnlyLate
<1>1. ServingInv => DroppedOnlyLate
  BY DEF ServingInv, DroppedInv, DroppedOnlyLate
<1> QED
  BY <1>1, Inductive, PTL
(***************************************************************************)
(* CGI                                                                     *)
(***************************************************************************)
\* A set of natural numbers that is not empty has a least one.
LEMMA MinIsLeast ==
  ASSUME NEW S, S \subseteq Nat, S # {}
  PROVE  Min(S) \in S /\ \A y \in S : Min(S) <= y
<1> DEFINE less == {ss \in Nat \X Nat : ss[1] < ss[2]}
<1>1. IsWellFoundedOn(less, Nat)
  BY NatLessThanWellFounded, Zenon DEF OpToRel
<1>2. \A x, y \in Nat : y < x => <<y, x>> \in less
  OBVIOUS
<1> HIDE DEF less
<1>3. PICK x \in S : \A y \in S : ~(<<y, x>> \in less)
  BY <1>1, WFMin
<1>4. ASSUME NEW y \in S PROVE x <= y
  <2>1. ~(y < x)
    BY <1>2, <1>3
  <2>2. x \in Nat /\ y \in Nat
    OBVIOUS
  <2> QED
    BY <2>1, <2>2
<1> QED
  BY <1>4 DEF Min

LEMMA TailOfCons ==
  ASSUME NEW S, NEW x, NEW s \in Seq(S)
  PROVE  <<x>> \o s # <<>> /\ Tail(<<x>> \o s) = s
<1> DEFINE T == S \union {x}
           t == <<x>> \o s
<1>1. s \in Seq(T)
  BY SeqMonotonic
<1>2. <<x>> \in Seq(T) /\ Len(<<x>>) = 1
  OBVIOUS
<1> HIDE DEF T
<1>3. t \in Seq(T) /\ Len(t) = Len(s) + 1 /\ Len(s) \in Nat /\ \A i \in 1..Len(s) : t[i + 1] = s[i]
  BY <1>1, <1>2
<1> HIDE DEF t
<1>4. t # <<>>
  BY <1>3
<1>5. Tail(t) \in Seq(T) /\ Len(Tail(t)) = Len(t) - 1 /\ \A i \in 1..Len(Tail(t)) : Tail(t)[i] = t[i + 1]
  BY <1>3, <1>4, HeadTailProperties
<1>6. Tail(t) = s
  BY <1>1, <1>3, <1>5, SeqEqual
<1> QED
  BY <1>4, <1>6 DEF t

\* Where a path is cut nothing is lost.
LEMMA PathIsWhole ==
  ASSUME NEW path, path \in Seq(STRING), NEW strip \in Int, strip >= 0
  PROVE  LET info == PathInfo(path, strip) IN
         Tail(ScriptName(path, strip)) \o (IF info = <<>> THEN <<>> ELSE Tail(info)) = path
<1>1. Len(path) \in Nat
  OBVIOUS
<1>2. PICK cut \in 0..Len(path) : cut = IF strip + 1 < Len(path) THEN strip + 1 ELSE Len(path)
  BY <1>1
<1> DEFINE front == SubSeq(path, 1, cut)
           back == SubSeq(path, cut + 1, Len(path))
<1>3. front \in Seq(STRING) /\ back \in Seq(STRING)
  OBVIOUS
<1>4. front \o back = path
  <2>1. 1 \in 1..(Len(path) + 1) /\ cut \in (1 - 1)..Len(path) /\ Len(path) \in cut..Len(path)
    BY <1>1
  <2>2. front \o back = SubSeq(path, 1, Len(path))
    BY <2>1, ConcatAdjacentSubSeq
  <2> QED
    BY <2>2, SubSeqFull
<1>5. ScriptName(path, strip) = <<"">> \o front
  <2>1. ~(strip < 0)
    OBVIOUS
  <2> QED
    BY <1>2, <2>1, Zenon DEF ScriptName
<1>6. PathInfo(path, strip) = IF cut = strip + 1 /\ cut < Len(path) THEN <<"">> \o back ELSE <<>>
  <2>1. CASE cut = strip + 1 /\ cut < Len(path)
    <3>1. strip + 2 = cut + 1 /\ Len(path) > strip + 1
      BY <1>1, <2>1
    <3> QED
      BY <2>1, <3>1, Zenon DEF PathInfo
  <2>2. CASE ~(cut = strip + 1 /\ cut < Len(path))
    <3>1. ~(Len(path) > strip + 1)
      BY <1>1, <1>2, <2>2
    <3> QED
      BY <2>2, <3>1, Zenon DEF PathInfo
  <2> QED
    BY <2>1, <2>2
<1>7. ~(cut = strip + 1 /\ cut < Len(path)) => back = <<>>
  <2>1. ~(cut = strip + 1 /\ cut < Len(path)) => Len(path) < cut + 1
    BY <1>1, <1>2
  <2> QED
    BY <1>1, <2>1, SubSeqEmpty
<1> HIDE DEF front, back
<1>8. Tail(ScriptName(path, strip)) = front
  BY <1>3, <1>5, TailOfCons
<1>9. CASE cut = strip + 1 /\ cut < Len(path)
  <2>1. PathInfo(path, strip) # <<>> /\ Tail(PathInfo(path, strip)) = back
    BY <1>3, <1>6, <1>9, TailOfCons
  <2> QED
    BY <1>4, <1>8, <2>1
<1>10. CASE ~(cut = strip + 1 /\ cut < Len(path))
  <2>1. PathInfo(path, strip) = <<>> /\ back = <<>>
    BY <1>6, <1>7, <1>10
  <2> QED
    BY <1>4, <1>8, <2>1
<1> QED
  BY <1>9, <1>10

\* What a function adds is made of lines, too.
LEMMA OutputIsTyped ==
  ASSUME NEW o \in Output
  PROVE  o \in Seq([is : STRING, value : Int]) /\ \A i \in DOMAIN o : o[i].is = "blank" => o[i] = Blank
<1> DEFINE Lines == [is : STRING, value : Int]
           Proper(s) == \A i \in 1..Len(s) : s[i].is = "blank" => s[i] = Blank
<1>1. PICK b \in Preambles \union {<<>>}, p \in Outputs : o = b \o p
  BY DEF Output
<1>2. b \in Seq(Lines) /\ p \in Seq(Lines) /\ Proper(b) /\ Proper(p)
  <2> SUFFICES ASSUME NEW s \in Preambles \union Outputs \union {<<>>}
               PROVE  s \in Seq(Lines) /\ Proper(s)
    OBVIOUS
  <2>1. CASE s = <<>>
    BY <2>1
  <2>2. CASE s # <<>>
    <3>1. s \in Seq(Lines) /\ \A i \in DOMAIN s : s[i].is = "blank" => s[i] = Blank
      BY <2>2, OutputsAssumption
    <3>2. DOMAIN s = 1..Len(s)
      BY <3>1
    <3> QED
      BY <3>1, <3>2
  <2> QED
    BY <2>1, <2>2
<1>3. o \in Seq(Lines) /\ Len(o) = Len(b) + Len(p) /\ Len(b) \in Nat /\ Len(p) \in Nat
  BY <1>1, <1>2
<1>4. \A i \in 1..Len(o) : o[i] = IF i <= Len(b) THEN b[i] ELSE p[i - Len(b)]
  BY <1>1, <1>2
<1>5. \A i \in 1..Len(o) : i \in 1..Len(b) \/ (~(i <= Len(b)) /\ i - Len(b) \in 1..Len(p))
  BY <1>3
<1>6. Proper(o)
  <2> SUFFICES ASSUME NEW i \in 1..Len(o) PROVE o[i].is = "blank" => o[i] = Blank
    OBVIOUS
  <2>1. CASE i \in 1..Len(b)
    <3>1. o[i] = b[i]
      BY <1>4, <2>1
    <3> QED
      BY <1>2, <2>1, <3>1, Zenon
  <2>2. CASE ~(i <= Len(b)) /\ i - Len(b) \in 1..Len(p)
    <3> DEFINE j == i - Len(b)
    <3>1. o[i] = p[j] /\ j \in 1..Len(p)
      BY <1>4, <2>2
    <3> HIDE DEF j
    <3> QED
      BY <1>2, <3>1, Zenon
  <2> QED
    BY <1>5, <2>1, <2>2
<1>7. DOMAIN o = 1..Len(o)
  BY <1>3
<1> QED
  BY <1>3, <1>6, <1>7

\* The response that is read is all of the output: what is before its first empty line, and
\* what is behind it.
LEMMA ResponseIsWhole ==
  ASSUME NEW o \in Output, ReadCGIResponse(o).ok
  PROVE  LET r == ReadCGIResponse(o) IN
         /\ r.length \in Int
         /\ \E n \in DOMAIN o :
              LET head == {o[i] : i \in 1..(n - 1)} IN
              /\ o[n] = Blank /\ Blank \notin head
              /\ r.body = SubSeq(o, n + 1, Len(o)) /\ Len(r.body) \in Nat
              /\ r.headers = {l \in head : l.is \in {"header", "content-length"}}
              /\ r.length = -1 \/ Line("content-length", r.length) \in head
<1> DEFINE r == ReadCGIResponse(o)
           blank == {i \in DOMAIN o : o[i].is = "blank"}
           n == Min(blank)
           of(is) == {i \in 1..(n - 1) : o[i].is = is}
           sized == of("content-length")
           head == {o[i] : i \in 1..(n - 1)}
<1>1. o \in Seq([is : STRING, value : Int]) /\ DOMAIN o = 1..Len(o) /\ Len(o) \in Nat
  BY OutputIsTyped
<1>2. blank # {}
  BY DEF ReadCGIResponse
<1>3. /\ r.body = SubSeq(o, n + 1, Len(o))
      /\ r.headers = {o[i] : i \in of("header") \union of("content-length")}
      /\ r.length = IF sized = {} THEN -1 ELSE o[Min(sized)].value
  BY <1>2 DEF ReadCGIResponse
<1>4. n \in blank /\ \A i \in blank : n <= i
  <2>1. blank \subseteq Nat
    BY <1>1
  <2> HIDE DEF blank
  <2> QED
    BY <1>2, <2>1, MinIsLeast
<1>5. n \in DOMAIN o /\ n \in Nat /\ o[n] = Blank
  BY <1>1, <1>4, OutputIsTyped
<1>6. Blank \notin head
  <2> SUFFICES ASSUME NEW i \in 1..(n - 1), o[i] = Blank PROVE FALSE
    OBVIOUS
  <2>1. i \in DOMAIN o /\ i \in Int /\ ~(n <= i)
    BY <1>1, <1>5
  <2>2. i \in blank
    BY <2>1 DEF Blank, Line
  <2> QED
    BY <1>4, <2>1, <2>2
<1> HIDE DEF r, n
<1>7. r.headers = {l \in head : l.is \in {"header", "content-length"}}
  BY <1>3
<1>8. Len(r.body) \in Nat
  <2> DEFINE T == [is : STRING, value : Int]
  <2>1. o \in Seq(T) /\ n + 1 \in 1..(Len(o) + 1) /\ r.body = SubSeq(o, n + 1, Len(o))
    BY <1>1, <1>3, <1>5
  <2> HIDE DEF T
  <2>2. r.body \in Seq(T)
    BY <1>1, <2>1
  <2> QED
    BY <2>2
<1>9. r.length \in Int /\ (r.length = -1 \/ Line("content-length", r.length) \in head)
  <2>1. CASE sized # {}
    <3> DEFINE k == Min(sized)
    <3>1. k \in sized
      <4>1. sized \subseteq Nat
        BY <1>5
      <4> HIDE DEF sized
      <4> QED
        BY <2>1, <4>1, MinIsLeast
    <3> HIDE DEF k
    <3>2. o[k] \in head /\ o[k].is = "content-length"
      BY <3>1
    <3>3. k \in 1..Len(o)
      BY <1>1, <1>5, <3>1
    <3>4. o[k] \in [is : STRING, value : Int]
      BY <1>1, <3>3, ElementOfSeq
    <3>5. o[k] = Line("content-length", o[k].value)
      BY <3>2, <3>4 DEF Line
    <3>6. r.length = o[k].value
      BY <1>3, <2>1 DEF k
    <3> HIDE DEF sized, head
    <3> QED
      BY <3>2, <3>4, <3>5, <3>6
  <2>2. CASE sized = {}
    BY <1>3, <2>2
  <2> QED
    BY <2>1, <2>2
<1> HIDE DEF head
<1>10. r.body = SubSeq(o, n + 1, Len(o))
  BY <1>3
<1>11. \E m \in DOMAIN o :
         LET before == {o[i] : i \in 1..(m - 1)} IN
         /\ o[m] = Blank /\ Blank \notin before
         /\ r.body = SubSeq(o, m + 1, Len(o)) /\ Len(r.body) \in Nat
         /\ r.headers = {l \in before : l.is \in {"header", "content-length"}}
         /\ r.length = -1 \/ Line("content-length", r.length) \in before
  BY <1>5, <1>6, <1>7, <1>8, <1>9, <1>10 DEF head
<1> QED
  BY <1>9, <1>11 DEF r

\* net/http writes all of the body, or finds that it is not what Content-Length says.
LEMMA WrittenIsBounded ==
  ASSUME NEW r, r.length \in Int, Len(r.body) \in Nat
  PROVE  LET w == Written(r) IN
         /\ w.headers = {l \in r.headers : l.is = "header"}
         /\ \/ w.ok /\ w.body = r.body
            \/ /\ ~w.ok /\ w.length = r.length /\ r.length # -1 /\ w.length # Len(r.body)
               /\ w.body = IF w.length > Len(r.body) THEN r.body ELSE SubSeq(r.body, 1, w.length)
<1> DEFINE size == Len(r.body)
           length == IF r.length = 0 /\ size > 0 THEN -1 ELSE r.length
           w == Written(r)
<1>1. /\ w.ok <=> length \in {-1, size}
      /\ w.length = length
      /\ w.headers = {l \in r.headers : l.is = "header"}
      /\ w.body = IF length = -1 \/ length >= size THEN r.body ELSE SubSeq(r.body, 1, length)
  BY Zenon DEF Written
<1> HIDE DEF w
<1>2. length \in Int /\ size \in Nat /\ (length = -1 \/ length = r.length)
  OBVIOUS
<1> HIDE DEF length, size
<1>3. CASE length \in {-1, size}
  <2>1. length = -1 \/ length >= size
    BY <1>2, <1>3
  <2>2. w.ok /\ w.body = r.body
    BY <1>1, <1>3, <2>1
  <2> QED
    BY <1>1, <2>2 DEF w
<1>4. CASE length \notin {-1, size}
  <2>1. length >= size <=> length > size
    BY <1>2, <1>4
  <2> QED
    BY <1>1, <1>2, <1>4, <2>1 DEF w, size
<1> QED
  BY <1>3, <1>4

\* What a program has been given, what has been read of it, and what of that is written.
CgiInv ==
  /\ server = "off" => program.at = "none"
  /\ program.at # "none" =>
       /\ {"at", "request", "vars", "stdin"} \subseteq DOMAIN program
       /\ program.request \in Requests
       /\ program.vars = GetCGIVars(program.request, Strip)
       /\ program.stdin = Stdin(kind, program.request)
  /\ program.at \in {"headers", "written"} =>
       {"output", "response"} \subseteq DOMAIN program /\ program.output \in Output
  /\ program.at = "headers" =>
       /\ program.response = ReadCGIResponse(program.output)
       /\ server = "serving" => program.response.ok
  /\ program.at = "written" =>
       /\ program.response = Written(ReadCGIResponse(program.output))
       /\ ReadCGIResponse(program.output).ok
       /\ ~program.response.ok => server # "serving"
LEMMA CgiInit == Init => CgiInv
BY DEF Init, NoProgram, CgiInv

LEMMA CgiUnchanged ==
  ASSUME CgiInv, UNCHANGED <<kind, program>>, server' = "off" => server = "off",
         server' = "serving" => server \in {"off", "serving"}
  PROVE  CgiInv'
<1>1. Output' = Output
  BY DEF Output
<1> QED
  BY <1>1 DEF CgiInv

LEMMA CgiInductive == CgiInv /\ ProcessInv /\ [Next]_vars => CgiInv'
<1> SUFFICES ASSUME CgiInv, ProcessInv, [Next]_vars PROVE CgiInv'
  OBVIOUS
<1>0. kind' = kind => Output' = Output
  BY DEF Output
<1>1. CASE Exit
  BY <1>1 DEF Exit, NoProgram, CgiInv
<1>2. CASE StartProgram
  <2>1. PICK r \in Requests :
          program' = [at |-> "run", request |-> r, vars |-> GetCGIVars(r, Strip), stdin |-> Stdin(kind, r)]
    BY <1>2 DEF StartProgram
  <2>2. server' = "serving" /\ kind' = kind
    BY <1>2 DEF StartProgram, Cgi, CgiRest
  <2> QED
    BY <2>1, <2>2 DEF CgiInv
<1>3. CASE ReadHeaders
  <2>1. PICK o \in Output :
          /\ program' = [at |-> "headers", request |-> program.request, vars |-> program.vars,
                         stdin |-> program.stdin, output |-> o, response |-> ReadCGIResponse(o)]
          /\ server' = IF ReadCGIResponse(o).ok THEN server ELSE "closing"
    BY <1>3 DEF ReadHeaders
  <2>2. program.at = "run" /\ server = "serving" /\ kind' = kind
    BY <1>3 DEF ReadHeaders, Cgi, CgiRest
  <2> QED
    BY <1>0, <2>1, <2>2 DEF CgiInv
<1>4. CASE WriteCGIResponse
  <2> DEFINE written == Written(program.response)
  <2>1. program.at = "headers" /\ server = "serving" /\ kind' = kind
    BY <1>4 DEF WriteCGIResponse, Cgi, CgiRest
  <2>2. /\ program' = [program EXCEPT !.at = "written", !.response = written]
        /\ server' = IF written.ok THEN server ELSE "closing"
    BY <1>4 DEF WriteCGIResponse
  <2> HIDE DEF written
  <2>3. program.response = ReadCGIResponse(program.output) /\ program.response.ok
    BY <2>1 DEF CgiInv
  <2>4. program'.at = "written" /\ program'.response = written /\ program'.output = program.output
        /\ program'.request = program.request /\ program'.vars = program.vars
        /\ program'.stdin = program.stdin /\ DOMAIN program' = DOMAIN program
    BY <2>1, <2>2 DEF CgiInv
  <2>5. server' # "off" /\ (~written.ok => server' # "serving")
    BY <2>1, <2>2
  <2> QED
    BY <1>0, <2>1, <2>3, <2>4, <2>5 DEF CgiInv, written
<1>5. CASE NoRequest \/ Wait
  <2>1. UNCHANGED <<kind, program>> /\ server' = "closing"
    BY <1>5 DEF NoRequest, Wait, CgiRest
  <2> QED
    BY <2>1, CgiUnchanged
<1>6. CASE Activate \/ Fires \/ Shutdown \/ AcceptFails \/ Kill \/ Terminate
  <2>1. UNCHANGED <<kind, program>> /\ server' # "off" /\ (server' = "serving" => server \in {"off", "serving"})
    BY <1>6 DEF Activate, Fires, Shutdown, AcceptFails, Kill, Terminate, Counters
  <2> QED
    BY <2>1, CgiUnchanged
<1>7. CASE \E c \in Clients : Connect(c) \/ Accept(c) \/ Respond(c) \/ Request(c) \/ HangUp(c)
  <2>1. UNCHANGED <<kind, program>> /\ (server' = server \/ server' = "closing")
    BY <1>7 DEF Connect, Accept, Respond, Request, HangUp, Rest, Counters
  <2> QED
    BY <2>1, CgiUnchanged
<1>8. CASE UNCHANGED vars
  BY <1>8, CgiUnchanged DEF vars
<1> QED
  BY <1>1, <1>2, <1>3, <1>4, <1>5, <1>6, <1>7, <1>8 DEF Next, System, CgiStep

\* cgi.go:37, 95, 140, 172: whatever is asked and answered, a program has the whole path,
\* the adapter's the whole body; the headers and the body that are written are all that the
\* program wrote, or a Content-Length among its headers says otherwise and the process ends.
THEOREM CgiWhole == Spec => []CgiIsTransparent
<1>1. CgiInv => CgiIsTransparent
  <2> SUFFICES ASSUME CgiInv, program.at # "none" PROVE CgiIsTransparent
    BY DEF CgiIsTransparent
  <2> DEFINE r == program.request
             o == program.output
             w == program.response
             Whole == \E n \in DOMAIN o :
                        LET head == {o[i] : i \in 1..(n - 1)}
                            rest == SubSeq(o, n + 1, Len(o))
                        IN /\ o[n] = Blank /\ Blank \notin head
                           /\ w.headers = {l \in head : l.is = "header"}
                           /\ \/ w.body = rest /\ w.ok
                              \/ /\ Line("content-length", w.length) \in head
                                 /\ w.length # Len(rest) /\ server # "serving"
                                 /\ w.body = IF w.length > Len(rest) THEN rest
                                             ELSE SubSeq(rest, 1, w.length)
  <2>1. r \in Requests /\ program.vars = GetCGIVars(r, Strip) /\ program.stdin = Stdin(kind, r)
    BY DEF CgiInv
  <2>2. program.vars.script = ScriptName(r.path, Strip) /\ program.vars.info = PathInfo(r.path, Strip)
    BY <2>1 DEF GetCGIVars
  <2>3. r.path \in Seq(STRING) /\ Strip \in Int
    BY <2>1, RequestsAssumption
  <2>4. Strip >= 0 => Tail(program.vars.script) \o (IF program.vars.info = <<>> THEN <<>>
                                                    ELSE Tail(program.vars.info)) = r.path
    BY <2>2, <2>3, PathIsWhole, Zenon
  <2>5. kind = "adapter" => program.stdin = r.body
    BY <2>1 DEF Stdin
  <2>6. ASSUME program.at = "written" PROVE Whole
    <3> DEFINE s == ReadCGIResponse(o)
    <3>1. o \in Output /\ w = Written(s) /\ s.ok /\ (~w.ok => server # "serving")
      BY <2>6 DEF CgiInv
    <3>2. s.length \in Int
      BY <3>1, ResponseIsWhole
    <3>3. PICK n \in DOMAIN o :
            LET head == {o[i] : i \in 1..(n - 1)} IN
            /\ o[n] = Blank /\ Blank \notin head
            /\ s.body = SubSeq(o, n + 1, Len(o)) /\ Len(s.body) \in Nat
            /\ s.headers = {l \in head : l.is \in {"header", "content-length"}}
            /\ s.length = -1 \/ Line("content-length", s.length) \in head
      BY <3>1, ResponseIsWhole
    <3> HIDE DEF s, o, w
    <3> DEFINE head == {o[i] : i \in 1..(n - 1)}
               rest == SubSeq(o, n + 1, Len(o))
    <3>4. /\ o[n] = Blank /\ Blank \notin head /\ s.body = rest /\ Len(rest) \in Nat
          /\ s.headers = {l \in head : l.is \in {"header", "content-length"}}
          /\ s.length = -1 \/ Line("content-length", s.length) \in head
      BY <3>3
    <3> HIDE DEF head, rest
    <3>5. /\ w.headers = {l \in s.headers : l.is = "header"}
          /\ \/ w.ok /\ w.body = s.body
             \/ /\ ~w.ok /\ w.length = s.length /\ s.length # -1 /\ w.length # Len(s.body)
                /\ w.body = IF w.length > Len(s.body) THEN s.body ELSE SubSeq(s.body, 1, w.length)
      BY <3>1, <3>2, <3>4, WrittenIsBounded
    <3>6. w.headers = {l \in head : l.is = "header"}
      BY <3>4, <3>5
    <3>7. \/ w.body = rest /\ w.ok
          \/ /\ Line("content-length", w.length) \in head
             /\ w.length # Len(rest) /\ server # "serving"
             /\ w.body = IF w.length > Len(rest) THEN rest ELSE SubSeq(rest, 1, w.length)
      BY <3>1, <3>4, <3>5
    <3> QED
      BY <3>3, <3>4, <3>6, <3>7 DEF head, rest
  <2> QED
    BY <2>4, <2>5, <2>6, Zenon DEF CgiIsTransparent
<1>2. Spec => []CgiInv
  <2>1. CgiInv /\ ServingInv /\ [Next]_vars => CgiInv'
    BY CgiInductive DEF ServingInv
  <2> QED
    BY <2>1, CgiInit, Inductive, PTL DEF Spec
<1> QED
  BY <1>1, <1>2, PTL
=============================================================================
