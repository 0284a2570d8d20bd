------------------------------- MODULE Serving -------------------------------
(***************************************************************************)
(* The servers that systemd starts for the connections of a socket: the    *)
(* API server, which ends when it has been idle, the policy server, which  *)
(* stays, a server for one connection (ConnServer), and programs for one   *)
(* request (CGI).  Connections that no process has accepted wait at the    *)
(* socket and have a process started again.                                *)
(***************************************************************************)
EXTENDS Cgi, FiniteSets

CONSTANTS
  Kinds,        \* of "api", "policy", "stdio", "adapter", "function"
  Clients,      \* the connections
  Requests,     \* what CGI programs are asked: [path, body, buffered]
  Outputs,      \* what they answer
  Preambles,    \* response_headers of a function, and the empty line of no_response_headers
  Strip,        \* path_info_strip
  MaxRequests,  \* bound on the requests
  MaxSignals    \* bound on the SIGTERM

ASSUME BoundsAssumption == MaxRequests \in Nat /\ MaxSignals \in Nat
ASSUME RequestsAssumption == Strip \in Int /\ \A r \in Requests : r.path \in Seq(STRING)
\* A line that ends the headers is empty.
ASSUME OutputsAssumption ==
  \A o \in Outputs \union Preambles :
                     /\ o \in Seq([is : STRING, value : Int])
                     /\ \A i \in DOMAIN o : o[i].is = "blank" => o[i] = Blank

VARIABLES
  kind,
  conn,         \* connection -> what it is to the server
  late,         \* connections that came, or went on, when the server was already to end
  server,       \* "off", "serving", "woken" when it is to end, "closing" without listener
  tracked,      \* IdleTracker.active
  timer,        \* IdleTracker.timer
  term,         \* has this process been sent SIGTERM?
  program,      \* the CGI program
  requests, signals

vars == <<kind, conn, late, server, tracked, timer, term, program, requests, signals>>

Cgis == {"adapter", "function"}
\* One process for one connection: Accept=yes.
Single == Cgis \union {"stdio"}
NoProgram == [at |-> "none"]
In(states) == {c \in Clients : conn[c] \in states}
Accepted == {"new", "active", "idle"}

TypeOK ==
  /\ kind \in Kinds /\ server \in {"off", "serving", "woken", "closing"}
  /\ \A c \in Clients :
       conn[c] \in Accepted \union {"none", "waiting", "queued", "answered", "closed", "aborted"}
  /\ late \subseteq Clients /\ tracked \subseteq In(Accepted)
  /\ timer \in {"running", "stopped", "fired"} /\ term \in BOOLEAN
  /\ program.at \in {"none", "run", "headers", "written"}
  /\ requests \in 0..MaxRequests /\ signals \in 0..MaxSignals
  /\ kind \in Single => Cardinality(In(Accepted \union {"queued"})) <= 1

Init ==
  /\ kind \in Kinds
  /\ conn = [c \in Clients |-> "none"] /\ late = {}
  /\ server = "off" /\ tracked = {} /\ timer = "stopped" /\ term = FALSE
  /\ program = NoProgram /\ requests = 0 /\ signals = 0

Counters == UNCHANGED <<kind, requests, signals>>
Rest == UNCHANGED <<late, server, term, program>> /\ Counters

(***************************************************************************)
(* The socket and the processes                                            *)
(***************************************************************************)
Connect(c) ==
  /\ conn[c] = "none"
  /\ conn' = [conn EXCEPT ![c] = "waiting"]
  /\ UNCHANGED <<tracked, timer>> /\ Rest

\* The API server's timer runs from the beginning.  A server of one connection has it in
\* its listener's channel, a CGI program reads the request.
Activate ==
  /\ server = "off" /\ server' = "serving"
  /\ tracked' = {} /\ timer' = "running" /\ term' = FALSE
  /\ \E c \in In({"waiting"}) :
       conn' = IF kind \in Single
               THEN [conn EXCEPT ![c] = IF kind = "stdio" THEN "queued" ELSE "active"] ELSE conn
  /\ UNCHANGED <<late, program>> /\ Counters

\* Whatever ends the process, it does not wait for the connections.
Exit ==
  /\ server = "closing" /\ server' = "off"
  /\ conn' = [c \in Clients |-> CASE conn[c] = "idle" -> "closed"
                                  [] conn[c] \in {"queued", "new", "active"} -> "aborted"
                                  [] OTHER -> conn[c]]
  /\ tracked' = {} /\ timer' = "stopped" /\ program' = NoProgram
  /\ UNCHANGED <<late, term>> /\ Counters

(***************************************************************************)
(* HTTP                                                                    *)
(***************************************************************************)
\* Mutant of ConnState: only an idle connection is taken out of the tracker.
ConnStateKeepsClosed(c, state) ==
  /\ conn' = [conn EXCEPT ![c] = state]
  /\ tracked' = CASE kind # "api" \/ state = "closed" -> tracked
                  [] state = "idle" -> tracked \ {c}
                  [] OTHER -> tracked \union {c}
  /\ timer' = IF kind = "api" THEN IF tracked' = {} THEN "running" ELSE "stopped" ELSE timer

\* Mutant of ConnState: the timer goes on when a connection comes.
ConnStateNeverStops(c, state) ==
  /\ conn' = [conn EXCEPT ![c] = state]
  /\ tracked' = IF kind # "api" THEN tracked
                ELSE IF state \in {"new", "active"} THEN tracked \union {c} ELSE tracked \ {c}
  /\ UNCHANGED timer

\* The tracker of the API server counts a new connection as an active one.
ConnState(c, state) ==
  /\ conn' = [conn EXCEPT ![c] = state]
  /\ LET now == IF state \in {"new", "active"} THEN tracked \union {c} ELSE tracked \ {c} IN
     IF kind # "api" THEN UNCHANGED <<tracked, timer>>
     ELSE /\ tracked' = now
          /\ timer' = CASE tracked = {} /\ now # {} -> "stopped"
                        [] tracked # {} /\ now = {} -> "running"
                        [] OTHER -> timer

Accept(c) ==
  /\ server \in {"serving", "woken"}
  /\ conn[c] = IF kind = "stdio" THEN "queued" ELSE "waiting"
  /\ kind \notin Cgis
  /\ ConnState(c, "new")
  /\ late' = IF server = "woken" THEN late \union {c} ELSE late
  /\ UNCHANGED <<server, term, program>> /\ Counters

Request(c) ==
  /\ conn[c] \in {"new", "idle"} /\ requests < MaxRequests
  /\ requests' = requests + 1
  /\ ConnState(c, "active")
  /\ late' = IF server = "serving" THEN late ELSE late \union {c}
  /\ UNCHANGED <<kind, server, term, program, signals>>

Respond(c) ==
  /\ conn[c] = "active" /\ kind \notin Cgis
  /\ ConnState(c, "idle")
  /\ Rest

\* Mutant of HangUp: a server of one connection is not shut down with it.
HangUpOnly(c) ==
  /\ conn[c] \in {"new", "idle"}
  /\ ConnState(c, "closed")
  /\ UNCHANGED <<server, late, term, program>> /\ Counters

\* onConnState of a server of one connection shuts it down.
HangUp(c) ==
  /\ conn[c] \in {"new", "idle"}
  /\ ConnState(c, "closed")
  /\ server' = IF kind = "stdio" THEN "closing" ELSE server
  /\ UNCHANGED <<late, term, program>> /\ Counters

\* The timer hands its time to the goroutine that waits for it.
Fires ==
  /\ kind = "api" /\ timer = "running" /\ server = "serving"
  /\ timer' = "fired" /\ server' = "woken"
  /\ UNCHANGED <<conn, tracked, late, term, program>> /\ Counters

\* Mutant of Shutdown: connections that have no request are waited for, too.
ShutdownWaits ==
  /\ server = "woken" /\ In(Accepted) = {} /\ server' = "closing"
  /\ UNCHANGED <<conn, tracked, timer, late, term, program>> /\ Counters

\* Serve returns as soon as Shutdown begins, and with it the program.
Shutdown ==
  /\ server = "woken" /\ server' = "closing"
  /\ UNCHANGED <<conn, tracked, timer, late, term, program>> /\ Counters

\* SIGTERM: the API server shuts down; the policy server has it notified to a context
\* nobody looks at; CGI programs end.
Terminate ==
  /\ server \in {"serving", "woken"} /\ ~term /\ signals < MaxSignals
  /\ term' = TRUE /\ signals' = signals + 1
  /\ server' = CASE kind = "api" -> "woken" [] kind \in Cgis -> "closing" [] OTHER -> server
  /\ UNCHANGED <<kind, conn, tracked, timer, late, program, requests>>

\* Mutant of AcceptFails: the listener's context is done from the beginning.
AcceptFailsAtOnce ==
  /\ kind = "stdio" /\ server = "serving"
  /\ server' = "closing"
  /\ UNCHANGED <<conn, tracked, timer, late, term, program>> /\ Counters

\* The listener's Accept finds the connection, or its context done.
AcceptFails ==
  /\ kind = "stdio" /\ term /\ server = "serving"
  /\ server' = "closing"
  /\ UNCHANGED <<conn, tracked, timer, late, term, program>> /\ Counters

\* systemd kills what SIGTERM does not end.
Kill ==
  /\ kind = "policy" /\ term /\ server = "serving"
  /\ server' = "closing"
  /\ UNCHANGED <<conn, tracked, timer, late, term, program>> /\ Counters

(***************************************************************************)
(* CGI                                                                     *)
(***************************************************************************)
Cgi(at) == kind \in Cgis /\ server = "serving" /\ program.at = at
CgiRest == UNCHANGED <<kind, late, tracked, timer, term, signals>>

\* What cannot be read as a request ends the process.
StartProgram ==
  /\ Cgi("none") /\ requests < MaxRequests
  /\ requests' = requests + 1
  /\ \E r \in Requests :
       program' = [at |-> "run", request |-> r, vars |-> GetCGIVars(r, Strip), stdin |-> Stdin(kind, r)]
  /\ UNCHANGED <<conn, server>> /\ CgiRest

NoRequest ==
  /\ Cgi("none")
  /\ server' = "closing"
  /\ UNCHANGED <<conn, program, requests>> /\ CgiRest

\* What a function is configured to add has been written to the pipe before its program
\* writes.  Output that ends before the headers do is an error, and the program is not
\* waited for.
Output ==
  {b \o o : b \in IF kind = "function" THEN Preambles ELSE {<<>>}, o \in Outputs}
ReadHeaders ==
  /\ Cgi("run")
  /\ \E o \in Output :
       /\ program' = [at |-> "headers", request |-> program.request, vars |-> program.vars,
                      stdin |-> program.stdin, output |-> o, response |-> ReadCGIResponse(o)]
       /\ server' = IF ReadCGIResponse(o).ok THEN server ELSE "closing"
  /\ UNCHANGED <<conn, requests>> /\ CgiRest

\* Less than was announced is no answer.  After an error the program is not waited for.
WriteCGIResponse ==
  /\ Cgi("headers")
  /\ LET written == Written(program.response) IN
     /\ conn' = [c \in Clients |-> IF conn[c] = "active" /\ written.length <= Len(written.body)
                                   THEN "answered" ELSE conn[c]]
     /\ program' = [program EXCEPT !.at = "written", !.response = written]
     /\ server' = IF written.ok THEN server ELSE "closing"
  /\ UNCHANGED requests /\ CgiRest

\* How the program ends comes too late for the response.
Wait ==
  /\ Cgi("written")
  /\ server' = "closing"
  /\ UNCHANGED <<conn, program, requests>> /\ CgiRest

CgiStep == StartProgram \/ NoRequest \/ ReadHeaders \/ WriteCGIResponse \/ Wait
System == Activate \/ Exit \/ Fires \/ Shutdown \/ AcceptFails \/ Kill \/ CgiStep

Next ==
  \/ System \/ Terminate
  \/ \E c \in Clients : Connect(c) \/ Accept(c) \/ Respond(c) \/ Request(c) \/ HangUp(c)

Spec == Init /\ [][Next]_vars
\* The server goes on, and a process accepts what waits when it starts sooner or later
\* before its timer fires.  A client does not keep a connection for which it has no
\* request; with the API server it may, after its first one.
Leaves(c) == HangUp(c) /\ (conn[c] = "new" \/ kind # "api")
FairSpec ==
  /\ Spec /\ WF_vars(System)
  /\ \A c \in Clients : SF_vars(Accept(c)) /\ WF_vars(Respond(c)) /\ WF_vars(Leaves(c))

(***************************************************************************)
(* Properties                                                              *)
(***************************************************************************)
\* The timer of the tracker runs exactly while no connection is new or has a request, so
\* however connections interleave the server is never found idle when it is not
\* (idlehttp.go:50).
TimerMeansIdle ==
  kind = "api" /\ server # "off" /\ timer # "fired" =>
    (timer = "running" <=> In({"new", "active"}) = {})

\* Without a signal a connection is dropped unanswered only if it was accepted, or asked
\* again, after the timer had fired and before the process was gone (idlehttp.go:84), or if
\* a CGI program gave no answer.
DroppedOnlyLate ==
  signals = 0 => \A c \in In({"aborted"}) : c \in late \/ kind \in Cgis

\* A program has the whole path, of its script (which begins with a slash too many) and
\* beyond it, and the adapter's the whole body.  What is written is what the program wrote,
\* after what its function adds: all headers up to the first empty line and all that follows
\* that line, or as much of it as a Content-Length among them says; if that is not what
\* there is, the process ends without waiting for the program (cgi.go:37, 95, 140, 172).
\* The status is not part of this.
CgiIsTransparent ==
  program.at # "none" =>
    LET path == program.request.path
        vars0 == program.vars
        output == program.output
        response == program.response
    IN /\ Strip >= 0 => Tail(vars0.script) \o (IF vars0.info = <<>> THEN <<>> ELSE Tail(vars0.info)) = path
       /\ kind = "adapter" => program.stdin = program.request.body
       /\ program.at = "written" =>
            \E n \in DOMAIN output :
              LET head == {output[i] : i \in 1..(n - 1)}
                  rest == SubSeq(output, n + 1, Len(output))
              IN /\ output[n] = Blank /\ Blank \notin head
                 /\ response.headers = {l \in head : l.is = "header"}
                 /\ \/ response.body = rest /\ response.ok
                    \/ /\ Line("content-length", response.length) \in head
                       /\ response.length # Len(rest) /\ server # "serving"
                       /\ response.body = IF response.length > Len(rest) THEN rest
                                          ELSE SubSeq(rest, 1, response.length)

\* Whoever waits at the socket is taken by a server, this one or the next one, even if the
\* one there is just ending.
WaitingIsTaken == \A c \in Clients : conn[c] = "waiting" ~> conn[c] # "waiting"

\* All servers but the policy server end again and again: the API server though clients
\* keep their connections after a request, since only its timer counts (idlehttp.go:63).
EndsWhenIdle == kind # "policy" => []<>(server = "off")
=============================================================================
