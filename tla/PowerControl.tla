---------------------------- MODULE PowerControl ----------------------------
(***************************************************************************)
(* Power control of one VM.                                                *)
(*                                                                         *)
(* Three front ends serve power requests at the same time: the placemat    *)
(* API (pkg/placemat/server.go), the IPMI goroutine                        *)
(* (pkg/virtualbmc/ipmi_chassis.go) and the Redfish handlers               *)
(* (pkg/virtualbmc/redfish_system.go, redfish_chassis.go).  Each turns a   *)
(* request into calls of PowerStatus, PowerOn and PowerOff (pkg/vm/node.go)*)
(* and every call opens a QMP connection to QEMU, writes commands and      *)
(* counts the lines that come back.                                        *)
(*                                                                         *)
(* QEMU is external: it serves one QMP connection at a time, runs its      *)
(* commands in order, and adds an event line for every change of its run   *)
(* state and whenever the guest causes one.                                *)
(***************************************************************************)
EXTENDS Naturals, Sequences

CONSTANTS
  Requesters,  \* the goroutines that may handle a request at the same time
  Offered,     \* Offered[r]: the requests goroutine r may be asked to handle
  MaxLines     \* guest events arrive while fewer than MaxLines lines are unread

-----------------------------------------------------------------------------
(* The handlers: the Machine calls each operation makes, in order.         *)

Calls == {"PowerStatus", "PowerOn", "PowerOff"}

handleNodeAction == [
  start   |-> <<"PowerOn">>,
  stop    |-> <<"PowerOff">>,
  restart |-> <<"PowerOff", "PowerOn">>,
  invalid |-> <<>> ]

newNodeStatus == [get |-> <<"PowerStatus">>, invalid |-> <<>>]

\* Pulse, PowerSoft and control values without a case are ignored.
handleIPMIChassisControl == [
  PowerDown  |-> <<"PowerStatus", "PowerOff">>,
  PowerUp    |-> <<"PowerStatus", "PowerOn">>,
  PowerCycle |-> <<"PowerStatus", "PowerOff", "PowerOn">>,
  HardReset  |-> <<"PowerStatus", "PowerOff", "PowerOn">>,
  ignored    |-> <<>> ]

handleIPMIChassis == [GetChassisStatus |-> <<"PowerStatus">>, unsupported |-> <<>>]

\* Mutant: a restart that looks at the status between the two calls.
RestartChecksLate == [
  On               |-> <<"PowerStatus", "PowerOn">>,
  ForceOff         |-> <<"PowerStatus", "PowerOff">>,
  GracefulShutdown |-> <<"PowerStatus", "PowerOff">>,
  ForceRestart     |-> <<"PowerOff", "PowerStatus", "PowerOn">>,
  ignored          |-> <<>>,
  invalid          |-> <<>> ]

handleComputerSystemActionsReset == [
  On               |-> <<"PowerStatus", "PowerOn">>,
  ForceOff         |-> <<"PowerStatus", "PowerOff">>,
  GracefulShutdown |-> <<"PowerStatus", "PowerOff">>,
  ForceRestart     |-> <<"PowerStatus", "PowerOff", "PowerOn">>,
  ignored          |-> <<>>,
  invalid          |-> <<>> ]

handleComputerSystem == [get |-> <<"PowerStatus">>, invalid |-> <<>>]

handleChassisActionsReset == [
  On       |-> <<"PowerStatus", "PowerOn">>,
  ForceOff |-> <<"PowerStatus", "PowerOff">>,
  invalid  |-> <<>> ]

handleChassis == [get |-> <<"PowerStatus">>, invalid |-> <<>>]

Handlers == [
  NodeAction   |-> handleNodeAction,
  NodeStatus   |-> newNodeStatus,
  IPMIControl  |-> handleIPMIChassisControl,
  IPMIChassis  |-> handleIPMIChassis,
  SystemReset  |-> handleComputerSystemActionsReset,
  System       |-> handleComputerSystem,
  ChassisReset |-> handleChassisActionsReset,
  Chassis      |-> handleChassis ]

\* A request is a handler and one of its operations.
Request == UNION {{h} \X DOMAIN Handlers[h] : h \in DOMAIN Handlers}

ASSUME PowerAssumption ==
  /\ "none" \notin Requesters
  /\ Offered \in [Requesters -> SUBSET Request]
  /\ MaxLines \in Nat

Plan(q) == Handlers[q[1]][q[2]]

\* The answer to an operation that makes no call: success for one that is
\* ignored (Pulse, PowerSoft, PushPowerButton, Nmi), an error completion code
\* for an unsupported chassis command, 400 or 404 for an unknown node, system,
\* action or reset type.
NoCallAnswer(q) ==
  CASE q[2] = "ignored"     -> "ok"
    [] q[2] = "unsupported" -> "error"
    [] OTHER                -> "bad"

\* newNodeStatus logs an error of PowerStatus and reports "Unknown"; every
\* other handler answers with the error.
ErrorAnswer(q) ==
  IF q[1] = "NodeStatus" THEN [to |-> q, code |-> "ok",    status |-> "Unknown"]
                         ELSE [to |-> q, code |-> "error", status |-> "none"]

\* Mutant: the status is read and not looked at.
RefusesNever(status, next) == FALSE

\* A handler that goes on after PowerStatus refuses to when the machine is
\* already in the state that the next call would bring about.
Refuses(status, next) ==
  status = IF next = "PowerOn" THEN "On" ELSE "Off"

-----------------------------------------------------------------------------
(* The calls: what each one reads from and writes to its connection.       *)

Commands == {"qmp_capabilities", "query-status", "system_reset", "cont", "stop"}

\* Mutant: the response to qmp_capabilities is not waited for.
PowerStatusSkipsRead == <<"read", "qmp_capabilities", "query-status", "read">>

PowerStatus == <<"read", "qmp_capabilities", "read", "query-status", "read">>

PowerOn == <<"read", "qmp_capabilities", "read",
             "system_reset", "read", "read", "cont", "read", "read">>

\* Mutant: the event line is not waited for.
PowerOffReadsOnce == <<"read", "qmp_capabilities", "read", "stop", "read">>

PowerOff == <<"read", "qmp_capabilities", "read", "stop", "read", "read">>

Script == [PowerStatus |-> PowerStatus,
           PowerOn     |-> PowerOn,
           PowerOff    |-> PowerOff]

\* A line from QEMU: the greeting, a success response, the response to
\* query-status, or an event.
Lines == {"greeting", "return", "running", "notRunning", "event"}

\* Mutant: the sense of Running is lost.
ParseStatusInverted(line) == IF line = "running" THEN "Off" ELSE "On"

\* json.Unmarshal leaves Running false for every line that does not say
\* otherwise, an event and a plain success response included.
ParseStatus(line) == IF line = "running" THEN "On" ELSE "Off"

-----------------------------------------------------------------------------
VARIABLES
  run,      \* QEMU's run state
  session,  \* the QMP connection QEMU serves, or NoSession
  conn,     \* conn[r]: r's own connection
  lines,    \* lines[r]: what QEMU sent to r and r has not read
  req,      \* req[r]: the request r is handling, or NoRequest
  todo,     \* todo[r]: the calls r has still to make, the current one first
  step,     \* step[r]: position in the script of the current call
  result,   \* result[r]: what r's last call returned
  answer,   \* answer[r]: the request r answered last, and its answer
  \* What the properties observe:
  seen,     \* seen[r]: the run states since r's current call began
  done      \* done[r]: the commands QEMU ran for r's request, each with the
            \* run state it met

vars == <<run, session, conn, lines, req, todo, step, result, answer, seen, done>>

RunStates == {"running", "stopped", "exited"}

NoRequest == <<"none", "none">>

Sessions == [client : Requesters \cup {"none"}, negotiated : BOOLEAN, cmds : Seq(Commands)]

NoSession == [client |-> "none", negotiated |-> FALSE, cmds |-> <<>>]

Answers == [to     : Request \cup {NoRequest},
            code   : {"none", "ok", "conflict", "error", "bad"},
            status : {"none", "nil", "On", "Off", "Unknown"}]

NoAnswer == [to |-> NoRequest, code |-> "none", status |-> "none"]

Serving == session # NoSession

\* The client has not closed the connection that QEMU serves.
Alive == Serving /\ conn[session.client] = "served"

Calling(r) == conn[r] # "none"

Instruction(r) == Script[Head(todo[r])][step[r]]

LastStep(r) == step[r] = Len(Script[Head(todo[r])])

Init ==
  /\ run = "running"
  /\ session = NoSession
  /\ conn   = [r \in Requesters |-> "none"]
  /\ lines  = [r \in Requesters |-> <<>>]
  /\ req    = [r \in Requesters |-> NoRequest]
  /\ todo   = [r \in Requesters |-> <<>>]
  /\ step   = [r \in Requesters |-> 1]
  /\ result = [r \in Requesters |-> "none"]
  /\ answer = [r \in Requesters |-> NoAnswer]
  /\ seen   = [r \in Requesters |-> {}]
  /\ done   = [r \in Requesters |-> {}]

-----------------------------------------------------------------------------
(* A handler.                                                              *)

\* A request arrives.  One that needs no call is answered on the spot.
Receive(r, q) ==
  /\ req[r] = NoRequest
  /\ IF Plan(q) = <<>>
       THEN /\ answer' = [answer EXCEPT ![r] =
                           [to |-> q, code |-> NoCallAnswer(q), status |-> "none"]]
            /\ UNCHANGED <<req, todo>>
       ELSE /\ req'  = [req  EXCEPT ![r] = q]
            /\ todo' = [todo EXCEPT ![r] = Plan(q)]
            /\ answer' = [answer EXCEPT ![r] = NoAnswer]
  /\ seen' = [seen EXCEPT ![r] = {}]
  /\ done' = [done EXCEPT ![r] = {}]
  /\ UNCHANGED <<run, session, conn, lines, step, result>>

\* The request ends with answer a; the call's connection is closed.
Finish(r, a) ==
  /\ answer' = [answer EXCEPT ![r] = a]
  /\ req'    = [req  EXCEPT ![r] = NoRequest]
  /\ todo'   = [todo EXCEPT ![r] = <<>>]

Close(r) ==
  /\ conn'  = [conn  EXCEPT ![r] = "none"]
  /\ lines' = [lines EXCEPT ![r] = <<>>]
  /\ step'  = [step  EXCEPT ![r] = 1]

\* The current call returned this status, or nil: answer, refuse, or go on to
\* the next call.
Proceed(r, status) ==
  LET call == Head(todo[r])
      rest == Tail(todo[r])
  IN  \/ /\ rest = <<>>
         /\ Finish(r, [to |-> req[r], code |-> "ok", status |-> status])
      \/ /\ rest # <<>>
         /\ call = "PowerStatus"
         /\ Refuses(status, Head(rest))
         /\ Finish(r, [to |-> req[r], code |-> "conflict", status |-> status])
      \/ /\ rest # <<>>
         /\ call = "PowerStatus" => ~Refuses(status, Head(rest))
         /\ todo' = [todo EXCEPT ![r] = rest]
         /\ UNCHANGED <<req, answer>>

-----------------------------------------------------------------------------
(* A call on its connection.                                               *)

\* net.Dial and SetDeadline.  The connection waits in the socket's backlog.
Dial(r) ==
  /\ req[r] # NoRequest
  /\ ~Calling(r)
  /\ run # "exited"
  /\ conn' = [conn EXCEPT ![r] = "dialed"]
  /\ seen' = [seen EXCEPT ![r] = {run}]
  /\ result' = [result EXCEPT ![r] = "none"]
  /\ UNCHANGED <<run, session, lines, req, todo, step, answer, done>>

\* Nobody listens on the socket of a QEMU that has exited.
DialRefused(r) ==
  /\ req[r] # NoRequest
  /\ ~Calling(r)
  /\ run = "exited"
  /\ result' = [result EXCEPT ![r] = "error"]
  /\ Finish(r, ErrorAnswer(req[r]))
  /\ seen' = [seen EXCEPT ![r] = {run}]
  /\ UNCHANGED <<run, session, conn, lines, step, done>>

\* Mutant: a command is written where the script says to read.
WriteCommandOutOfTurn(r) ==
  /\ Calling(r)
  /\ ~LastStep(r)
  /\ conn[r] = "served" /\ Serving
  /\ session' = [session EXCEPT !.cmds = Append(@, Instruction(r))]
  /\ step' = [step EXCEPT ![r] = @ + 1]
  /\ UNCHANGED <<run, conn, lines, req, todo, result, answer, seen, done>>

WriteCommand(r) ==
  /\ Calling(r)
  /\ Instruction(r) \in Commands
  /\ conn[r] = "served" /\ Serving
  /\ session' = [session EXCEPT !.cmds = Append(@, Instruction(r))]
  /\ step' = [step EXCEPT ![r] = @ + 1]
  /\ UNCHANGED <<run, conn, lines, req, todo, result, answer, seen, done>>

\* One line is read, whatever it says.
Read(r) ==
  /\ Calling(r)
  /\ Instruction(r) = "read"
  /\ lines[r] # <<>>
  /\ ~LastStep(r)
  /\ lines' = [lines EXCEPT ![r] = Tail(@)]
  /\ step'  = [step EXCEPT ![r] = @ + 1]
  /\ UNCHANGED <<run, session, conn, req, todo, result, answer, seen, done>>

\* The last line is read and the call returns: PowerStatus what it makes of
\* that line, the others nil.
Return(r) ==
  /\ Calling(r)
  /\ Instruction(r) = "read"
  /\ lines[r] # <<>>
  /\ LastStep(r)
  /\ LET value == IF Head(todo[r]) = "PowerStatus" THEN ParseStatus(Head(lines[r]))
                                                    ELSE "nil"
     IN  /\ result' = [result EXCEPT ![r] = value]
         /\ Proceed(r, value)
  /\ Close(r)
  /\ UNCHANGED <<run, session, seen, done>>

\* Mutant: no deadline is set on the connection.
FailWithoutDeadline(r) ==
  /\ Calling(r)
  /\ run = "exited"
  /\ result' = [result EXCEPT ![r] = "error"]
  /\ Finish(r, ErrorAnswer(req[r]))
  /\ Close(r)
  /\ UNCHANGED <<run, session, seen, done>>

\* Mutant: the handler goes on to the next call after an error.
FailGoesOn(r) ==
  /\ Calling(r)
  /\ result' = [result EXCEPT ![r] = "error"]
  /\ IF Len(todo[r]) > 1
       THEN /\ todo' = [todo EXCEPT ![r] = Tail(@)]
            /\ UNCHANGED <<req, answer>>
       ELSE Finish(r, ErrorAnswer(req[r]))
  /\ Close(r)
  /\ UNCHANGED <<run, session, seen, done>>

\* The deadline of the connection passes, or QEMU is gone: the read or write
\* under way fails, the call returns the error and so does the handler.
Fail(r) ==
  /\ Calling(r)
  /\ result' = [result EXCEPT ![r] = "error"]
  /\ Finish(r, ErrorAnswer(req[r]))
  /\ Close(r)
  /\ UNCHANGED <<run, session, seen, done>>

-----------------------------------------------------------------------------
(* QEMU (external).                                                        *)

Accept(r) ==
  /\ ~Serving
  /\ run # "exited"
  /\ conn[r] = "dialed"
  /\ session' = [client |-> r, negotiated |-> FALSE, cmds |-> <<>>]
  /\ conn'  = [conn  EXCEPT ![r] = "served"]
  /\ lines' = [lines EXCEPT ![r] = <<"greeting">>]
  /\ UNCHANGED <<run, req, todo, step, result, answer, seen, done>>

\* The run state after a command, and the lines that answer it.
RunAfter(cmd) ==
  IF cmd = "stop" THEN "stopped" ELSE IF cmd = "cont" THEN "running" ELSE run

Response(cmd) ==
  IF cmd = "query-status"
    THEN <<IF run = "running" THEN "running" ELSE "notRunning">>
  ELSE IF cmd = "system_reset" \/ RunAfter(cmd) # run
    THEN <<"return", "event">>
    ELSE <<"return">>

\* Every goroutine with a call under way lives through this run state.
Witness(state) ==
  seen' = [r \in Requesters |-> IF Calling(r) THEN seen[r] \cup {state} ELSE seen[r]]

\* The next command of the served connection.  The commands a client wrote
\* before it closed the connection may still run; nobody reads the response.
Execute ==
  /\ Serving
  /\ session.cmds # <<>>
  /\ LET cmd == Head(session.cmds)
         c   == session.client
     IN  /\ run' = RunAfter(cmd)
         /\ session' = [session EXCEPT !.cmds = Tail(@),
                                       !.negotiated = @ \/ cmd = "qmp_capabilities"]
         /\ IF Alive
              THEN /\ lines' = [lines EXCEPT ![c] = @ \o Response(cmd)]
                   /\ done'  = [done  EXCEPT ![c] = @ \cup {<<cmd, run>>}]
              ELSE UNCHANGED <<lines, done>>
         /\ Witness(RunAfter(cmd))
  /\ UNCHANGED <<conn, req, todo, step, result, answer>>

\* QEMU notices that the client is gone and drops what it has not run.
Hangup ==
  /\ Serving
  /\ ~Alive
  /\ session' = NoSession
  /\ UNCHANGED <<run, conn, lines, req, todo, step, result, answer, seen, done>>

\* The guest causes an event: it opens the placemat port, reboots, changes
\* its clock.  Only a client in command mode is told.
GuestEvent ==
  /\ run = "running"
  /\ Alive
  /\ session.negotiated
  /\ Len(lines[session.client]) < MaxLines
  /\ lines' = [lines EXCEPT ![session.client] = Append(@, "event")]
  /\ UNCHANGED <<run, session, conn, req, todo, step, result, answer, seen, done>>

\* The guest powers itself off, or QEMU is killed.
Exit ==
  /\ run # "exited"
  /\ run' = "exited"
  /\ session' = NoSession
  /\ Witness("exited")
  /\ UNCHANGED <<conn, lines, req, todo, step, result, answer, done>>

-----------------------------------------------------------------------------
HandlerStep(r) ==
  \/ Dial(r)
  \/ DialRefused(r)
  \/ WriteCommand(r)
  \/ Read(r)
  \/ Return(r)
  \/ Fail(r)

Next ==
  \/ \E r \in Requesters : \/ \E q \in Offered[r] : Receive(r, q)
                           \/ HandlerStep(r)
                           \/ Accept(r)
  \/ Execute
  \/ Hangup
  \/ GuestEvent
  \/ Exit

Spec == Init /\ [][Next]_vars

\* Goroutines are scheduled, and the deadline of a connection always passes.
FairSpec == Spec /\ \A r \in Requesters : WF_vars(HandlerStep(r))

-----------------------------------------------------------------------------
(* Properties.                                                             *)

Has(q, call) == \E i \in DOMAIN Plan(q) : Plan(q)[i] = call

TypeOK ==
  /\ run \in RunStates
  /\ session \in Sessions
  /\ conn \in [Requesters -> {"none", "dialed", "served"}]
  /\ lines \in [Requesters -> Seq(Lines)]
  /\ req \in [Requesters -> Request \cup {NoRequest}]
  /\ todo \in [Requesters -> Seq(Calls)]
  /\ step \in [Requesters -> 1..9]
  /\ answer \in [Requesters -> Answers]
  /\ result \in [Requesters -> {"none", "nil", "On", "Off", "error"}]
  /\ seen \in [Requesters -> SUBSET RunStates]
  /\ done \in [Requesters -> SUBSET (Commands \X RunStates)]

\* A status of On, and a refusal because the server "is already powered on",
\* are given only if the VM was running at some moment of that PowerStatus
\* call: the lines the guest's events add cannot make PowerStatus say On.
OnWasRunning ==
  \A r \in Requesters : answer[r].status = "On" => "running" \in seen[r]

\* A status of Off, and a refusal because the server "is already powered
\* off", are given only if the VM was stopped at some moment of that call.
OffWasStopped ==
  \A r \in Requesters : answer[r].status = "Off" => "stopped" \in seen[r]

\* A power request that is answered with success has made the change itself:
\* its own stop met a running VM, its own cont a stopped one, however the
\* other front ends' commands fall in between.
SuccessMadeTheChange ==
  \A r \in Requesters : answer[r].code = "ok" =>
    /\ Has(answer[r].to, "PowerOff") => <<"stop", "running">> \in done[r]
    /\ Has(answer[r].to, "PowerOn")  => <<"cont", "stopped">> \in done[r]

\* A request that is refused (409, "already powered on/off") ran no command
\* that could change the VM.
RefusalTouchedNothing ==
  \A r \in Requesters : answer[r].code = "conflict" =>
    done[r] \subseteq {"qmp_capabilities", "query-status"} \X RunStates

\* A restart or power cycle resets the guest only after its own stop has
\* stopped it: a failed PowerOff ends the request before PowerOn.
RestartStopsFirst ==
  \A r \in Requesters : \A q \in {req[r], answer[r].to} \ {NoRequest} :
    (Has(q, "PowerOff") /\ \E s \in RunStates : <<"system_reset", s>> \in done[r])
      => <<"stop", "running">> \in done[r]

\* r has served no request so far.
Untouched(r) == req[r] = NoRequest /\ answer[r] = NoAnswer

\* A power-on that reads the status first resets no running guest.  The
\* check and the reset are on different connections, so this is for a front
\* end that has had the VM to itself; what its own failed calls left behind in
\* QEMU does not matter.
PowerUpResetsNoRunningGuest ==
  \A r \in Requesters : (\A o \in Requesters \ {r} : Untouched(o)) =>
    \A q \in {req[r], answer[r].to} \ {NoRequest} :
      Plan(q) = <<"PowerStatus", "PowerOn">> => <<"system_reset", "running">> \notin done[r]

\* Every request is answered: the deadline ends a call that waits for a line
\* QEMU never sends, or for a connection that QEMU does not accept.
Answered ==
  \A r \in Requesters : req[r] # NoRequest ~> req[r] = NoRequest

-----------------------------------------------------------------------------
(* PowerControl implements PowerSwitch.                                    *)

\* The command by which a call acts.
Decisive(call) ==
  CASE call = "PowerStatus" -> "query-status"
    [] call = "PowerOn"     -> "cont"
    [] call = "PowerOff"    -> "stop"

\* The run state that the decisive command of r's current call met.
Met(r) ==
  LET met == {s \in RunStates : <<Decisive(Head(todo[r])), s>> \in done[r]}
  IN  IF met = {} THEN "none" ELSE CHOOSE s \in met : TRUE

PendingBar ==
  [r \in Requesters |->
    IF Calling(r) THEN [call |-> Head(todo[r]), met |-> Met(r)]
                  ELSE [call |-> "none", met |-> "none"]]

\* The call whose client closed the connection before QEMU ran its command.
StrayBar ==
  LET waiting == {c \in Calls : \E i \in DOMAIN session.cmds :
                                   session.cmds[i] = Decisive(c)}
  IN  IF Serving /\ ~Alive /\ waiting # {} THEN CHOOSE c \in waiting : TRUE ELSE "none"

Switch == INSTANCE PowerSwitch
            WITH Callers <- Requesters, power <- run, pending <- PendingBar, stray <- StrayBar

\* While the guest keeps quiet, every call of PowerStatus, PowerOn and
\* PowerOff acts on the VM in one step between its beginning and its return.
ImplementsSwitch == Switch!Spec

=============================================================================
