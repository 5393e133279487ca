------------------------ MODULE PowerControlProofs ------------------------
(***************************************************************************)
(* Proofs about PowerControl, for any set of goroutines, any requests they *)
(* are offered and any number of guest events.                             *)
(***************************************************************************)
EXTENDS PowerControl, TLAPS

-----------------------------------------------------------------------------
(* The handlers and the scripts.                                           *)

\* PowerStatus, where a handler makes it, is the first call of its plan.
StatusFirst(plan) == \A i \in 2..Len(plan) : plan[i] # "PowerStatus"

\* The commands that leave the VM alone.
Harmless == {"qmp_capabilities", "query-status"}

\* Every handler's plan is a sequence of calls in which only the first may be
\* PowerStatus: what server.go, ipmi_chassis.go and redfish_*.go call.
LEMMA PlanFacts ==
  \A q \in Request : /\ Plan(q) \in Seq(Calls)
                     /\ StatusFirst(Plan(q))
                     /\ q # NoRequest
PROOF
<1> DEFINE Good(p) == p \in Seq(Calls) /\ StatusFirst(p)
<1>1. /\ Good(<<>>)
      /\ Good(<<"PowerOn">>)
      /\ Good(<<"PowerOff">>)
      /\ Good(<<"PowerStatus">>)
      /\ Good(<<"PowerOff", "PowerOn">>)
      /\ Good(<<"PowerStatus", "PowerOn">>)
      /\ Good(<<"PowerStatus", "PowerOff">>)
      /\ Good(<<"PowerStatus", "PowerOff", "PowerOn">>)
  BY DEF Calls, StatusFirst
<1>2. \A h \in DOMAIN Handlers : \A o \in DOMAIN Handlers[h] : Good(Handlers[h][o])
  <2> HIDE DEF Good
  <2>1. \A o \in DOMAIN handleNodeAction : Good(handleNodeAction[o])
    BY <1>1 DEF handleNodeAction
  <2>2. \A o \in DOMAIN newNodeStatus : Good(newNodeStatus[o])
    BY <1>1 DEF newNodeStatus
  <2>3. \A o \in DOMAIN handleIPMIChassisControl : Good(handleIPMIChassisControl[o])
    BY <1>1 DEF handleIPMIChassisControl
  <2>4. \A o \in DOMAIN handleIPMIChassis : Good(handleIPMIChassis[o])
    BY <1>1 DEF handleIPMIChassis
  <2>5. \A o \in DOMAIN handleComputerSystemActionsReset :
          Good(handleComputerSystemActionsReset[o])
    BY <1>1 DEF handleComputerSystemActionsReset
  <2>6. \A o \in DOMAIN handleComputerSystem : Good(handleComputerSystem[o])
    BY <1>1 DEF handleComputerSystem
  <2>7. \A o \in DOMAIN handleChassisActionsReset : Good(handleChassisActionsReset[o])
    BY <1>1 DEF handleChassisActionsReset
  <2>8. \A o \in DOMAIN handleChassis : Good(handleChassis[o])
    BY <1>1 DEF handleChassis
  <2> QED
    BY <2>1, <2>2, <2>3, <2>4, <2>5, <2>6, <2>7, <2>8 DEF Handlers
<1>3. "none" \notin DOMAIN Handlers
  BY DEF Handlers
<1>4. ASSUME NEW q \in Request
      PROVE  q[1] \in DOMAIN Handlers /\ q[2] \in DOMAIN Handlers[q[1]]
  BY DEF Request
<1> QED
  BY <1>2, <1>3, <1>4 DEF Plan, NoRequest

\* Every script ends with a read, and that of PowerStatus holds only commands
\* that leave the VM alone.
LEMMA ScriptFacts ==
  ASSUME NEW c \in Calls
  PROVE  /\ Len(Script[c]) \in 1..9
         /\ Script[c][Len(Script[c])] = "read"
         /\ c = "PowerStatus" =>
              \A i \in 1..Len(Script[c]) : Script[c][i] \in Harmless \cup {"read"}
PROOF
<1>1. CASE c = "PowerStatus"
  <2>1. Script[c] = PowerStatus
    BY <1>1 DEF Script
  <2>2. /\ Len(PowerStatus) = 5
        /\ PowerStatus[5] = "read"
        /\ \A i \in 1..5 : PowerStatus[i] \in Harmless \cup {"read"}
    BY DEF PowerStatus, Harmless
  <2> QED
    BY <2>1, <2>2
<1>2. CASE c = "PowerOn"
  <2>1. Script[c] = PowerOn
    BY <1>2 DEF Script
  <2>2. Len(PowerOn) = 9 /\ PowerOn[9] = "read"
    BY DEF PowerOn
  <2> QED
    BY <1>2, <2>1, <2>2
<1>3. CASE c = "PowerOff"
  <2>1. Script[c] = PowerOff
    BY <1>3 DEF Script
  <2>2. Len(PowerOff) = 6 /\ PowerOff[6] = "read"
    BY DEF PowerOff
  <2> QED
    BY <1>3, <2>1, <2>2
<1> QED
  BY <1>1, <1>2, <1>3 DEF Calls

-----------------------------------------------------------------------------
(* The bookkeeping of requests, calls and connections.                     *)

\* A goroutine that handles a request has a call to make, its position is one
\* of that call's script, and it has not answered; QEMU serves a goroutine of
\* placemat or nobody; a connection it has not accepted has no lines.
CallInv ==
  /\ session = NoSession \/ session.client \in Requesters
  /\ \A r \in Requesters :
       /\ req[r] = NoRequest <=> todo[r] = <<>>
       /\ Calling(r) => req[r] # NoRequest
       /\ req[r] # NoRequest => answer[r] = NoAnswer
       /\ ~Calling(r) => step[r] = 1
       /\ todo[r] # <<>> => step[r] <= Len(Script[Head(todo[r])])
       /\ conn[r] # "served" => lines[r] = <<>>

\* TypeOK is not inductive alone: that step stays within 1..9 needs CallInv.
TypeInv == TypeOK /\ CallInv

LEMMA TypeInit == Init => TypeInv
PROOF
<1> SUFFICES ASSUME Init PROVE TypeInv
  OBVIOUS
<1>1. NoSession \in Sessions
  BY DEF NoSession, Sessions
<1>2. NoAnswer \in Answers
  BY DEF NoAnswer, Answers
<1>3. TypeOK
  BY <1>1, <1>2 DEF Init, TypeOK, RunStates
<1>4. CallInv
  BY DEF Init, CallInv, Calling
<1> QED
  BY <1>3, <1>4 DEF TypeInv

\* What TypeInv says of a goroutine with a call under way.
LEMMA CallFacts ==
  ASSUME TypeInv, NEW r \in Requesters, Calling(r)
  PROVE  /\ todo[r] \in Seq(Calls)
         /\ todo[r] # <<>>
         /\ Head(todo[r]) \in Calls
         /\ Tail(todo[r]) \in Seq(Calls)
         /\ Len(Script[Head(todo[r])]) \in 1..9
         /\ step[r] \in 1..Len(Script[Head(todo[r])])
         /\ req[r] \in Request
         /\ answer[r] = NoAnswer
PROOF
<1>1. todo[r] \in Seq(Calls) /\ step[r] \in 1..9 /\ req[r] \in Request \cup {NoRequest}
  BY DEF TypeInv, TypeOK
<1>2. req[r] # NoRequest /\ todo[r] # <<>> /\ answer[r] = NoAnswer
  BY DEF TypeInv, CallInv
<1>3. step[r] <= Len(Script[Head(todo[r])])
  BY <1>2 DEF TypeInv, CallInv
<1>4. Head(todo[r]) \in Calls /\ Tail(todo[r]) \in Seq(Calls)
  BY <1>1, <1>2
<1>5. Len(Script[Head(todo[r])]) \in 1..9
  BY <1>4, ScriptFacts
<1> QED
  BY <1>1, <1>2, <1>3, <1>4, <1>5

LEMMA NextStep ==
  ASSUME NEW n \in 1..9, NEW i \in 1..n, i # n
  PROVE  i + 1 \in 1..n /\ i + 1 \in 1..9
PROOF
  OBVIOUS

\* A call that ends its request keeps TypeInv.
LEMMA FinishType ==
  ASSUME TypeInv, NEW r \in Requesters, NEW a \in Answers,
         NEW v \in {"none", "nil", "On", "Off", "error"},
         Finish(r, a), Close(r), result' = [result EXCEPT ![r] = v],
         UNCHANGED <<run, session, seen, done>>
  PROVE  TypeInv'
PROOF
<1>1. TypeOK'
  BY DEF TypeInv, TypeOK, Finish, Close
<1>2. /\ req'[r] = NoRequest /\ todo'[r] = <<>>
      /\ step'[r] = 1 /\ lines'[r] = <<>> /\ conn'[r] = "none"
  BY DEF TypeInv, TypeOK, Finish, Close
<1>3. \A s \in Requesters \ {r} :
        UNCHANGED <<req[s], todo[s], answer[s], step[s], lines[s], conn[s]>>
  BY DEF TypeInv, TypeOK, Finish, Close
<1>4. CallInv'
  BY <1>2, <1>3 DEF TypeInv, CallInv, Calling
<1> QED
  BY <1>1, <1>4 DEF TypeInv

\* What QEMU answers to a command is a sequence of lines.
LEMMA ResponseType == \A cmd : Response(cmd) \in Seq(Lines)
PROOF
<1> SUFFICES ASSUME NEW cmd PROVE Response(cmd) \in Seq(Lines)
  OBVIOUS
<1>1. {"return", "event", "running", "notRunning"} \subseteq Lines
  BY DEF Lines
<1>2. \/ Response(cmd) = <<"return">>
      \/ Response(cmd) = <<"return", "event">>
      \/ Response(cmd) = <<"running">>
      \/ Response(cmd) = <<"notRunning">>
  BY DEF Response
<1>3. \A x, y \in Lines : <<x>> \in Seq(Lines) /\ <<x, y>> \in Seq(Lines)
  OBVIOUS
<1> QED
  BY <1>1, <1>2, <1>3, Zenon

LEMMA TypeNext == TypeInv /\ [Next]_vars => TypeInv'
PROOF
<1> SUFFICES ASSUME TypeInv, [Next]_vars PROVE TypeInv'
  OBVIOUS
<1> USE DEF TypeInv
<1>1. ASSUME NEW r \in Requesters, NEW q \in Offered[r], Receive(r, q)
      PROVE  TypeInv'
  <2>1. q \in Request
    BY PowerAssumption
  <2>2. Plan(q) \in Seq(Calls) /\ q # NoRequest
    BY <2>1, PlanFacts
  <2>3. NoAnswer \in Answers /\ [to |-> q, code |-> NoCallAnswer(q), status |-> "none"] \in Answers
    BY <2>1 DEF NoAnswer, Answers, NoCallAnswer
  <2>4. CASE Plan(q) = <<>>
    <3>1. TypeOK'
      BY <1>1, <2>3, <2>4, Zenon DEF TypeOK, Receive
    <3>2. CallInv'
      BY <1>1, <2>4 DEF TypeOK, CallInv, Receive, Calling
    <3> QED
      BY <3>1, <3>2
  <2>5. CASE Plan(q) # <<>>
    <3>1. /\ req'  = [req  EXCEPT ![r] = q]
          /\ todo' = [todo EXCEPT ![r] = Plan(q)]
          /\ answer' = [answer EXCEPT ![r] = NoAnswer]
          /\ seen' = [seen EXCEPT ![r] = {}]
          /\ done' = [done EXCEPT ![r] = {}]
          /\ UNCHANGED <<run, session, conn, lines, step, result>>
          /\ req[r] = NoRequest
      BY <1>1, <2>5 DEF Receive
    <3>2. TypeOK'
      BY <2>1, <2>2, <2>3, <3>1 DEF TypeOK
    <3>3. Len(Script[Head(Plan(q))]) \in 1..9
      BY <2>2, <2>5, ScriptFacts
    <3>4. ~Calling(r) /\ step[r] = 1 /\ conn[r] = "none" /\ lines[r] = <<>>
      BY <3>1 DEF TypeOK, CallInv, Calling
    <3>5. req'[r] = q /\ todo'[r] = Plan(q) /\ answer'[r] = NoAnswer
      BY <3>1 DEF TypeOK
    <3>6. \A s \in Requesters \ {r} : UNCHANGED <<req[s], todo[s], answer[s]>>
      BY <3>1 DEF TypeOK
    <3>7. CallInv'
      <4>1. \A n \in 1..9 : 1 <= n
        OBVIOUS
      <4>2. 1 <= Len(Script[Head(todo'[r])])
        BY <3>3, <3>5, <4>1, Zenon
      <4> QED
        BY <2>2, <2>5, <3>1, <3>4, <3>5, <3>6, <4>2 DEF CallInv, Calling
    <3> QED
      BY <3>2, <3>7
  <2> QED
    BY <2>4, <2>5
<1>2. ASSUME NEW r \in Requesters, Dial(r)
      PROVE  TypeInv'
  <2>1. TypeOK'
    BY <1>2 DEF TypeOK, Dial
  <2>2. CallInv'
    BY <1>2 DEF TypeOK, CallInv, Dial, Calling
  <2> QED
    BY <2>1, <2>2
<1>3. ASSUME NEW r \in Requesters, DialRefused(r)
      PROVE  TypeInv'
  <2>1. ErrorAnswer(req[r]) \in Answers
    BY DEF TypeOK, ErrorAnswer, Answers
  <2>2. TypeOK'
    BY <1>3, <2>1 DEF TypeOK, DialRefused, Finish
  <2>3. CallInv'
    BY <1>3 DEF TypeOK, CallInv, DialRefused, Finish, Calling
  <2> QED
    BY <2>2, <2>3
<1>4. ASSUME NEW r \in Requesters, WriteCommand(r)
      PROVE  TypeInv'
  <2> DEFINE n == Len(Script[Head(todo[r])])
  <2>1. Calling(r) /\ Instruction(r) \in Commands
    BY <1>4 DEF WriteCommand
  <2>2. Head(todo[r]) \in Calls /\ n \in 1..9 /\ step[r] \in 1..n
    BY <2>1, CallFacts
  <2>3. step[r] # n
    BY <2>1, <2>2, ScriptFacts DEF Instruction, Commands
  <2>4. step[r] + 1 \in 1..n /\ step[r] + 1 \in 1..9
    BY <2>2, <2>3, NextStep, Zenon
  <2>5. session' \in Sessions /\ session'.client = session.client
    <3>1. session \in Sessions /\ session.cmds \in Seq(Commands)
      BY DEF TypeOK, Sessions
    <3>2. Append(session.cmds, Instruction(r)) \in Seq(Commands)
      BY <2>1, <3>1
    <3> QED
      BY <1>4, <3>1, <3>2, Zenon DEF WriteCommand, Sessions
  <2>6. TypeOK'
    BY <1>4, <2>4, <2>5 DEF TypeOK, WriteCommand
  <2>7. CallInv'
    <3> HIDE DEF n
    <3>1. step' = [step EXCEPT ![r] = step[r] + 1] /\ step \in [Requesters -> 1..9]
      BY <1>4 DEF WriteCommand, TypeOK
    <3>2. UNCHANGED <<conn, lines, req, todo, answer>>
      BY <1>4 DEF WriteCommand
    <3>3. step'[r] <= Len(Script[Head(todo[r])])
      BY <2>4, <3>1, <2>2 DEF n
    <3>4. session' = NoSession \/ session'.client \in Requesters
      BY <1>4, <2>5 DEF CallInv, WriteCommand, Serving
    <3> QED
      BY <2>1, <3>1, <3>2, <3>3, <3>4 DEF CallInv, Calling
  <2> QED
    BY <2>6, <2>7
<1>5. ASSUME NEW r \in Requesters, Read(r)
      PROVE  TypeInv'
  <2>1. Calling(r) /\ ~LastStep(r)
    BY <1>5 DEF Read
  <2>2. Len(Script[Head(todo[r])]) \in 1..9 /\ step[r] \in 1..Len(Script[Head(todo[r])])
    BY <2>1, CallFacts
  <2>3. step[r] + 1 \in 1..Len(Script[Head(todo[r])]) /\ step[r] + 1 \in 1..9
    BY <2>1, <2>2, NextStep, Zenon DEF LastStep
  <2>4. lines[r] \in Seq(Lines) /\ Tail(lines[r]) \in Seq(Lines)
    BY <1>5 DEF TypeOK, Read
  <2>5. TypeOK'
    BY <1>5, <2>3, <2>4 DEF TypeOK, Read
  <2>6. CallInv'
    <3>1. /\ step' = [step EXCEPT ![r] = step[r] + 1] /\ step \in [Requesters -> 1..9]
          /\ lines' = [lines EXCEPT ![r] = Tail(lines[r])] /\ lines \in [Requesters -> Seq(Lines)]
          /\ lines[r] # <<>>
      BY <1>5 DEF Read, TypeOK
    <3>2. UNCHANGED <<session, conn, req, todo, answer>>
      BY <1>5 DEF Read
    <3>3. step'[r] <= Len(Script[Head(todo[r])])
      BY <2>3, <2>2, <3>1
    <3> QED
      BY <2>1, <3>1, <3>2, <3>3 DEF CallInv, Calling
  <2> QED
    BY <2>5, <2>6
<1>6. ASSUME NEW r \in Requesters, Return(r)
      PROVE  TypeInv'
  <2> DEFINE value == IF Head(todo[r]) = "PowerStatus" THEN ParseStatus(Head(lines[r])) ELSE "nil"
  <2>1. Calling(r) /\ Proceed(r, value) /\ Close(r) /\ UNCHANGED <<run, session, seen, done>>
        /\ result' = [result EXCEPT ![r] = value]
    BY <1>6 DEF Return
  <2>2. value \in {"On", "Off", "nil"}
    BY DEF ParseStatus
  <2> HIDE DEF value
  <2>3. \A c \in {"ok", "conflict"} : [to |-> req[r], code |-> c, status |-> value] \in Answers
    BY <2>1, <2>2, CallFacts DEF Answers
  <2>4. CASE \E a \in Answers : Finish(r, a)
    BY <2>1, <2>2, <2>4, FinishType, Zenon
  <2>5. CASE /\ todo' = [todo EXCEPT ![r] = Tail(todo[r])]
             /\ Tail(todo[r]) # <<>>
             /\ UNCHANGED <<req, answer>>
    <3>1. Tail(todo[r]) \in Seq(Calls) /\ todo[r] # <<>> /\ req[r] # NoRequest
      BY <2>1, CallFacts, PlanFacts
    <3>2. TypeOK'
      BY <2>1, <2>2, <2>5, <3>1 DEF TypeOK, Close
    <3>3. Len(Script[Head(Tail(todo[r]))]) \in 1..9
      BY <2>5, <3>1, ScriptFacts
    <3>4. /\ todo'[r] = Tail(todo[r])
          /\ step'[r] = 1 /\ lines'[r] = <<>> /\ conn'[r] = "none"
      BY <2>1, <2>5 DEF TypeOK, Close
    <3>5. \A s \in Requesters \ {r} : UNCHANGED <<todo[s], step[s], lines[s], conn[s]>>
      BY <2>1, <2>5 DEF TypeOK, Close
    <3>6. CallInv'
      <4>1. \A n \in 1..9 : 1 <= n
        OBVIOUS
      <4>2. 1 <= Len(Script[Head(todo'[r])])
        BY <3>3, <3>4, <4>1, Zenon
      <4> QED
        BY <2>1, <2>5, <3>1, <3>4, <3>5, <4>2, Zenon DEF CallInv, Calling
    <3> QED
      BY <3>2, <3>6
  <2> QED
    BY <2>1, <2>3, <2>4, <2>5 DEF Proceed
<1>7. ASSUME NEW r \in Requesters, Fail(r)
      PROVE  TypeInv'
  <2>1. Calling(r) /\ Close(r) /\ UNCHANGED <<run, session, seen, done>>
        /\ Finish(r, ErrorAnswer(req[r])) /\ result' = [result EXCEPT ![r] = "error"]
    BY <1>7 DEF Fail
  <2>2. ErrorAnswer(req[r]) \in Answers
    BY DEF TypeOK, ErrorAnswer, Answers
  <2> QED
    BY <2>1, <2>2, FinishType, Zenon
<1>8. ASSUME NEW r \in Requesters, Accept(r)
      PROVE  TypeInv'
  <2>1. session' \in Sessions /\ session'.client = r
    BY <1>8 DEF Accept, Sessions
  <2>2. <<"greeting">> \in Seq(Lines)
    BY DEF Lines
  <2>3. TypeOK'
    BY <1>8, <2>1, <2>2 DEF TypeOK, Accept
  <2>4. CallInv'
    BY <1>8, <2>1 DEF TypeOK, CallInv, Accept, Calling
  <2> QED
    BY <2>3, <2>4
<1>9. CASE Execute
  <2> DEFINE cmd == Head(session.cmds)
  <2>1. /\ session \in Sessions /\ session.cmds \in Seq(Commands) /\ session.cmds # <<>>
        /\ session.client \in Requesters /\ cmd \in Commands
    BY <1>9 DEF TypeOK, CallInv, Execute, Serving, Sessions
  <2>2. run' \in RunStates /\ run \in RunStates /\ RunAfter(cmd) \in RunStates /\ run' = RunAfter(cmd)
    BY <1>9 DEF TypeOK, Execute, RunAfter, RunStates
  <2>3. session' \in Sessions /\ session'.client = session.client
    <3>1. Tail(session.cmds) \in Seq(Commands)
      BY <2>1
    <3>2. session.negotiated \in BOOLEAN
      BY <2>1 DEF Sessions
    <3>3. session' = [session EXCEPT !.cmds = Tail(session.cmds),
                                     !.negotiated = session.negotiated \/ cmd = "qmp_capabilities"]
      BY <1>9 DEF Execute
    <3>4. (session.negotiated \/ cmd = "qmp_capabilities") \in BOOLEAN
      OBVIOUS
    <3> QED
      BY <2>1, <3>1, <3>3, <3>4, Zenon DEF Sessions
  <2>4. Response(cmd) \in Seq(Lines)
    BY ResponseType
  <2>5. lines' \in [Requesters -> Seq(Lines)]
    <3>1. lines \in [Requesters -> Seq(Lines)]
      BY DEF TypeOK
    <3>2. lines[session.client] \o Response(cmd) \in Seq(Lines)
      BY <2>1, <2>4, <3>1
    <3>3. \/ lines' = [lines EXCEPT ![session.client] = lines[session.client] \o Response(cmd)]
          \/ lines' = lines
      BY <1>9, Zenon DEF Execute
    <3> QED
      BY <3>1, <3>2, <3>3, Zenon
  <2>6. done' \in [Requesters -> SUBSET (Commands \X RunStates)]
    <3>1. done \in [Requesters -> SUBSET (Commands \X RunStates)]
      BY DEF TypeOK
    <3>2. done[session.client] \cup {<<cmd, run>>} \in SUBSET (Commands \X RunStates)
      BY <2>1, <2>2, <3>1
    <3>3. \/ done' = [done EXCEPT ![session.client] = done[session.client] \cup {<<cmd, run>>}]
          \/ done' = done
      BY <1>9, Zenon DEF Execute
    <3> QED
      BY <3>1, <3>2, <3>3
  <2>7. seen' \in [Requesters -> SUBSET RunStates]
    BY <1>9, <2>2 DEF TypeOK, Execute, Witness
  <2>8. TypeOK'
    BY <1>9, <2>2, <2>3, <2>5, <2>6, <2>7 DEF TypeOK, Execute
  <2>9. \A r \in Requesters : conn[r] # "served" => lines'[r] = lines[r]
    BY <1>9, Zenon DEF TypeOK, Execute, Alive
  <2>10. CallInv'
    BY <1>9, <2>1, <2>3, <2>9 DEF CallInv, Execute, Calling
  <2> QED
    BY <2>8, <2>10
<1>10. CASE Hangup
  <2>1. NoSession \in Sessions
    BY DEF NoSession, Sessions
  <2> QED
    BY <1>10, <2>1 DEF TypeOK, CallInv, Hangup, Calling
<1>11. CASE GuestEvent
  <2>1. \A r \in Requesters : Append(lines[r], "event") \in Seq(Lines)
    <3>1. lines \in [Requesters -> Seq(Lines)] /\ "event" \in Lines
      BY DEF TypeOK, Lines
    <3> QED
      BY <3>1
  <2>2. TypeOK'
    BY <1>11, <2>1, Zenon DEF TypeOK, GuestEvent
  <2>3. \A r \in Requesters : conn[r] # "served" => lines'[r] = lines[r]
    BY <1>11 DEF TypeOK, GuestEvent, Alive
  <2>4. CallInv'
    BY <1>11, <2>3, Zenon DEF CallInv, GuestEvent, Calling
  <2> QED
    BY <2>2, <2>4
<1>12. CASE Exit
  <2>1. NoSession \in Sessions
    BY DEF NoSession, Sessions
  <2>2. seen' \in [Requesters -> SUBSET RunStates]
    BY <1>12 DEF TypeOK, Exit, Witness, RunStates
  <2>3. TypeOK'
    BY <1>12, <2>1, <2>2 DEF TypeOK, Exit, RunStates
  <2>4. CallInv'
    BY <1>12 DEF CallInv, Exit, Calling
  <2> QED
    BY <2>3, <2>4
<1>13. CASE UNCHANGED vars
  BY <1>13 DEF TypeOK, CallInv, vars, Calling
<1> QED
  BY <1>1, <1>2, <1>3, <1>4, <1>5, <1>6, <1>7, <1>8, <1>9, <1>10, <1>11, <1>12, <1>13
  DEF Next, HandlerStep

\* Type correctness of power control: in particular the position in a script
\* never leaves it, so each call of pkg/vm/node.go reads and writes in its order.
THEOREM TypeCorrect == Spec => []TypeOK
PROOF
<1>1. Spec => []TypeInv
  BY TypeInit, TypeNext, PTL DEF Spec
<1>2. TypeInv => TypeOK
  BY DEF TypeInv
<1> QED
  BY <1>1, <1>2, PTL

\* The stronger invariant itself, for the theorems below.
LEMMA TypeInvariant == Spec => []TypeInv
PROOF
  BY TypeInit, TypeNext, PTL DEF Spec

-----------------------------------------------------------------------------
(* A status of On.                                                         *)

\* The run state now is one that the call has seen, and so is that of every
\* "running" line on its connection.
SeenOf(r) ==
  Calling(r) => /\ run \in seen[r]
                /\ \A i \in 1..Len(lines[r]) : lines[r][i] = "running" => "running" \in seen[r]

OnOf(r) == SeenOf(r) /\ (answer[r].status = "On" => "running" \in seen[r])

OnInv == \A r \in Requesters : OnOf(r)

LEMMA OnInit == Init => OnInv
PROOF
<1> SUFFICES ASSUME Init, NEW r \in Requesters PROVE OnOf(r)
  BY Zenon DEF OnInv
<1>1. conn[r] = "none" /\ answer[r] = NoAnswer
  BY DEF Init
<1>2. NoAnswer.status = "none"
  BY DEF NoAnswer
<1> QED
  BY <1>1, <1>2 DEF OnOf, SeenOf, Calling

\* A step that leaves r's call and answer alone and QEMU's run state as it was.
LEMMA OnFrame ==
  ASSUME NEW r \in Requesters, OnOf(r), UNCHANGED run,
         UNCHANGED <<conn[r], lines[r], answer[r], seen[r]>>
  PROVE  OnOf(r)'
PROOF
  BY DEF OnOf, SeenOf, Calling

LEMMA OnNext == TypeInv /\ OnInv /\ [Next]_vars => OnInv'
PROOF
<1> SUFFICES ASSUME TypeInv, OnInv, [Next]_vars, NEW s \in Requesters
             PROVE  OnOf(s)'
  BY DEF OnInv
<1>0. /\ OnOf(s)
      /\ run \in RunStates /\ seen \in [Requesters -> SUBSET RunStates]
      /\ conn \in [Requesters -> {"none", "dialed", "served"}]
      /\ lines \in [Requesters -> Seq(Lines)]
      /\ answer \in [Requesters -> Answers]
  BY DEF OnInv, TypeInv, TypeOK
<1>1. ASSUME NEW r \in Requesters, NEW q \in Offered[r], Receive(r, q)
      PROVE  OnOf(s)'
  <2>1. CASE s = r
    <3>1. ~Calling(r)'
      BY <1>1 DEF Receive, TypeInv, CallInv, Calling
    <3>2. answer'[r].status = "none"
      BY <1>0, <1>1 DEF Receive, NoAnswer
    <3> QED
      BY <2>1, <3>1, <3>2 DEF OnOf, SeenOf
  <2>2. CASE s # r
    BY <1>0, <1>1, <2>2, OnFrame DEF Receive
  <2> QED
    BY <2>1, <2>2
<1>2. ASSUME NEW r \in Requesters, Dial(r)
      PROVE  OnOf(s)'
  <2>1. CASE s = r
    <3>1. lines'[r] = <<>> /\ answer'[r].status = "none"
      BY <1>2 DEF Dial, TypeInv, CallInv, Calling, NoAnswer
    <3>2. run' \in seen'[r]
      BY <1>0, <1>2 DEF Dial
    <3> QED
      BY <2>1, <3>1, <3>2 DEF OnOf, SeenOf
  <2>2. CASE s # r
    BY <1>0, <1>2, <2>2, OnFrame DEF Dial
  <2> QED
    BY <2>1, <2>2
<1>3. ASSUME NEW r \in Requesters, DialRefused(r)
      PROVE  OnOf(s)'
  <2>1. CASE s = r
    <3>1. ~Calling(r)'
      BY <1>3 DEF DialRefused, Calling
    <3>2. answer'[r].status # "On"
      BY <1>0, <1>3 DEF DialRefused, Finish, ErrorAnswer
    <3> QED
      BY <2>1, <3>1, <3>2 DEF OnOf, SeenOf
  <2>2. CASE s # r
    BY <1>0, <1>3, <2>2, OnFrame DEF DialRefused, Finish
  <2> QED
    BY <2>1, <2>2
<1>4. ASSUME NEW r \in Requesters, WriteCommand(r)
      PROVE  OnOf(s)'
  BY <1>0, <1>4, OnFrame DEF WriteCommand
<1>5. ASSUME NEW r \in Requesters, Read(r)
      PROVE  OnOf(s)'
  <2>1. CASE s = r
    <3>1. lines[r] \in Seq(Lines) /\ lines[r] # <<>> /\ lines'[r] = Tail(lines[r])
      BY <1>0, <1>5 DEF Read
    <3>2. \A i \in 1..Len(lines'[r]) : i + 1 \in 1..Len(lines[r]) /\ lines'[r][i] = lines[r][i + 1]
      BY <3>1
    <3> QED
      BY <1>0, <1>5, <2>1, <3>2 DEF Read, OnOf, SeenOf, Calling
  <2>2. CASE s # r
    BY <1>0, <1>5, <2>2, OnFrame DEF Read
  <2> QED
    BY <2>1, <2>2
<1>6. ASSUME NEW r \in Requesters, Return(r)
      PROVE  OnOf(s)'
  <2> DEFINE value == IF Head(todo[r]) = "PowerStatus" THEN ParseStatus(Head(lines[r])) ELSE "nil"
  <2>1. Calling(r) /\ lines[r] # <<>> /\ Proceed(r, value) /\ Close(r) /\ UNCHANGED <<run, seen>>
    BY <1>6, Zenon DEF Return
  <2>2. value = "On" => "running" \in seen[r]
    <3>1. lines[r] \in Seq(Lines) /\ OnOf(r)
      BY <1>0 DEF OnInv
    <3>2. 1 \in 1..Len(lines[r]) /\ Head(lines[r]) = lines[r][1]
      BY <2>1, <3>1
    <3>3. value = "On" => Head(lines[r]) = "running"
      BY DEF ParseStatus
    <3> QED
      BY <2>1, <3>1, <3>2, <3>3 DEF OnOf, SeenOf
  <2> HIDE DEF value
  <2>3. CASE s = r
    <3>1. ~Calling(r)'
      BY <1>0, <2>1 DEF Close, Calling
    <3>2. answer'[r].status = "On" => value = "On"
      <4>1. answer[r].status = "none"
        BY <2>1, CallFacts DEF NoAnswer
      <4>2. \/ answer' = answer
            \/ \E c \in {"ok", "conflict"} :
                 answer' = [answer EXCEPT ![r] = [to |-> req[r], code |-> c, status |-> value]]
        BY <2>1 DEF Proceed, Finish
      <4> QED
        BY <1>0, <4>1, <4>2
    <3> QED
      BY <2>1, <2>2, <2>3, <3>1, <3>2 DEF OnOf, SeenOf
  <2>4. CASE s # r
    BY <1>0, <2>1, <2>4, OnFrame, Zenon DEF Proceed, Finish, Close
  <2> QED
    BY <2>3, <2>4
<1>7. ASSUME NEW r \in Requesters, Fail(r)
      PROVE  OnOf(s)'
  <2>1. CASE s = r
    <3>1. ~Calling(r)'
      BY <1>0, <1>7 DEF Fail, Close, Calling
    <3>2. answer'[r].status # "On"
      BY <1>0, <1>7 DEF Fail, Finish, ErrorAnswer
    <3> QED
      BY <2>1, <3>1, <3>2 DEF OnOf, SeenOf
  <2>2. CASE s # r
    BY <1>0, <1>7, <2>2, OnFrame DEF Fail, Finish, Close
  <2> QED
    BY <2>1, <2>2
<1>8. ASSUME NEW r \in Requesters, Accept(r)
      PROVE  OnOf(s)'
  <2>1. CASE s = r
    <3>1. lines'[r] = <<"greeting">> /\ Calling(r)
      BY <1>0, <1>8 DEF Accept, Calling
    <3> QED
      BY <1>0, <1>8, <2>1, <3>1 DEF Accept, OnOf, SeenOf
  <2>2. CASE s # r
    BY <1>0, <1>8, <2>2, OnFrame DEF Accept
  <2> QED
    BY <2>1, <2>2
<1>9. CASE Execute
  <2> DEFINE cmd == Head(session.cmds)
  <2>1. run' = RunAfter(cmd) /\ UNCHANGED <<conn, answer>>
    BY <1>9 DEF Execute
  <2>2. /\ seen[s] \subseteq seen'[s]
        /\ Calling(s) => run' \in seen'[s]
    BY <1>0, <1>9, <2>1 DEF Execute, Witness
  <2>3. \A i \in 1..Len(Response(cmd)) : Response(cmd)[i] = "running" => run = "running"
    <3>1. CASE cmd = "query-status"
      <4>1. Response(cmd) = IF run = "running" THEN <<"running">> ELSE <<"notRunning">>
        BY <3>1 DEF Response
      <4>2. CASE run = "running"
        BY <4>2
      <4>3. CASE run # "running"
        BY <4>1, <4>3
      <4> QED
        BY <4>2, <4>3
    <3>2. CASE cmd # "query-status"
      BY <3>2 DEF Response
    <3> QED
      BY <3>1, <3>2
  <2>4. Response(cmd) \in Seq(Lines)
    BY ResponseType
  <2>5. lines'[s] = lines[s] \/ lines'[s] = lines[s] \o Response(cmd)
    BY <1>0, <1>9, Zenon DEF Execute
  <2> HIDE DEF cmd
  <2>6. ASSUME Calling(s), NEW i \in 1..Len(lines'[s]), lines'[s][i] = "running"
        PROVE  "running" \in seen[s]
    <3>1. lines[s] \in Seq(Lines)
      BY <1>0
    <3>2. CASE i \in 1..Len(lines[s]) /\ lines'[s][i] = lines[s][i]
      BY <1>0, <2>6, <3>2 DEF OnOf, SeenOf
    <3>3. CASE i - Len(lines[s]) \in 1..Len(Response(cmd))
               /\ lines'[s][i] = Response(cmd)[i - Len(lines[s])]
      BY <1>0, <2>3, <2>6, <3>3, Zenon DEF OnOf, SeenOf
    <3> QED
      BY <2>4, <2>5, <2>6, <3>1, <3>2, <3>3
  <2> QED
    BY <1>0, <2>1, <2>2, <2>6 DEF OnOf, SeenOf, Calling
<1>10. CASE Hangup
  BY <1>0, <1>10, OnFrame DEF Hangup
<1>11. CASE GuestEvent
  <2>1. lines[s] \in Seq(Lines)
    BY <1>0
  <2>2. lines'[s] = lines[s] \/ lines'[s] = Append(lines[s], "event")
    BY <1>0, <1>11 DEF GuestEvent
  <2>3. \A i \in 1..Len(lines'[s]) : lines'[s][i] = "running" =>
          i \in 1..Len(lines[s]) /\ lines[s][i] = "running"
    BY <2>1, <2>2
  <2> QED
    BY <1>0, <1>11, <2>3 DEF GuestEvent, OnOf, SeenOf, Calling
<1>12. CASE Exit
  <2>1. /\ seen[s] \subseteq seen'[s]
        /\ Calling(s) => run' \in seen'[s]
    BY <1>0, <1>12 DEF Exit, Witness
  <2> QED
    BY <1>0, <1>12, <2>1 DEF Exit, OnOf, SeenOf, Calling
<1>13. CASE UNCHANGED vars
  BY <1>0, <1>13, OnFrame DEF vars
<1> QED
  BY <1>1, <1>2, <1>3, <1>4, <1>5, <1>6, <1>7, <1>8, <1>9, <1>10, <1>11, <1>12, <1>13
  DEF Next, HandlerStep

\* Whatever the guest and the other front ends do, PowerStatus says On, and a
\* front end refuses a power-on, only if the VM ran during that call.
THEOREM OnIsTrue == Spec => []OnWasRunning
PROOF
<1>1. Spec => []OnInv
  BY TypeInvariant, OnInit, OnNext, PTL DEF Spec
<1>2. OnInv => OnWasRunning
  BY DEF OnInv, OnOf, OnWasRunning
<1> QED
  BY <1>1, <1>2, PTL

-----------------------------------------------------------------------------
(* The connection QEMU serves.                                             *)

\* A connection that was accepted is the one QEMU serves, until QEMU exits.
ServedInv ==
  /\ run = "exited" => session = NoSession
  /\ \A r \in Requesters : conn[r] = "served" =>
       run = "exited" \/ (session # NoSession /\ session.client = r)

LEMMA ServedNext == TypeInv /\ ServedInv /\ [Next]_vars => ServedInv'
PROOF
<1> SUFFICES ASSUME TypeInv, ServedInv, [Next]_vars PROVE ServedInv'
  OBVIOUS
<1>0. /\ conn \in [Requesters -> {"none", "dialed", "served"}]
      /\ session \in Sessions
      /\ session # NoSession => session.client \in Requesters
      /\ "none" \notin Requesters
      /\ NoSession.client = "none"
  BY PowerAssumption DEF TypeInv, TypeOK, CallInv, NoSession
<1>1. ASSUME NEW r \in Requesters, conn'[r] # "served", UNCHANGED <<run, session>>,
             \A s \in Requesters \ {r} : UNCHANGED conn[s]
      PROVE  ServedInv'
  BY <1>1 DEF ServedInv
<1>2. ASSUME NEW r \in Requesters, Dial(r) \/ Return(r) \/ Fail(r)
      PROVE  ServedInv'
  <2>1. /\ conn'[r] # "served"
        /\ UNCHANGED <<run, session>>
        /\ \A s \in Requesters \ {r} : UNCHANGED conn[s]
    BY <1>0, <1>2 DEF Dial, Return, Fail, Close
  <2> QED
    BY <1>1, <2>1
<1>3. ASSUME UNCHANGED <<run, session, conn>>
      PROVE  ServedInv'
  BY <1>3 DEF ServedInv
<1>4. ASSUME NEW r \in Requesters, WriteCommand(r)
      PROVE  ServedInv'
  <2>1. session # NoSession /\ UNCHANGED <<run, conn>>
        /\ session' = [session EXCEPT !.cmds = Append(session.cmds, Instruction(r))]
    BY <1>4 DEF WriteCommand, Serving
  <2>2. session'.client = session.client
    BY <1>0, <2>1 DEF Sessions
  <2> QED
    BY <1>0, <2>1, <2>2, Zenon DEF ServedInv
<1>5. ASSUME NEW r \in Requesters, Accept(r)
      PROVE  ServedInv'
  <2>1. session = NoSession /\ session'.client = r /\ run # "exited" /\ UNCHANGED run
        /\ conn' = [conn EXCEPT ![r] = "served"]
    BY <1>5 DEF Accept, Serving
  <2>2. \A s \in Requesters : conn[s] # "served"
    BY <2>1 DEF ServedInv
  <2> QED
    BY <1>0, <2>1, <2>2 DEF ServedInv
<1>6. CASE Execute
  <2>1. session # NoSession /\ run # "exited" /\ UNCHANGED conn
    BY <1>6 DEF Execute, Serving, ServedInv
  <2>2. run' # "exited"
    BY <1>6, <2>1 DEF Execute, RunAfter
  <2>3. session' = [session EXCEPT !.cmds = Tail(session.cmds),
            !.negotiated = session.negotiated \/ Head(session.cmds) = "qmp_capabilities"]
    BY <1>6 DEF Execute
  <2>4. session'.client = session.client
    BY <1>0, <2>3 DEF Sessions
  <2> QED
    BY <1>0, <2>1, <2>2, <2>4 DEF ServedInv
<1>7. CASE Hangup
  BY <1>7 DEF Hangup, Alive, Serving, ServedInv
<1>8. CASE Exit
  BY <1>8 DEF Exit, ServedInv
<1>9. ASSUME NEW r \in Requesters, (\E q \in Offered[r] : Receive(r, q)) \/ DialRefused(r) \/ Read(r)
      PROVE  ServedInv'
  BY <1>3, <1>9, Zenon DEF Receive, DialRefused, Read
<1>10. CASE GuestEvent \/ UNCHANGED vars
  BY <1>3, <1>10 DEF GuestEvent, vars
<1> QED
  BY <1>2, <1>4, <1>5, <1>6, <1>7, <1>8, <1>9, <1>10 DEF Next, HandlerStep

LEMMA ServedInvariant == Spec => []ServedInv
PROOF
<1>1. Init => ServedInv
  BY DEF Init, ServedInv
<1> QED
  BY <1>1, TypeInvariant, ServedNext, PTL DEF Spec

-----------------------------------------------------------------------------
(* A refusal.                                                              *)

AtStatus(r) == todo[r] # <<>> /\ Head(todo[r]) = "PowerStatus"

\* While a request is at its PowerStatus, which only its first call can be,
\* QEMU has run none but harmless commands for it, and its connection holds
\* no others.
RefusalOf(r) ==
  /\ StatusFirst(todo[r])
  /\ AtStatus(r) => done[r] \subseteq Harmless \X RunStates
  /\ AtStatus(r) /\ session # NoSession /\ session.client = r /\ conn[r] = "served" =>
       \A i \in 1..Len(session.cmds) : session.cmds[i] \in Harmless
  /\ answer[r].code = "conflict" => done[r] \subseteq Harmless \X RunStates

RefusalInv == \A r \in Requesters : RefusalOf(r)

LEMMA RefusalInit == Init => RefusalInv
PROOF
<1> SUFFICES ASSUME Init, NEW r \in Requesters PROVE RefusalOf(r)
  BY Zenon DEF RefusalInv
<1>1. todo[r] = <<>> /\ answer[r] = NoAnswer
  BY DEF Init
<1>2. NoAnswer.code = "none"
  BY DEF NoAnswer
<1>3. StatusFirst(<<>>)
  BY DEF StatusFirst
<1> QED
  BY <1>1, <1>2, <1>3 DEF RefusalOf, AtStatus

LEMMA RefusalFrame ==
  ASSUME NEW r \in Requesters, RefusalOf(r), UNCHANGED session,
         UNCHANGED <<conn[r], todo[r], answer[r], done[r]>>
  PROVE  RefusalOf(r)'
PROOF
  BY DEF RefusalOf, AtStatus

LEMMA RefusalNext == TypeInv /\ ServedInv /\ RefusalInv /\ [Next]_vars => RefusalInv'
PROOF
<1> SUFFICES ASSUME TypeInv, ServedInv, RefusalInv, [Next]_vars, NEW s \in Requesters
             PROVE  RefusalOf(s)'
  BY DEF RefusalInv
<1>0. /\ RefusalOf(s)
      /\ conn \in [Requesters -> {"none", "dialed", "served"}]
      /\ todo \in [Requesters -> Seq(Calls)]
      /\ answer \in [Requesters -> Answers]
      /\ done \in [Requesters -> SUBSET (Commands \X RunStates)]
      /\ session \in Sessions
      /\ run \in RunStates
  BY DEF RefusalInv, TypeInv, TypeOK
<1>00. session # NoSession => session.client \in Requesters
  BY DEF TypeInv, CallInv
<1>1. ASSUME NEW r \in Requesters, NEW q \in Offered[r], Receive(r, q)
      PROVE  RefusalOf(s)'
  <2>1. CASE s = r
    <3>1. done'[r] = {} /\ conn'[r] = "none"
      BY <1>0, <1>1, Zenon DEF Receive, TypeInv, CallInv, Calling
    <3>2. todo'[r] = Plan(q) \/ todo'[r] = todo[r]
      BY <1>0, <1>1, Zenon DEF Receive
    <3>3. StatusFirst(Plan(q))
      BY PlanFacts, PowerAssumption
    <3> QED
      BY <1>0, <2>1, <3>1, <3>2, <3>3, Zenon DEF RefusalOf
  <2>2. CASE s # r
    BY <1>0, <1>1, <2>2, RefusalFrame, Zenon DEF Receive
  <2> QED
    BY <2>1, <2>2
<1>2. ASSUME NEW r \in Requesters, Dial(r)
      PROVE  RefusalOf(s)'
  <2>1. CASE s = r
    BY <1>0, <1>2, <2>1, Zenon DEF Dial, RefusalOf, AtStatus
  <2>2. CASE s # r
    BY <1>0, <1>2, <2>2, RefusalFrame DEF Dial
  <2> QED
    BY <2>1, <2>2
<1>3. ASSUME NEW r \in Requesters, NEW a \in Answers, a.code # "conflict", Finish(r, a),
             UNCHANGED <<session, done>>, conn'[r] # "served",
             \A t \in Requesters \ {r} : UNCHANGED conn[t]
      PROVE  RefusalOf(s)'
  <2>1. CASE s = r
    <3>1. todo'[r] = <<>> /\ answer'[r] = a
      BY <1>0, <1>3 DEF Finish
    <3>2. StatusFirst(<<>>)
      BY DEF StatusFirst
    <3> QED
      BY <1>3, <2>1, <3>1, <3>2 DEF RefusalOf, AtStatus
  <2>2. CASE s # r
    BY <1>0, <1>3, <2>2, RefusalFrame DEF Finish
  <2> QED
    BY <2>1, <2>2
<1>4. ASSUME NEW r \in Requesters, DialRefused(r)
      PROVE  RefusalOf(s)'
  <2>1. ErrorAnswer(req[r]) \in Answers /\ ErrorAnswer(req[r]).code # "conflict"
    BY DEF TypeInv, TypeOK, ErrorAnswer, Answers
  <2>2. conn[r] = "none"
    BY <1>4 DEF DialRefused, Calling
  <2> QED
    BY <1>3, <1>4, <2>1, <2>2, Zenon DEF DialRefused
<1>5. ASSUME NEW r \in Requesters, Fail(r)
      PROVE  RefusalOf(s)'
  <2>1. ErrorAnswer(req[r]) \in Answers /\ ErrorAnswer(req[r]).code # "conflict"
    BY DEF TypeInv, TypeOK, ErrorAnswer, Answers
  <2>2. conn'[r] = "none" /\ \A t \in Requesters \ {r} : UNCHANGED conn[t]
    BY <1>0, <1>5 DEF Fail, Close
  <2> QED
    BY <1>3, <1>5, <2>1, <2>2 DEF Fail
<1>6. ASSUME NEW r \in Requesters, WriteCommand(r)
      PROVE  RefusalOf(s)'
  <2>1. Calling(r) /\ Instruction(r) \in Commands /\ UNCHANGED <<conn, todo, answer, done>>
    BY <1>6 DEF WriteCommand
  <2>2. session.cmds \in Seq(Commands)
    BY <1>0 DEF Sessions
  <2>3. session' = [session EXCEPT !.cmds = Append(session.cmds, Instruction(r))]
    BY <1>6 DEF WriteCommand
  <2>4. session'.client = session.client /\ session'.cmds = Append(session.cmds, Instruction(r))
    BY <1>0, <2>3 DEF Sessions
  <2>5. session # NoSession /\ conn[r] = "served"
    BY <1>6 DEF WriteCommand, Serving
  <2>6. CASE AtStatus(s) /\ session.client = s /\ conn[s] = "served"
    <3>1. \A i \in 1..Len(session.cmds) : session.cmds[i] \in Harmless
      BY <1>0, <2>5, <2>6 DEF RefusalOf
    <3>2. session.client = r
      BY <2>5 DEF ServedInv
    <3>3. Instruction(r) \in Harmless
      <4>1. Head(todo[r]) = "PowerStatus"
        BY <2>6, <3>2 DEF AtStatus
      <4>2. step[r] \in 1..Len(Script[Head(todo[r])]) /\ Head(todo[r]) \in Calls
        BY <2>1, CallFacts
      <4>3. "read" \notin Commands
        BY DEF Commands
      <4> QED
        BY <2>1, <4>1, <4>2, <4>3, ScriptFacts DEF Instruction
    <3>4. \A i \in 1..Len(session'.cmds) : session'.cmds[i] \in Harmless
      BY <2>1, <2>2, <2>4, <3>1, <3>3
    <3> QED
      BY <1>0, <2>1, <3>4, Zenon DEF RefusalOf, AtStatus
  <2>7. CASE ~(AtStatus(s) /\ session.client = s /\ conn[s] = "served")
    BY <1>0, <2>1, <2>4, <2>7, Zenon DEF RefusalOf, AtStatus
  <2> QED
    BY <2>6, <2>7
<1>7. ASSUME NEW r \in Requesters, Read(r)
      PROVE  RefusalOf(s)'
  BY <1>0, <1>7, RefusalFrame DEF Read
<1>8. ASSUME NEW r \in Requesters, Return(r)
      PROVE  RefusalOf(s)'
  <2> DEFINE value == IF Head(todo[r]) = "PowerStatus" THEN ParseStatus(Head(lines[r])) ELSE "nil"
  <2>1. Calling(r) /\ Proceed(r, value) /\ Close(r) /\ UNCHANGED <<session, done>>
    BY <1>8 DEF Return
  <2> HIDE DEF value
  <2>2. conn'[r] = "none" /\ \A t \in Requesters \ {r} : UNCHANGED conn[t]
    BY <1>0, <2>1 DEF Close
  <2>3. CASE s # r
    BY <1>0, <2>1, <2>2, <2>3, RefusalFrame, Zenon DEF Proceed, Finish
  <2>4. CASE s = r /\ UNCHANGED <<req, answer>> /\ Tail(todo[r]) # <<>>
             /\ todo' = [todo EXCEPT ![r] = Tail(todo[r])]
    <3>1. todo[r] \in Seq(Calls) /\ todo[r] # <<>> /\ StatusFirst(todo[r]) /\ answer[r] = NoAnswer
      BY <1>0, <2>1, <2>4, CallFacts, Zenon DEF RefusalOf
    <3>2. todo'[r] = Tail(todo[r])
      BY <1>0, <2>4
    <3>3. \A i \in 1..Len(Tail(todo[r])) : Tail(todo[r])[i] # "PowerStatus"
      BY <3>1 DEF StatusFirst
    <3>4. StatusFirst(Tail(todo[r])) /\ Head(Tail(todo[r])) # "PowerStatus"
      BY <2>4, <3>1, <3>3 DEF StatusFirst
    <3>5. answer'[r].code = "none"
      <4>1. answer' = answer
        BY <2>4, Zenon
      <4>2. NoAnswer.code = "none"
        BY DEF NoAnswer
      <4> QED
        BY <3>1, <4>1, <4>2, Zenon
    <3> QED
      BY <2>4, <3>2, <3>4, <3>5, Zenon DEF RefusalOf, AtStatus
  <2>5. CASE s = r /\ \E a \in {"ok", "conflict"} :
             /\ Finish(r, [to |-> req[r], code |-> a, status |-> value])
             /\ a = "conflict" => Head(todo[r]) = "PowerStatus"
    <3>1. PICK a \in {"ok", "conflict"} :
            /\ Finish(r, [to |-> req[r], code |-> a, status |-> value])
            /\ a = "conflict" => Head(todo[r]) = "PowerStatus"
      BY <2>5
    <3>2. todo'[r] = <<>> /\ answer'[r].code = a
      BY <1>0, <3>1 DEF Finish
    <3>3. a = "conflict" => AtStatus(r)
      BY <2>1, <3>1, CallFacts, Zenon DEF AtStatus
    <3>4. StatusFirst(<<>>)
      BY DEF StatusFirst
    <3> QED
      BY <1>0, <2>1, <2>5, <3>2, <3>3, <3>4, Zenon DEF RefusalOf, AtStatus
  <2> QED
    BY <2>1, <2>3, <2>4, <2>5 DEF Proceed
<1>9. ASSUME NEW r \in Requesters, Accept(r)
      PROVE  RefusalOf(s)'
  <2>1. session' = [client |-> r, negotiated |-> FALSE, cmds |-> <<>>]
        /\ UNCHANGED <<todo, answer, done>>
    BY <1>9 DEF Accept
  <2> QED
    BY <1>0, <2>1 DEF RefusalOf, AtStatus
<1>10. CASE Execute
  <2> DEFINE cmd == Head(session.cmds)
  <2>1. /\ session # NoSession /\ session.cmds \in Seq(Commands) /\ session.cmds # <<>>
        /\ session.client \in Requesters
    BY <1>0, <1>00, <1>10 DEF Execute, Serving, Sessions
  <2>2. session' = [session EXCEPT !.cmds = Tail(session.cmds),
                                   !.negotiated = session.negotiated \/ cmd = "qmp_capabilities"]
        /\ UNCHANGED <<conn, todo, answer>>
    BY <1>10 DEF Execute
  <2>3. session'.client = session.client /\ session'.cmds = Tail(session.cmds)
    BY <1>0, <2>2 DEF Sessions
  <2>4. done'[s] = done[s] \/
          (/\ session.client = s /\ conn[s] = "served"
           /\ done'[s] = done[s] \cup {<<cmd, run>>})
    BY <1>0, <1>10, Zenon DEF Execute, Alive
  <2>5. conn[s] = "served" => answer[s].code # "conflict"
    BY CallFacts DEF Calling, NoAnswer
  <2>6. CASE AtStatus(s) /\ session.client = s /\ conn[s] = "served"
    <3>1. \A i \in 1..Len(session.cmds) : session.cmds[i] \in Harmless
      BY <1>0, <2>1, <2>6, Zenon DEF RefusalOf
    <3>2. cmd \in Harmless
      BY <2>1, <3>1
    <3>3. \A i \in 1..Len(Tail(session.cmds)) : Tail(session.cmds)[i] \in Harmless
      BY <2>1, <3>1
    <3>4. done'[s] \subseteq Harmless \X RunStates
      BY <1>0, <2>4, <2>6, <3>2 DEF RefusalOf
    <3> QED
      BY <1>0, <2>2, <2>3, <3>3, <3>4 DEF RefusalOf, AtStatus
  <2>7. CASE ~(AtStatus(s) /\ session.client = s /\ conn[s] = "served")
    BY <1>0, <2>2, <2>3, <2>4, <2>5, <2>7 DEF RefusalOf, AtStatus
  <2> QED
    BY <2>6, <2>7
<1>11. CASE Hangup \/ Exit
  BY <1>0, <1>11 DEF Hangup, Exit, RefusalOf, AtStatus
<1>12. CASE GuestEvent
  BY <1>0, <1>12, RefusalFrame DEF GuestEvent
<1>13. CASE UNCHANGED vars
  BY <1>0, <1>13, RefusalFrame DEF vars
<1> QED
  BY <1>1, <1>2, <1>4, <1>5, <1>6, <1>7, <1>8, <1>9, <1>10, <1>11, <1>12, <1>13
  DEF Next, HandlerStep

\* A request refused with "already powered on/off" has left the VM alone,
\* however many goroutines serve requests and whatever lines the guest adds.
THEOREM RefusalIsHarmless == Spec => []RefusalTouchedNothing
PROOF
<1>1. Spec => []RefusalInv
  BY TypeInvariant, ServedInvariant, RefusalInit, RefusalNext, PTL DEF Spec
<1>2. RefusalInv => RefusalTouchedNothing
  BY DEF RefusalInv, RefusalOf, RefusalTouchedNothing, Harmless
<1> QED
  BY <1>1, <1>2, PTL

=============================================================================
