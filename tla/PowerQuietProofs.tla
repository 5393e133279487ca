-------------------------- MODULE PowerQuietProofs --------------------------
(* What the power requests promise while the guest is quiet, for any number  *)
(* of front ends and requests.  The guest is quiet when MaxLines = 0: QEMU   *)
(* sends no line that a command did not cause.  vm.go:99-182 counts the      *)
(* lines it reads and matches none of them to a command, so that with events *)
(* of the guest's own none of these results holds.                           *)
EXTENDS PowerControlProofs
-----------------------------------------------------------------------------
(* The handlers and the calls.                                             *)

\* What the handlers have still to call, at any moment.
Plans == {<<>>, <<"PowerStatus">>, <<"PowerOn">>, <<"PowerOff">>, <<"PowerOff", "PowerOn">>,
          <<"PowerStatus", "PowerOn">>, <<"PowerStatus", "PowerOff">>,
          <<"PowerStatus", "PowerOff", "PowerOn">>}

Among(call, plan) == \E i \in DOMAIN plan : plan[i] = call

\* The run state that a switching call has to meet.
From(call) == IF call = "PowerOn" THEN "stopped" ELSE "running"

Ran(cmd, cmds) == \E s \in RunStates : <<cmd, s>> \in cmds

-----------------------------------------------------------------------------
(* The lines and commands of a served connection, while the guest is quiet.*)

\* A call at step n of its script, with lines l to read, commands c that QEMU
\* has not run and those in d that it has.
Opening(n, l, c) ==
  \/ n = 1 /\ l = <<"greeting">> /\ c = <<>>
  \/ n \in {2, 4} /\ l = <<>> /\ c = <<>>
  \/ n = 3 /\ l = <<>> /\ c = <<"qmp_capabilities">>
  \/ n = 3 /\ l = <<"return">> /\ c = <<>>

Asking(n, l, c, d) ==
  \/ n = 5 /\ l = <<>> /\ c = <<"query-status">>
  \/ n = 5 /\ l = <<"running">> /\ c = <<>> /\ <<"query-status", "running">> \in d
  \/ n = 5 /\ l = <<"notRunning">> /\ c = <<>> /\ <<"query-status", "stopped">> \in d

Resetting(n, l, c) ==
  \/ n = 5 /\ l = <<>> /\ c = <<"system_reset">>
  \/ n = 5 /\ l = <<"return", "event">> /\ c = <<>>
  \/ n = 6 /\ l = <<"event">> /\ c = <<>>
  \/ n = 7 /\ l = <<>> /\ c = <<>>

\* The last two reads of PowerOn and PowerOff: the event follows only a
\* command that changed the run state.
Switching(n, l, c, d, last, call) ==
  \/ n = last - 1 /\ l = <<>> /\ c = <<Decisive(call)>>
  \/ n = last - 1 /\ l = <<"return", "event">> /\ c = <<>> /\ <<Decisive(call), From(call)>> \in d
  \/ n = last     /\ l = <<"event">>           /\ c = <<>> /\ <<Decisive(call), From(call)>> \in d
  \/ n = last - 1 /\ l = <<"return">> /\ c = <<>>
  \/ n = last     /\ l = <<>>         /\ c = <<>>

Position(call, n, l, c, d) ==
  \/ Opening(n, l, c)
  \/ call = "PowerStatus" /\ Asking(n, l, c, d)
  \/ call = "PowerOff" /\ Switching(n, l, c, d, 6, call)
  \/ call = "PowerOn" /\ (Resetting(n, l, c) \/ Switching(n, l, c, d, 9, call))

\* The step that writes the decisive command.
DecisiveStep(call) == IF call = "PowerOn" THEN 7 ELSE 4

\* The decisive command of r's current call has not run.
Pending(r) ==
  \/ step[r] <= DecisiveStep(Head(todo[r]))
  \/ conn[r] = "served" /\ session.cmds = <<Decisive(Head(todo[r]))>>

\* Where a served connection is; one whose QEMU has exited has no more lines
\* to come.
PlaceOf(r) ==
  /\ conn[r] # "served" => step[r] = 1
  /\ conn[r] = "served" =>
       \/ Position(Head(todo[r]), step[r], lines[r], session.cmds, done[r])
       \/ run = "exited" /\ lines[r] = <<>>

\* The decisive command of a call that has still to act has not run.
FreshOf(r) ==
  \A call \in Calls :
    Among(call, todo[r]) /\ (call = Head(todo[r]) => Pending(r)) => ~Ran(Decisive(call), done[r])

\* A decisive command runs once in a request.
OnceOf(r) ==
  \A call \in Calls : \A s, t \in RunStates :
    <<Decisive(call), s>> \in done[r] /\ <<Decisive(call), t>> \in done[r] => s = t

QuietOf(r) == todo[r] \in Plans /\ PlaceOf(r) /\ FreshOf(r) /\ OnceOf(r)

\* At most one command waits, whether or not its client does.
QuietInv ==
  /\ session.cmds = <<>> \/ \E cmd \in Commands : session.cmds = <<cmd>>
  /\ \A r \in Requesters : QuietOf(r)

\* What a request has done: each switching call of its plan is still to come,
\* or has met the run state it changes; and no reset runs before the stop.
MadeOf(r) ==
  /\ \A call \in {"PowerOn", "PowerOff"} :
       /\ req[r] # NoRequest /\ Has(req[r], call) =>
            Among(call, todo[r]) \/ <<Decisive(call), From(call)>> \in done[r]
       /\ answer[r].code = "ok" /\ Has(answer[r].to, call) => <<Decisive(call), From(call)>> \in done[r]
  /\ \A q \in {req[r], answer[r].to} \ {NoRequest} :
       Has(q, "PowerOff") /\ Ran("system_reset", done[r]) => <<"stop", "running">> \in done[r]

MadeInv == \A r \in Requesters : MadeOf(r)

\* The states a status call's query met are states seen during that call.
OffOf(r) ==
  /\ AtStatus(r) /\ Calling(r) => \A s \in RunStates : <<"query-status", s>> \in done[r] => s \in seen[r]
  /\ answer[r].status = "Off" => "stopped" \in seen[r]

OffInv == \A r \in Requesters : OffOf(r)

\* No other front end has been asked for anything.
Alone(r) == \A o \in Requesters \ {r} : Untouched(o)

\* The reset of r's PowerOn has not run.
BeforeReset(r) ==
  \/ step[r] <= 4
  \/ conn[r] = "served" /\ session.cmds = <<"system_reset">>

\* A request to power on that reads the status first.
CheckedOn(q) == q # NoRequest /\ Plan(q) = <<"PowerStatus", "PowerOn">>

\* From the moment the status says "not running" until the reset, the guest
\* does not run, and no command is left in QEMU that could start it.
HeldOff(r) ==
  /\ todo[r] = <<"PowerStatus", "PowerOn">> \/ todo[r] = <<"PowerOn">>
  /\ AtStatus(r) /\ lines[r] = <<"notRunning">> => run # "running"
  /\ todo[r] = <<"PowerOn">> /\ BeforeReset(r) =>
       run # "running" /\ (conn[r] # "served" => session.cmds = <<>>)

\* Such a request has reset no running guest, and is in a position not to.
AloneOf(r) ==
  /\ CheckedOn(req[r]) => HeldOff(r)
  /\ CheckedOn(req[r]) \/ CheckedOn(answer[r].to) => <<"system_reset", "running">> \notin done[r]

\* Nobody but a goroutine that was asked has a connection.
AloneInv ==
  /\ \A r \in Requesters : Untouched(r) => session.client # r /\ conn[r] = "none"
  /\ \A r \in Requesters : Alone(r) => AloneOf(r)
-----------------------------------------------------------------------------
(* Sequences of one and two elements, plans and scripts.                   *)

\* What the reading of lines and the running of commands does to short
\* sequences.
LEMMA Short ==
  ASSUME NEW a, NEW b
  PROVE  /\ <<a>> # <<>> /\ Head(<<a>>) = a /\ Tail(<<a>>) = <<>>
         /\ <<a, b>> # <<>> /\ Head(<<a, b>>) = a /\ Tail(<<a, b>>) = <<b>>
         /\ Append(<<>>, a) = <<a>>
         /\ <<>> \o <<a>> = <<a>> /\ <<>> \o <<a, b>> = <<a, b>>
         /\ <<a>> = <<b>> => a = b
         /\ <<a, b>> # <<a>> /\ <<a, b>> # <<b>>
PROOF
  OBVIOUS

\* Every plan of a handler is one of Plans, and so is what is left of one when
\* its first call has returned.
LEMMA RestOfPlan ==
  ASSUME NEW p \in Plans, p # <<>>
  PROVE  /\ Head(p) \in Calls /\ Tail(p) \in Plans
         /\ \A call : Among(call, p) <=> (call = Head(p) \/ Among(call, Tail(p)))
         /\ ~Among(Head(p), Tail(p))
         /\ Head(p) = "PowerOn" => Tail(p) = <<>>
         /\ ~Among("PowerStatus", Tail(p))
PROOF
<1> DEFINE Good(h, t, q) == /\ Head(q) = h /\ Tail(q) = t
                            /\ \A call : Among(call, q) <=> (call = h \/ Among(call, t))
<1>1. /\ \A call : ~Among(call, <<>>)
      /\ \A a, call : Among(call, <<a>>) <=> call = a
      /\ \A a, b, call : Among(call, <<a, b>>) <=> call \in {a, b}
      /\ \A a, b, c, call : Among(call, <<a, b, c>>) <=> call \in {a, b, c}
  BY DEF Among
<1>2. /\ \A a : Good(a, <<>>, <<a>>)
      /\ \A a, b : Good(a, <<b>>, <<a, b>>)
      /\ \A a, b, c : Good(a, <<b, c>>, <<a, b, c>>)
  <2>1. \A a : Head(<<a>>) = a /\ Tail(<<a>>) = <<>>
    OBVIOUS
  <2>2. \A a, b : Head(<<a, b>>) = a /\ Tail(<<a, b>>) = <<b>>
    OBVIOUS
  <2>3. \A a, b, c : Head(<<a, b, c>>) = a /\ Tail(<<a, b, c>>) = <<b, c>>
    OBVIOUS
  <2> QED
    BY <1>1, <2>1, <2>2, <2>3
<1> HIDE DEF Good
<1> DEFINE Fine(h, t) == /\ h \in Calls /\ t \in Plans /\ ~Among(h, t)
                         /\ h = "PowerOn" => t = <<>>
                         /\ ~Among("PowerStatus", t)
<1>3. /\ \A c \in Calls : Fine(c, <<>>)
      /\ Fine("PowerOff", <<"PowerOn">>)
      /\ Fine("PowerStatus", <<"PowerOn">>)
      /\ Fine("PowerStatus", <<"PowerOff">>)
      /\ Fine("PowerStatus", <<"PowerOff", "PowerOn">>)
  BY <1>1 DEF Plans, Calls
<1> HIDE DEF Fine
<1>4. \E h, t : Good(h, t, p) /\ Fine(h, t)
  <2>1. CASE p \in {<<"PowerStatus">>, <<"PowerOn">>, <<"PowerOff">>}
    BY <2>1, <1>2, <1>3 DEF Calls
  <2>2. CASE p = <<"PowerOff", "PowerOn">>
    BY <2>2, <1>2, <1>3, Zenon
  <2>3. CASE p = <<"PowerStatus", "PowerOn">>
    BY <2>3, <1>2, <1>3, Zenon
  <2>4. CASE p = <<"PowerStatus", "PowerOff">>
    BY <2>4, <1>2, <1>3, Zenon
  <2>5. CASE p = <<"PowerStatus", "PowerOff", "PowerOn">>
    BY <2>5, <1>2, <1>3, Zenon
  <2> QED
    BY <2>1, <2>2, <2>3, <2>4, <2>5 DEF Plans
<1> QED
  BY <1>4, Zenon DEF Good, Fine

\* What each script says where a call of it can be.
LEMMA ScriptTable ==
  /\ \A call \in Calls : /\ Script[call][1] = "read" /\ Script[call][3] = "read"
                         /\ Script[call][2] = "qmp_capabilities"
                         /\ Script[call][5] = "read"
  /\ Script["PowerStatus"][4] = "query-status" /\ Len(Script["PowerStatus"]) = 5
  /\ Script["PowerOff"][4] = "stop" /\ Script["PowerOff"][6] = "read" /\ Len(Script["PowerOff"]) = 6
  /\ Script["PowerOn"][4] = "system_reset" /\ Script["PowerOn"][6] = "read"
  /\ Script["PowerOn"][7] = "cont" /\ Script["PowerOn"][8] = "read" /\ Script["PowerOn"][9] = "read"
  /\ Len(Script["PowerOn"]) = 9
PROOF
<1>1. /\ PowerStatus[1] = "read" /\ PowerStatus[2] = "qmp_capabilities" /\ PowerStatus[3] = "read"
      /\ PowerStatus[4] = "query-status" /\ PowerStatus[5] = "read" /\ Len(PowerStatus) = 5
  BY DEF PowerStatus
<1>2. /\ PowerOff[1] = "read" /\ PowerOff[2] = "qmp_capabilities" /\ PowerOff[3] = "read"
      /\ PowerOff[4] = "stop" /\ PowerOff[5] = "read" /\ PowerOff[6] = "read" /\ Len(PowerOff) = 6
  BY DEF PowerOff
<1>3. /\ PowerOn[1] = "read" /\ PowerOn[2] = "qmp_capabilities" /\ PowerOn[3] = "read"
      /\ PowerOn[4] = "system_reset" /\ PowerOn[5] = "read" /\ PowerOn[6] = "read"
      /\ PowerOn[7] = "cont" /\ PowerOn[8] = "read" /\ PowerOn[9] = "read" /\ Len(PowerOn) = 9
  BY DEF PowerOn
<1>4. Script["PowerStatus"] = PowerStatus /\ Script["PowerOff"] = PowerOff /\ Script["PowerOn"] = PowerOn
  BY DEF Script
<1> QED
  BY <1>1, <1>2, <1>3, <1>4 DEF Calls

\* Every handler's plan is one of Plans.
LEMMA PlanIsOne ==
  \A q \in Request : Plan(q) \in Plans
PROOF
<1>1. \A o \in DOMAIN handleNodeAction : handleNodeAction[o] \in Plans
  BY DEF handleNodeAction, Plans
<1>2. \A o \in DOMAIN newNodeStatus : newNodeStatus[o] \in Plans
  BY DEF newNodeStatus, Plans
<1>3. \A o \in DOMAIN handleIPMIChassisControl : handleIPMIChassisControl[o] \in Plans
  BY DEF handleIPMIChassisControl, Plans
<1>4. \A o \in DOMAIN handleIPMIChassis : handleIPMIChassis[o] \in Plans
  BY DEF handleIPMIChassis, Plans
<1>5. \A o \in DOMAIN handleComputerSystemActionsReset : handleComputerSystemActionsReset[o] \in Plans
  BY DEF handleComputerSystemActionsReset, Plans
<1>6. \A o \in DOMAIN handleComputerSystem : handleComputerSystem[o] \in Plans
  BY DEF handleComputerSystem, Plans
<1>7. \A o \in DOMAIN handleChassisActionsReset : handleChassisActionsReset[o] \in Plans
  BY DEF handleChassisActionsReset, Plans
<1>8. \A o \in DOMAIN handleChassis : handleChassis[o] \in Plans
  BY DEF handleChassis, Plans
<1>9. \A h \in DOMAIN Handlers : \A o \in DOMAIN Handlers[h] : Handlers[h][o] \in Plans
  <2> HIDE DEF Plans
  <2> QED
    BY <1>1, <1>2, <1>3, <1>4, <1>5, <1>6, <1>7, <1>8 DEF Handlers
<1>10. \A q \in Request : q[1] \in DOMAIN Handlers /\ q[2] \in DOMAIN Handlers[q[1]]
  BY DEF Request
<1> QED
  BY <1>9, <1>10 DEF Plan

-----------------------------------------------------------------------------
(* What a step does to the position of a call.                             *)

\* A command is written only where everything before it was answered and read.
LEMMA PositionWrite ==
  ASSUME NEW call \in Calls, NEW n \in 1..9, NEW l, NEW c, NEW d,
         Position(call, n, l, c, d), Script[call][n] \in Commands
  PROVE  /\ l = <<>> /\ c = <<>> /\ n <= DecisiveStep(call)
         /\ Position(call, n + 1, <<>>, <<Script[call][n]>>, d)
PROOF
<1>0. "read" \notin Commands
  BY DEF Commands
<1>1. n # 1 /\ n # 3 /\ n # 5
  BY <1>0, ScriptTable
<1>2. CASE Opening(n, l, c)
  <2>1. n \in {2, 4} /\ l = <<>> /\ c = <<>>
    BY <1>1, <1>2 DEF Opening
  <2>2. n <= DecisiveStep(call)
    BY <2>1 DEF DecisiveStep
  <2>3. CASE n = 2
    BY <2>1, <2>2, <2>3, ScriptTable DEF Position, Opening
  <2>4. CASE n = 4 /\ call = "PowerStatus"
    BY <2>1, <2>2, <2>4, ScriptTable DEF Position, Asking
  <2>5. CASE n = 4 /\ call = "PowerOff"
    BY <2>1, <2>2, <2>5, ScriptTable DEF Position, Switching, Decisive
  <2>6. CASE n = 4 /\ call = "PowerOn"
    BY <2>1, <2>2, <2>6, ScriptTable DEF Position, Resetting
  <2> QED
    BY <2>1, <2>3, <2>4, <2>5, <2>6 DEF Calls
<1>3. CASE call = "PowerStatus" /\ Asking(n, l, c, d)
  BY <1>1, <1>3 DEF Asking
<1>4. CASE call = "PowerOff" /\ Switching(n, l, c, d, 6, call)
  BY <1>0, <1>1, <1>4, ScriptTable DEF Switching
<1>5. CASE call = "PowerOn" /\ Resetting(n, l, c)
  <2>1. n = 7 /\ l = <<>> /\ c = <<>>
    BY <1>0, <1>1, <1>5, ScriptTable DEF Resetting
  <2> QED
    BY <1>5, <2>1, ScriptTable DEF Position, Switching, Decisive, DecisiveStep
<1>6. CASE call = "PowerOn" /\ Switching(n, l, c, d, 9, call)
  BY <1>0, <1>6, ScriptTable DEF Switching
<1> QED
  BY <1>2, <1>3, <1>4, <1>5, <1>6 DEF Position

\* The lines that are left after a read.
LEMMA Rest ==
  Tail(<<"return", "event">>) = <<"event">> /\ Tail(<<"return">>) = <<>> /\ Tail(<<"event">>) = <<>>
PROOF
  OBVIOUS

\* A line that is not the last is read.
LEMMA PositionRead ==
  ASSUME NEW call \in Calls, NEW n \in 1..9, NEW l, NEW c, NEW d,
         Position(call, n, l, c, d), l # <<>>, n # Len(Script[call])
  PROVE  c = <<>> /\ Position(call, n + 1, Tail(l), c, d)
PROOF
<1>1. CASE Opening(n, l, c)
  <2>1. /\ c = <<>> /\ n \in {1, 3} /\ \E a : l = <<a>>
    BY <1>1 DEF Opening
  <2>2. Tail(l) = <<>>
    BY <2>1, Short
  <2> QED
    BY <2>1, <2>2 DEF Position, Opening
<1>2. CASE call = "PowerStatus" /\ Asking(n, l, c, d)
  BY <1>2, ScriptTable DEF Asking
<1>3. CASE call = "PowerOff" /\ Switching(n, l, c, d, 6, call)
  <2>1. n = 5 /\ c = <<>>
    BY <1>3, ScriptTable DEF Switching
  <2>2. \/ l = <<"return", "event">> /\ <<Decisive(call), From(call)>> \in d
        \/ l = <<"return">>
    BY <1>3, <2>1 DEF Switching
  <2>3. \/ Tail(l) = <<"event">> /\ <<Decisive(call), From(call)>> \in d
        \/ Tail(l) = <<>>
    BY <2>2, Rest, Zenon
  <2> QED
    BY <1>3, <2>1, <2>3 DEF Position, Switching
<1>4. CASE call = "PowerOn" /\ Resetting(n, l, c)
  <2>1. c = <<>> /\ \/ n = 5 /\ l = <<"return", "event">>
                    \/ n = 6 /\ l = <<"event">>
    BY <1>4 DEF Resetting
  <2>2. \/ n = 5 /\ Tail(l) = <<"event">>
        \/ n = 6 /\ Tail(l) = <<>>
    BY <2>1, Rest, Zenon
  <2> QED
    BY <1>4, <2>1, <2>2 DEF Position, Resetting
<1>5. CASE call = "PowerOn" /\ Switching(n, l, c, d, 9, call)
  <2>1. n = 8 /\ c = <<>>
    BY <1>5, ScriptTable DEF Switching
  <2>2. \/ l = <<"return", "event">> /\ <<Decisive(call), From(call)>> \in d
        \/ l = <<"return">>
    BY <1>5, <2>1 DEF Switching
  <2>3. \/ Tail(l) = <<"event">> /\ <<Decisive(call), From(call)>> \in d
        \/ Tail(l) = <<>>
    BY <2>2, Rest, Zenon
  <2> QED
    BY <1>5, <2>1, <2>3 DEF Position, Switching
<1> QED
  BY <1>1, <1>2, <1>3, <1>4, <1>5 DEF Position

Ends(call, n) == n = Len(Script[call])

\* The last line is there: the decisive command has run, PowerStatus reads
\* what it met, and the other two have changed the run state.
LEMMA PositionLast ==
  ASSUME NEW call \in Calls, NEW n \in 1..9, NEW l, NEW c, NEW d,
         Position(call, n, l, c, d), l # <<>>, Ends(call, n)
  PROVE  /\ c = <<>> /\ n > DecisiveStep(call)
         /\ call = "PowerStatus" =>
              \/ l = <<"running">> /\ <<"query-status", "running">> \in d
              \/ l = <<"notRunning">> /\ <<"query-status", "stopped">> \in d
         /\ call # "PowerStatus" => <<Decisive(call), From(call)>> \in d
PROOF
<1>1. ~Opening(n, l, c)
  <2>1. n \in {5, 6, 9}
    BY ScriptTable DEF Calls, Ends
  <2> QED
    BY <2>1 DEF Opening
<1>2. CASE call = "PowerStatus" /\ Asking(n, l, c, d)
  BY <1>2, ScriptTable DEF Asking, DecisiveStep
<1>3. CASE call = "PowerOff" /\ Switching(n, l, c, d, 6, call)
  <2>1. n = 6 /\ n # 6 - 1
    BY <1>3, ScriptTable DEF Ends
  <2>2. c = <<>> /\ <<Decisive(call), From(call)>> \in d
    BY <1>3, <2>1 DEF Switching
  <2>3. n > DecisiveStep(call)
    BY <1>3, <2>1 DEF DecisiveStep
  <2> QED
    BY <1>3, <2>2, <2>3
<1>4. CASE call = "PowerOn" /\ Resetting(n, l, c)
  BY <1>4, ScriptTable DEF Resetting, Ends
<1>5. CASE call = "PowerOn" /\ Switching(n, l, c, d, 9, call)
  <2>1. n = 9 /\ n # 9 - 1
    BY <1>5, ScriptTable DEF Ends
  <2>2. c = <<>> /\ <<Decisive(call), From(call)>> \in d
    BY <1>5, <2>1 DEF Switching
  <2>3. n > DecisiveStep(call)
    BY <1>5, <2>1 DEF DecisiveStep
  <2> QED
    BY <1>5, <2>2, <2>3
<1> QED
  BY <1>1, <1>2, <1>3, <1>4, <1>5 DEF Position

\* A command is run: QEMU's answer is what the call expects next.
LEMMA PositionRun ==
  ASSUME NEW call \in Calls, NEW n \in 1..9, NEW l, NEW cmd, NEW d,
         Position(call, n, l, <<cmd>>, d), run \in {"running", "stopped"}
  PROVE  /\ l = <<>>
         /\ cmd \in {"qmp_capabilities", "system_reset", Decisive(call)}
         /\ cmd = "system_reset" => call = "PowerOn" /\ n = 5
         /\ n <= DecisiveStep(call) => cmd # Decisive(call)
         /\ Position(call, n, Response(cmd), <<>>, d \cup {<<cmd, run>>})
PROOF
<1>0. <<cmd>> # <<>> /\ \A a : <<cmd>> = <<a>> => cmd = a
  BY Short
<1>1. CASE Opening(n, l, <<cmd>>)
  <2>1. n = 3 /\ l = <<>> /\ cmd = "qmp_capabilities"
    BY <1>0, <1>1 DEF Opening
  <2>2. Response(cmd) = <<"return">>
    BY <2>1 DEF Response, RunAfter
  <2>3. cmd # Decisive(call)
    BY <2>1 DEF Decisive, Calls
  <2> QED
    BY <2>1, <2>2, <2>3 DEF Position, Opening
<1>2. CASE call = "PowerStatus" /\ Asking(n, l, <<cmd>>, d)
  <2>1. n = 5 /\ l = <<>> /\ cmd = "query-status" /\ cmd = Decisive(call)
    BY <1>0, <1>2 DEF Asking, Decisive
  <2>2. \/ run = "running" /\ Response(cmd) = <<"running">>
        \/ run = "stopped" /\ Response(cmd) = <<"notRunning">>
    BY <2>1 DEF Response
  <2>3. Position(call, n, Response(cmd), <<>>, d \cup {<<cmd, run>>})
    BY <1>2, <2>1, <2>2 DEF Position, Asking
  <2> QED
    BY <1>2, <2>1, <2>3 DEF DecisiveStep
<1>3. CASE call = "PowerOff" /\ Switching(n, l, <<cmd>>, d, 6, call)
  <2>1. n = 5 /\ l = <<>> /\ cmd = "stop" /\ cmd = Decisive(call) /\ From(call) = "running"
    BY <1>0, <1>3 DEF Switching, Decisive, From
  <2>2. \/ run = "running" /\ Response(cmd) = <<"return", "event">>
        \/ run = "stopped" /\ Response(cmd) = <<"return">>
    BY <2>1 DEF Response, RunAfter
  <2>3. Position(call, n, Response(cmd), <<>>, d \cup {<<cmd, run>>})
    BY <1>3, <2>1, <2>2 DEF Position, Switching
  <2> QED
    BY <1>3, <2>1, <2>3 DEF DecisiveStep
<1>4. CASE call = "PowerOn" /\ Resetting(n, l, <<cmd>>)
  <2>1. n = 5 /\ l = <<>> /\ cmd = "system_reset" /\ cmd # Decisive(call)
    BY <1>0, <1>4 DEF Resetting, Decisive
  <2>2. Response(cmd) = <<"return", "event">>
    BY <2>1 DEF Response
  <2> QED
    BY <1>4, <2>1, <2>2 DEF Position, Resetting
<1>5. CASE call = "PowerOn" /\ Switching(n, l, <<cmd>>, d, 9, call)
  <2>1. n = 8 /\ l = <<>> /\ cmd = "cont" /\ cmd = Decisive(call) /\ From(call) = "stopped"
    BY <1>0, <1>5 DEF Switching, Decisive, From
  <2>2. \/ run = "stopped" /\ Response(cmd) = <<"return", "event">>
        \/ run = "running" /\ Response(cmd) = <<"return">>
    BY <2>1 DEF Response, RunAfter
  <2>3. Position(call, n, Response(cmd), <<>>, d \cup {<<cmd, run>>})
    BY <1>5, <2>1, <2>2 DEF Position, Switching
  <2> QED
    BY <1>5, <2>1, <2>3 DEF DecisiveStep
<1> QED
  BY <1>1, <1>2, <1>3, <1>4, <1>5 DEF Position

-----------------------------------------------------------------------------
(* QuietInv is inductive.                                                  *)

\* No connection is served at first.
LEMMA NoCommands ==
  NoSession.cmds = <<>> /\ NoSession.client = "none"
PROOF
  BY DEF NoSession

\* Nothing has been asked, dialed or sent.
LEMMA QuietInit == Init => QuietInv
PROOF
<1> SUFFICES ASSUME Init PROVE QuietInv
  OBVIOUS
<1>1. session.cmds = <<>>
  BY NoCommands DEF Init
<1>2. ASSUME NEW r \in Requesters PROVE QuietOf(r)
  <2>1. todo[r] = <<>> /\ conn[r] = "none" /\ step[r] = 1 /\ done[r] = {}
    BY DEF Init
  <2>2. todo[r] \in Plans
    BY <2>1 DEF Plans
  <2>3. PlaceOf(r) /\ FreshOf(r) /\ OnceOf(r)
    BY <2>1 DEF PlaceOf, FreshOf, OnceOf, Ran
  <2> QED
    BY <2>2, <2>3 DEF QuietOf
<1> QED
  BY <1>1, <1>2 DEF QuietInv

\* No other connection is served while QEMU serves one.
LEMMA OneServed ==
  ASSUME ServedInv, Serving, NEW s \in Requesters, conn[s] = "served"
  PROVE  s = session.client /\ run # "exited"
PROOF
  BY DEF ServedInv, Serving

\* A step of another goroutine that leaves a served connection alone.
LEMMA QuietFrame ==
  ASSUME NEW s \in Requesters, QuietOf(s),
         UNCHANGED <<todo[s], conn[s], step[s], lines[s], done[s]>>,
         conn[s] = "served" => UNCHANGED <<session, run>>
  PROVE  QuietOf(s)'
PROOF
<1>1. todo'[s] \in Plans
  BY DEF QuietOf
<1>2. PlaceOf(s)'
  BY DEF QuietOf, PlaceOf
<1>3. FreshOf(s)'
  BY DEF QuietOf, FreshOf, Pending
<1>4. OnceOf(s)'
  BY DEF QuietOf, OnceOf
<1> QED
  BY <1>1, <1>2, <1>3, <1>4 DEF QuietOf

\* A goroutine between two calls, or whose call has just begun.
LEMMA QuietIdle ==
  ASSUME NEW s \in Requesters, QuietOf(s),
         todo'[s] \in Plans, conn'[s] # "served", step'[s] = 1, done'[s] = done[s],
         \/ todo'[s] = todo[s] /\ Pending(s)
         \/ todo'[s] = <<>>
         \/ todo[s] # <<>> /\ todo'[s] = Tail(todo[s])
  PROVE  QuietOf(s)'
PROOF
<1>1. PlaceOf(s)' /\ OnceOf(s)'
  BY DEF QuietOf, PlaceOf, OnceOf
<1>2. ASSUME NEW call \in Calls, Among(call, todo'[s])
      PROVE  ~Ran(Decisive(call), done[s])
  <2>1. CASE todo'[s] = todo[s] /\ Pending(s)
    BY <1>2, <2>1 DEF QuietOf, FreshOf
  <2>2. CASE todo'[s] = <<>>
    BY <1>2, <2>2 DEF Among
  <2>3. CASE todo[s] # <<>> /\ todo'[s] = Tail(todo[s])
    <3>1. todo[s] \in Plans
      BY DEF QuietOf
    <3>2. Among(call, todo[s]) /\ call # Head(todo[s])
      BY <1>2, <2>3, <3>1, RestOfPlan
    <3> QED
      BY <3>2 DEF QuietOf, FreshOf
  <2> QED
    BY <2>1, <2>2, <2>3
<1>3. FreshOf(s)'
  BY <1>2 DEF FreshOf
<1> QED
  BY <1>1, <1>3 DEF QuietOf

\* The connection of a call that may write or read.
LEMMA PlaceFacts ==
  ASSUME TypeInv, ServedInv, QuietInv, NEW r \in Requesters, Calling(r)
  PROVE  /\ Head(todo[r]) \in Calls /\ step[r] \in 1..9 /\ todo[r] \in Plans /\ todo[r] # <<>>
         /\ Tail(todo[r]) \in Plans
         /\ lines[r] # <<>> =>
              conn[r] = "served" /\ Position(Head(todo[r]), step[r], lines[r], session.cmds, done[r])
         /\ conn[r] = "served" /\ Serving =>
              /\ session.client = r /\ run # "exited"
              /\ Position(Head(todo[r]), step[r], lines[r], session.cmds, done[r])
PROOF
<1>1. todo[r] # <<>> /\ Head(todo[r]) \in Calls
  BY CallFacts
<1>2. step[r] \in 1..9
  BY DEF TypeInv, TypeOK
<1>3. QuietOf(r) /\ todo[r] \in Plans
  BY DEF QuietInv, QuietOf
<1>4. Tail(todo[r]) \in Plans
  BY <1>1, <1>3, RestOfPlan
<1>5. lines[r] # <<>> => conn[r] = "served"
  BY DEF TypeInv, CallInv
<1>6. conn[r] = "served" /\ Serving => session.client = r /\ run # "exited"
  BY OneServed
<1> QED
  BY <1>1, <1>2, <1>3, <1>4, <1>5, <1>6 DEF QuietOf, PlaceOf

\* One command is left to run: what Execute does to everybody.
LEMMA ExecuteFacts ==
  ASSUME TypeInv, ServedInv, QuietInv, Execute
  PROVE  \E cmd \in Commands :
           /\ session.cmds = <<cmd>> /\ session'.cmds = <<>>
           /\ session # NoSession /\ session.client \in Requesters /\ session'.client = session.client
           /\ run \in {"running", "stopped"} /\ run' = RunAfter(cmd)
           /\ UNCHANGED <<conn, req, todo, step, result, answer>>
           /\ \A s \in Requesters : conn[s] = "served" => s = session.client
           /\ \A s \in Requesters :
                IF conn[s] = "served"
                  THEN /\ lines'[s] = lines[s] \o Response(cmd)
                       /\ done'[s] = done[s] \cup {<<cmd, run>>}
                  ELSE UNCHANGED <<lines[s], done[s]>>
PROOF
<1>1. PICK cmd \in Commands : session.cmds = <<cmd>>
  BY DEF Execute, QuietInv
<1>2. Head(session.cmds) = cmd /\ Tail(session.cmds) = <<>>
  BY <1>1
<1>3. Serving /\ session # NoSession /\ session.client \in Requesters /\ session \in Sessions
  BY DEF Execute, Serving, TypeInv, TypeOK, CallInv
<1>4. /\ session' = [session EXCEPT !.cmds = <<>>,
                                    !.negotiated = session.negotiated \/ cmd = "qmp_capabilities"]
      /\ run' = RunAfter(cmd)
      /\ UNCHANGED <<conn, req, todo, step, result, answer>>
  BY <1>2, Zenon DEF Execute
<1>5. session'.cmds = <<>> /\ session'.client = session.client
  BY <1>3, <1>4 DEF Sessions
<1>6. run \in {"running", "stopped"}
  BY <1>3 DEF ServedInv, TypeInv, TypeOK, RunStates
<1>7. \A s \in Requesters : conn[s] = "served" => s = session.client
  BY <1>3, OneServed
<1>8. /\ lines \in [Requesters -> Seq(Lines)]
      /\ done \in [Requesters -> SUBSET (Commands \X RunStates)]
  BY DEF TypeInv, TypeOK
<1>9. IF conn[session.client] = "served"
        THEN /\ lines' = [lines EXCEPT ![session.client] = lines[session.client] \o Response(cmd)]
             /\ done'  = [done  EXCEPT ![session.client] = done[session.client] \cup {<<cmd, run>>}]
        ELSE UNCHANGED <<lines, done>>
  BY <1>2, <1>3, Zenon DEF Execute, Alive
<1>10. ASSUME NEW s \in Requesters
       PROVE  IF conn[s] = "served"
                THEN /\ lines'[s] = lines[s] \o Response(cmd)
                     /\ done'[s] = done[s] \cup {<<cmd, run>>}
                ELSE UNCHANGED <<lines[s], done[s]>>
  <2>1. CASE conn[s] = "served"
    <3>1. s = session.client
      BY <1>7, <2>1
    <3> QED
      BY <1>8, <1>9, <2>1, <3>1
  <2>2. CASE conn[s] # "served"
    BY <1>3, <1>8, <1>9, <2>2
  <2> QED
    BY <2>1, <2>2
<1> QED
  BY <1>1, <1>3, <1>4, <1>5, <1>6, <1>7, <1>10

\* Execute keeps the connection that it serves in its place, and runs a
\* decisive command only where it has not run yet.
LEMMA QuietRun ==
  ASSUME TypeInv, ServedInv, QuietInv, Execute, NEW s \in Requesters
  PROVE  QuietOf(s)'
PROOF
<1>1. PICK cmd \in Commands :
        /\ session.cmds = <<cmd>> /\ session'.cmds = <<>>
        /\ session # NoSession
        /\ run \in {"running", "stopped"} /\ run' = RunAfter(cmd)
        /\ UNCHANGED <<conn, req, todo, step, result, answer>>
        /\ \A r \in Requesters :
             IF conn[r] = "served"
               THEN /\ lines'[r] = lines[r] \o Response(cmd)
                    /\ done'[r] = done[r] \cup {<<cmd, run>>}
               ELSE UNCHANGED <<lines[r], done[r]>>
  BY ExecuteFacts
<1>2. QuietOf(s)
  BY DEF QuietInv
<1>3. CASE conn[s] # "served"
  BY <1>1, <1>2, <1>3, QuietFrame
<1>4. CASE conn[s] = "served"
  <2> DEFINE call == Head(todo[s])
             n == step[s]
             d == done[s] \cup {<<cmd, run>>}
  <2>1. Calling(s) /\ Serving
    BY <1>1, <1>4 DEF Calling, Serving
  <2>2. /\ call \in Calls /\ n \in 1..9 /\ todo[s] \in Plans /\ todo[s] # <<>>
        /\ Position(call, n, lines[s], <<cmd>>, done[s])
    BY <1>1, <1>4, <2>1, PlaceFacts
  <2>3. /\ lines[s] = <<>>
        /\ cmd \in {"qmp_capabilities", "system_reset", Decisive(call)}
        /\ n <= DecisiveStep(call) => cmd # Decisive(call)
        /\ Position(call, n, Response(cmd), <<>>, d)
    <3> HIDE DEF call, n
    <3>1. run \in {"running", "stopped"}
      BY <1>1
    <3> QED
      BY <2>2, <3>1, PositionRun, Zenon
  <2>4. lines'[s] = Response(cmd)
    <3>1. Response(cmd) \in Seq(Lines)
      BY ResponseType
    <3>2. <<>> \o Response(cmd) = Response(cmd)
      BY <3>1
    <3> QED
      BY <1>1, <1>4, <2>3, <3>2, Zenon
  <2>5. done'[s] = d
    BY <1>1, <1>4
  <2>6. PlaceOf(s)'
    BY <1>1, <1>4, <2>3, <2>4, <2>5 DEF PlaceOf
  <2>7. \A c1, c2 \in Calls : Decisive(c1) = Decisive(c2) => c1 = c2
    BY DEF Calls, Decisive
  <2>8. \A c \in Calls : Decisive(c) \notin {"qmp_capabilities", "system_reset"}
    BY DEF Calls, Decisive
  <2>9. ASSUME NEW c \in Calls, Among(c, todo[s]), c = call => n <= DecisiveStep(call)
        PROVE  ~Ran(Decisive(c), d)
    <3>1. cmd # Decisive(c)
      BY <2>2, <2>3, <2>7, <2>8, <2>9
    <3>2. ~Ran(Decisive(c), done[s])
      BY <1>2, <2>9 DEF QuietOf, FreshOf, Pending
    <3> QED
      BY <3>1, <3>2 DEF Ran
  <2>10. FreshOf(s)'
    <3>1. Pending(s)' => n <= DecisiveStep(call)
      BY <1>1, Short DEF Pending
    <3> HIDE DEF n, d, call
    <3> QED
      BY <1>1, <2>5, <2>9, <3>1 DEF FreshOf, call
  <2>11. OnceOf(s)'
    <3>1. cmd = Decisive(call) => ~Ran(cmd, done[s])
      <4>1. Among(call, todo[s])
        BY <2>2, RestOfPlan
      <4> QED
        BY <1>1, <1>2, <1>4, <2>2, <4>1 DEF QuietOf, FreshOf, Pending
    <3>2. ASSUME NEW c \in Calls, NEW a \in RunStates, NEW b \in RunStates,
                 <<Decisive(c), a>> \in d, <<Decisive(c), b>> \in d
          PROVE  a = b
      <4>1. CASE Decisive(c) = cmd
        <5>1. c = call
          BY <2>2, <2>3, <2>7, <2>8, <4>1
        <5>2. ~Ran(cmd, done[s])
          BY <3>1, <4>1, <5>1
        <5> QED
          BY <3>2, <4>1, <5>2 DEF Ran
      <4>2. CASE Decisive(c) # cmd
        <5>1. <<Decisive(c), a>> \in done[s] /\ <<Decisive(c), b>> \in done[s]
          BY <3>2, <4>2
        <5> QED
          BY <1>2, <5>1 DEF QuietOf, OnceOf
      <4> QED
        BY <4>1, <4>2
    <3> HIDE DEF d
    <3> QED
      BY <2>5, <3>2 DEF OnceOf
  <2> QED
    BY <1>1, <2>2, <2>6, <2>10, <2>11 DEF QuietOf
<1> QED
  BY <1>3, <1>4

\* What it means for the guest to be quiet.
LEMMA NoGuestEvent ==
  ASSUME MaxLines = 0, TypeInv
  PROVE  ~GuestEvent
PROOF
<1> SUFFICES ASSUME GuestEvent PROVE FALSE
  OBVIOUS
<1>1. session.client \in Requesters /\ Len(lines[session.client]) < 0
  BY DEF GuestEvent, Alive, Serving, TypeInv, CallInv
<1>2. Len(lines[session.client]) \in Nat
  BY <1>1 DEF TypeInv, TypeOK
<1> QED
  BY <1>1, <1>2

\* Every step keeps QuietInv where the guest adds no lines.
LEMMA QuietNext ==
  ASSUME MaxLines = 0, TypeInv, ServedInv, QuietInv, [Next]_vars
  PROVE  QuietInv'
PROOF
<1>0. /\ conn \in [Requesters -> {"none", "dialed", "served"}]
      /\ todo \in [Requesters -> Seq(Calls)]
      /\ step \in [Requesters -> 1..9]
      /\ lines \in [Requesters -> Seq(Lines)]
      /\ done \in [Requesters -> SUBSET (Commands \X RunStates)]
      /\ session \in Sessions
      /\ <<>> \in Plans
  BY DEF TypeInv, TypeOK, Plans
<1>1. \A s \in Requesters : QuietOf(s)
  BY DEF QuietInv
<1>2. UNCHANGED session => (session.cmds = <<>> \/ \E cmd \in Commands : session.cmds = <<cmd>>)'
  BY DEF QuietInv
\* Only the goroutine that takes the step is looked at.
<1>3. ASSUME NEW r \in Requesters, QuietOf(r)', UNCHANGED <<session, run>>,
             \A s \in Requesters \ {r} :
               UNCHANGED <<todo[s], conn[s], step[s], lines[s], done[s]>>
      PROVE  QuietInv'
  <2>1. \A s \in Requesters \ {r} : QuietOf(s)'
    BY <1>1, <1>3, QuietFrame
  <2> QED
    BY <1>2, <1>3, <2>1 DEF QuietInv
<1>4. ASSUME NEW r \in Requesters, NEW q \in Offered[r], Receive(r, q)
      PROVE  QuietInv'
  <2>1. conn[r] = "none" /\ step[r] = 1
    BY <1>4, Zenon DEF Receive, TypeInv, CallInv, Calling
  <2>2. todo'[r] \in Plans /\ done'[r] = {} /\ conn'[r] = "none" /\ step'[r] = 1
    <3>1. Plan(q) \in Plans
      BY PlanIsOne, PowerAssumption
    <3>2. todo' = todo \/ todo' = [todo EXCEPT ![r] = Plan(q)]
      BY <1>4, Zenon DEF Receive
    <3>3. todo'[r] \in Plans
      BY <1>0, <1>1, <3>1, <3>2 DEF QuietOf
    <3> QED
      BY <1>0, <1>4, <2>1, <3>3, Zenon DEF Receive
  <2>3. QuietOf(r)'
    BY <2>2, Zenon DEF QuietOf, PlaceOf, FreshOf, OnceOf, Ran
  <2> QED
    BY <1>0, <1>3, <1>4, <2>3, Zenon DEF Receive
<1>5. ASSUME NEW r \in Requesters, Dial(r)
      PROVE  QuietInv'
  <2>1. step[r] = 1 /\ Pending(r)
    BY <1>5 DEF Dial, TypeInv, CallInv, Pending, DecisiveStep
  <2>2. todo'[r] = todo[r] /\ conn'[r] = "dialed" /\ step'[r] = 1 /\ done'[r] = done[r]
    BY <1>0, <1>5, <2>1 DEF Dial
  <2>3. QuietOf(r)'
    BY <1>1, <2>1, <2>2, QuietIdle, Zenon DEF QuietOf
  <2> QED
    BY <1>0, <1>3, <1>5, <2>3 DEF Dial
<1>6. ASSUME NEW r \in Requesters, DialRefused(r)
      PROVE  QuietInv'
  <2>1. conn[r] = "none" /\ step[r] = 1
    BY <1>6 DEF DialRefused, TypeInv, CallInv, Calling
  <2>2. todo'[r] = <<>> /\ conn'[r] = "none" /\ step'[r] = 1 /\ done'[r] = done[r]
    BY <1>0, <1>6, <2>1 DEF DialRefused, Finish
  <2>3. QuietOf(r)'
    BY <1>0, <1>1, <2>2, QuietIdle, Zenon
  <2> QED
    BY <1>0, <1>3, <1>6, <2>3 DEF DialRefused, Finish
<1>7. ASSUME NEW r \in Requesters, WriteCommand(r)
      PROVE  QuietInv'
  <2> DEFINE call == Head(todo[r])
             cmd  == Instruction(r)
             n    == step[r]
  <2>1. /\ Calling(r) /\ conn[r] = "served" /\ Serving /\ cmd \in Commands
        /\ session' = [session EXCEPT !.cmds = Append(session.cmds, cmd)]
        /\ step' = [step EXCEPT ![r] = n + 1]
        /\ UNCHANGED <<run, conn, lines, todo, done>>
    BY <1>7 DEF WriteCommand
  <2>2. /\ call \in Calls /\ n \in 1..9 /\ session.client = r
        /\ Position(call, n, lines[r], session.cmds, done[r])
    BY <2>1, PlaceFacts
  <2>3. cmd = Script[call][n]
    BY DEF Instruction
  <2>4. /\ lines[r] = <<>> /\ session.cmds = <<>> /\ n <= DecisiveStep(call)
        /\ Position(call, n + 1, <<>>, <<cmd>>, done[r])
    BY <2>1, <2>2, <2>3, PositionWrite, Zenon
  <2>5. session'.cmds = <<cmd>> /\ step'[r] = n + 1
    BY <1>0, <2>1, <2>4, Short DEF Sessions
  <2> HIDE DEF cmd, n
  <2>6. PlaceOf(r)'
    BY <2>1, <2>4, <2>5 DEF PlaceOf
  <2>7. FreshOf(r)'
    BY <1>1, <2>1, <2>4 DEF QuietOf, FreshOf, Pending, n
  <2>8. QuietOf(r)'
    BY <1>1, <2>1, <2>6, <2>7 DEF QuietOf, OnceOf
  <2>9. ASSUME NEW s \in Requesters \ {r} PROVE QuietOf(s)'
    <3>1. conn[s] # "served"
      BY <2>1, <2>2, OneServed
    <3> QED
      BY <1>0, <1>1, <2>1, <3>1, QuietFrame
  <2> QED
    BY <2>1, <2>5, <2>8, <2>9 DEF QuietInv
<1>8. ASSUME NEW r \in Requesters, Read(r)
      PROVE  QuietInv'
  <2> DEFINE call == Head(todo[r])
             n    == step[r]
  <2>1. /\ Calling(r) /\ lines[r] # <<>> /\ n # Len(Script[call])
        /\ lines' = [lines EXCEPT ![r] = Tail(lines[r])]
        /\ step' = [step EXCEPT ![r] = n + 1]
        /\ UNCHANGED <<run, session, conn, todo, done>>
    BY <1>8 DEF Read, LastStep
  <2>2. /\ call \in Calls /\ n \in 1..9 /\ conn[r] = "served"
        /\ Position(call, n, lines[r], session.cmds, done[r])
    BY <2>1, PlaceFacts
  <2>3. session.cmds = <<>> /\ Position(call, n + 1, Tail(lines[r]), session.cmds, done[r])
    BY <2>1, <2>2, PositionRead, Zenon
  <2>4. step'[r] = n + 1 /\ lines'[r] = Tail(lines[r])
    BY <1>0, <2>1
  <2>5. PlaceOf(r)'
    BY <2>1, <2>2, <2>3, <2>4 DEF PlaceOf
  <2>6. FreshOf(r)'
    <3>1. Pending(r)' => Pending(r)
      <4>1. DecisiveStep(call) \in Nat
        BY DEF DecisiveStep
      <4>2. n + 1 <= DecisiveStep(call) => n <= DecisiveStep(call)
        BY <2>2, <4>1
      <4> HIDE DEF n
      <4> QED
        BY <2>1, <2>4, <4>2 DEF Pending, n
    <3> QED
      BY <1>1, <2>1, <3>1 DEF QuietOf, FreshOf
  <2>7. QuietOf(r)'
    BY <1>1, <2>1, <2>5, <2>6, Zenon DEF QuietOf, OnceOf
  <2> QED
    BY <1>0, <1>3, <2>1, <2>7
<1>9. ASSUME NEW r \in Requesters, Return(r) \/ Fail(r)
      PROVE  QuietInv'
  <2>1. Calling(r) /\ Close(r) /\ UNCHANGED <<run, session, done>>
    BY <1>9, Zenon DEF Return, Fail
  <2>2. \/ todo' = [todo EXCEPT ![r] = <<>>]
        \/ todo' = [todo EXCEPT ![r] = Tail(todo[r])]
    BY <1>9, Zenon DEF Return, Proceed, Fail, Finish
  <2>3. Tail(todo[r]) \in Plans /\ todo[r] # <<>>
    BY <2>1, PlaceFacts, Zenon
  <2>4. conn'[r] = "none" /\ step'[r] = 1 /\ done'[r] = done[r]
    BY <1>0, <2>1 DEF Close
  <2>5. todo'[r] = <<>> \/ todo'[r] = Tail(todo[r])
    BY <1>0, <2>2
  <2>6. QuietOf(r)'
    BY <1>0, <1>1, <2>3, <2>4, <2>5, QuietIdle, Zenon
  <2> QED
    BY <1>0, <1>3, <2>1, <2>2, <2>6 DEF Close
<1>10. ASSUME NEW r \in Requesters, Accept(r)
       PROVE  QuietInv'
  <2>1. /\ session'.cmds = <<>> /\ conn[r] = "dialed" /\ run # "exited"
        /\ session = NoSession
        /\ conn' = [conn EXCEPT ![r] = "served"]
        /\ lines' = [lines EXCEPT ![r] = <<"greeting">>]
        /\ UNCHANGED <<run, todo, step, done>>
    BY <1>10 DEF Accept, Serving
  <2>2. step[r] = 1
    BY <1>1, <2>1 DEF QuietOf, PlaceOf
  <2>3. lines'[r] = <<"greeting">> /\ conn'[r] = "served"
    BY <1>0, <2>1
  <2>4. PlaceOf(r)'
    BY <2>1, <2>2, <2>3, Zenon DEF PlaceOf, Position, Opening
  <2>5. FreshOf(r)'
    <3>1. Pending(r)
      BY <2>2 DEF Pending, DecisiveStep
    <3> QED
      BY <1>1, <2>1, <3>1, Zenon DEF QuietOf, FreshOf
  <2>6. QuietOf(r)'
    BY <1>1, <2>1, <2>4, <2>5 DEF QuietOf, OnceOf
  <2>7. ASSUME NEW s \in Requesters \ {r} PROVE QuietOf(s)'
    <3>1. conn[s] # "served"
      BY <2>1 DEF ServedInv
    <3> QED
      BY <1>0, <1>1, <2>1, <3>1, QuietFrame
  <2> QED
    BY <2>1, <2>6, <2>7 DEF QuietInv
<1>11. CASE Execute
  BY <1>11, QuietRun, ExecuteFacts DEF QuietInv
<1>12. CASE Hangup
  <2>1. /\ Serving /\ ~Alive /\ session' = NoSession
        /\ UNCHANGED <<run, conn, lines, todo, step, done>>
    BY <1>12 DEF Hangup
  <2>2. ASSUME NEW s \in Requesters PROVE QuietOf(s)'
    <3>1. conn[s] # "served"
      BY <2>1, OneServed DEF Alive
    <3> QED
      BY <1>1, <2>1, <3>1, QuietFrame
  <2> QED
    BY <2>1, <2>2, NoCommands, Zenon DEF QuietInv
<1>13. ~GuestEvent
  BY NoGuestEvent
<1>14. CASE Exit
  <2>1. /\ session'.cmds = <<>> /\ run' = "exited"
        /\ UNCHANGED <<conn, lines, todo, step, done>>
    BY <1>14, NoCommands DEF Exit
  <2>2. ASSUME NEW s \in Requesters PROVE QuietOf(s)'
    <3>1. CASE conn[s] # "served"
      BY <1>1, <2>1, <3>1, QuietFrame
    <3>2. CASE conn[s] = "served"
      <4>1. lines[s] # <<>> => session.cmds = <<>>
        <5>1. ASSUME lines[s] # <<>> PROVE session.cmds = <<>>
          <6>1. /\ Head(todo[s]) \in Calls /\ step[s] \in 1..9
                /\ Position(Head(todo[s]), step[s], lines[s], session.cmds, done[s])
            BY <3>2, <5>1, PlaceFacts, Zenon DEF Calling
          <6> QED
            BY <5>1, <6>1, PositionRead, PositionLast, Zenon DEF Ends
        <5> QED
          BY <5>1
      <4>2. PlaceOf(s)'
        BY <1>1, <2>1, <3>2, <4>1 DEF QuietOf, PlaceOf
      <4>3. FreshOf(s)'
        <5>1. Pending(s)' => Pending(s)
          BY <2>1, Short DEF Pending
        <5> QED
          BY <1>1, <2>1, <5>1 DEF QuietOf, FreshOf
      <4> QED
        BY <1>1, <2>1, <4>2, <4>3 DEF QuietOf, OnceOf
    <3> QED
      BY <3>1, <3>2
  <2> QED
    BY <2>1, <2>2 DEF QuietInv
<1>15. CASE UNCHANGED vars
  BY <1>1, <1>2, <1>15, QuietFrame DEF vars, QuietInv
<1> QED
  BY <1>4, <1>5, <1>6, <1>7, <1>8, <1>9, <1>10, <1>11, <1>12, <1>13, <1>14, <1>15
  DEF Next, HandlerStep

\* What holds in every state while the guest is quiet.
LEMMA QuietInvariant ==
  ASSUME MaxLines = 0
  PROVE  Spec => [](TypeInv /\ ServedInv /\ QuietInv)
PROOF
<1>1. TypeInv /\ ServedInv /\ QuietInv /\ [Next]_vars => QuietInv'
  BY QuietNext
<1> QED
  BY <1>1, QuietInit, TypeInvariant, ServedInvariant, PTL DEF Spec

-----------------------------------------------------------------------------
(* What an answer says.                                                    *)

\* A call that returns has acted, and met what its value says.
LEMMA ReturnFacts ==
  ASSUME TypeInv, ServedInv, QuietInv, NEW r \in Requesters, Return(r)
  PROVE  /\ conn[r] = "served" /\ session.cmds = <<>>
         /\ step[r] > DecisiveStep(Head(todo[r]))
         /\ Head(todo[r]) = "PowerStatus" =>
              \/ lines[r] = <<"running">> /\ <<"query-status", "running">> \in done[r]
              \/ lines[r] = <<"notRunning">> /\ <<"query-status", "stopped">> \in done[r]
         /\ Head(todo[r]) # "PowerStatus" =>
              <<Decisive(Head(todo[r])), From(Head(todo[r]))>> \in done[r]
PROOF
<1>1. Calling(r) /\ lines[r] # <<>> /\ Ends(Head(todo[r]), step[r])
  BY DEF Return, LastStep, Ends
<1>2. /\ Head(todo[r]) \in Calls /\ step[r] \in 1..9 /\ conn[r] = "served"
      /\ Position(Head(todo[r]), step[r], lines[r], session.cmds, done[r])
  BY <1>1, PlaceFacts, Zenon
<1> QED
  BY <1>1, <1>2, PositionLast, Zenon

\* A status request switches nothing.
LEMMA StatusSwitchesNothing ==
  ASSUME NEW q \in Request, q[1] = "NodeStatus", NEW call \in {"PowerOn", "PowerOff"}
  PROVE  ~Has(q, call)
PROOF
<1>1. q[2] \in DOMAIN newNodeStatus /\ Plan(q) = newNodeStatus[q[2]]
  BY DEF Request, Handlers, Plan
<1>2. Plan(q) = <<"PowerStatus">> \/ Plan(q) = <<>>
  BY <1>1 DEF newNodeStatus
<1>3. CASE Plan(q) = <<>>
  BY <1>3 DEF Has
<1>4. CASE Plan(q) = <<"PowerStatus">>
  BY <1>4 DEF Has
<1> QED
  BY <1>2, <1>3, <1>4

\* A step that leaves a request alone leaves what it has done.
LEMMA MadeFrame ==
  ASSUME NEW s \in Requesters, MadeOf(s), UNCHANGED <<req[s], todo[s], answer[s], done[s]>>
  PROVE  MadeOf(s)'
PROOF
  BY DEF MadeOf

\* A request that ends keeps what it has done.
LEMMA MadeFinish ==
  ASSUME NEW s \in Requesters, MadeOf(s), req[s] # NoRequest,
         req'[s] = NoRequest, done'[s] = done[s], answer'[s].to = req[s],
         \A call \in {"PowerOn", "PowerOff"} :
           answer'[s].code = "ok" /\ Has(req[s], call) => <<Decisive(call), From(call)>> \in done[s]
  PROVE  MadeOf(s)'
PROOF
<1>1. \A call \in {"PowerOn", "PowerOff"} :
        answer'[s].code = "ok" /\ Has(answer'[s].to, call) =>
          <<Decisive(call), From(call)>> \in done'[s]
  BY Zenon
<1>2. \A q \in {req'[s], answer'[s].to} \ {NoRequest} :
        Has(q, "PowerOff") /\ Ran("system_reset", done'[s]) => <<"stop", "running">> \in done'[s]
  BY Zenon DEF MadeOf
<1> QED
  BY <1>1, <1>2 DEF MadeOf

\* Every step keeps MadeInv: the last read of a switching call returns success
\* only at a position behind the event of its own command.
LEMMA MadeNext ==
  ASSUME TypeInv, ServedInv, QuietInv, MadeInv, [Next]_vars
  PROVE  MadeInv'
PROOF
<1> SUFFICES ASSUME NEW s \in Requesters PROVE MadeOf(s)'
  BY DEF MadeInv
<1>0. /\ MadeOf(s) /\ QuietOf(s)
      /\ req \in [Requesters -> Request \cup {NoRequest}]
      /\ todo \in [Requesters -> Seq(Calls)]
      /\ answer \in [Requesters -> Answers]
      /\ done \in [Requesters -> SUBSET (Commands \X RunStates)]
      /\ NoAnswer.to = NoRequest /\ NoAnswer.code = "none"
  BY Zenon DEF MadeInv, QuietInv, TypeInv, TypeOK, NoAnswer
<1>1. ASSUME NEW r \in Requesters, NEW q \in Offered[r], Receive(r, q)
      PROVE  MadeOf(s)'
  <2>1. CASE r # s
    BY <1>0, <1>1, <2>1, MadeFrame, Zenon DEF Receive
  <2>2. CASE r = s
    <3>1. q \in Request /\ q # NoRequest
      BY PlanFacts, PowerAssumption
    <3>2. done'[s] = {} /\ ~Ran("system_reset", done'[s])
      BY <1>0, <1>1, <2>2, Zenon DEF Receive, Ran
    <3>3. CASE Plan(q) = <<>>
      <4>1. req'[s] = NoRequest /\ answer'[s].to = q
        <5>1. /\ req[s] = NoRequest /\ UNCHANGED req
              /\ answer' = [answer EXCEPT ![s] = [to |-> q, code |-> NoCallAnswer(q), status |-> "none"]]
          BY <1>1, <2>2, <3>3, Zenon DEF Receive
        <5>2. answer'[s] = [to |-> q, code |-> NoCallAnswer(q), status |-> "none"]
          BY <1>0, <5>1, Zenon
        <5> QED
          BY <5>1, <5>2
      <4>2. \A call : ~Has(q, call)
        BY <3>3 DEF Has
      <4> QED
        BY <3>2, <4>1, <4>2, Zenon DEF MadeOf
    <3>4. CASE Plan(q) # <<>>
      <4>1. req'[s] = q /\ todo'[s] = Plan(q) /\ answer'[s] = NoAnswer
        BY <1>0, <1>1, <2>2, <3>4, Zenon DEF Receive
      <4>2. \A call : Has(q, call) => Among(call, todo'[s])
        BY <4>1 DEF Has, Among
      <4> QED
        BY <1>0, <3>2, <4>1, <4>2, Zenon DEF MadeOf
    <3> QED
      BY <3>3, <3>4
  <2> QED
    BY <2>1, <2>2
<1>2. ASSUME NEW r \in Requesters, DialRefused(r) \/ Fail(r)
      PROVE  MadeOf(s)'
  <2>1. req[r] # NoRequest /\ Finish(r, ErrorAnswer(req[r])) /\ UNCHANGED done
    BY <1>2, Zenon DEF DialRefused, Fail, TypeInv, CallInv
  <2>2. CASE r # s
    BY <1>0, <2>1, <2>2, MadeFrame DEF Finish
  <2>3. CASE r = s
    <3>1. /\ req'[s] = NoRequest /\ done'[s] = done[s] /\ answer'[s] = ErrorAnswer(req[s])
      BY <1>0, <2>1, <2>3 DEF Finish
    <3>2. /\ answer'[s].to = req[s]
          /\ answer'[s].code = "ok" => req[s][1] = "NodeStatus"
      BY <3>1 DEF ErrorAnswer
    <3>3. req[s] \in Request
      BY <1>0, <2>1, <2>3
    <3> QED
      BY <1>0, <2>1, <2>3, <3>1, <3>2, <3>3, StatusSwitchesNothing, MadeFinish, Zenon
  <2> QED
    BY <2>2, <2>3
<1>3. ASSUME NEW r \in Requesters, Return(r)
      PROVE  MadeOf(s)'
  <2>1. UNCHANGED done /\ Calling(r) /\ \E v : Proceed(r, v)
    BY <1>3, Zenon DEF Return
  <2>2. CASE r # s
    <3>1. UNCHANGED <<req[s], todo[s], answer[s]>>
      BY <1>0, <2>1, <2>2, Zenon DEF Proceed, Finish
    <3> QED
      BY <1>0, <2>1, <3>1, MadeFrame, Zenon
  <2>3. CASE r = s
    <3>1. /\ req[s] # NoRequest /\ answer[s] = NoAnswer
          /\ todo[s] \in Plans /\ todo[s] # <<>>
      BY <2>1, <2>3, PlaceFacts, Zenon DEF TypeInv, CallInv
    <3>2. ASSUME NEW call \in {"PowerOn", "PowerOff"}, Has(req[s], call)
          PROVE  Among(call, Tail(todo[s])) \/ <<Decisive(call), From(call)>> \in done[s]
      <4>1. Among(call, todo[s]) \/ <<Decisive(call), From(call)>> \in done[s]
        BY <1>0, <3>1, <3>2, Zenon DEF MadeOf
      <4>2. call = Head(todo[s]) => <<Decisive(call), From(call)>> \in done[s]
        BY <1>3, <2>3, ReturnFacts
      <4> QED
        BY <3>1, <4>1, <4>2, RestOfPlan
    <3>3. PICK v : Proceed(s, v)
      BY <2>1, <2>3
    <3>4. CASE /\ Tail(todo[s]) = <<>>
               /\ Finish(s, [to |-> req[s], code |-> "ok", status |-> v])
      <4>1. /\ req'[s] = NoRequest /\ done'[s] = done[s] /\ answer'[s].to = req[s]
        BY <1>0, <2>1, <3>4 DEF Finish
      <4>2. \A call : ~Among(call, Tail(todo[s]))
        BY <3>4 DEF Among
      <4> QED
        BY <1>0, <3>1, <3>2, <4>1, <4>2, MadeFinish, Zenon
    <3>5. CASE Finish(s, [to |-> req[s], code |-> "conflict", status |-> v])
      <4>1. /\ req'[s] = NoRequest /\ done'[s] = done[s] /\ answer'[s].to = req[s]
            /\ answer'[s].code = "conflict"
        BY <1>0, <2>1, <3>5 DEF Finish
      <4> QED
        BY <1>0, <3>1, <4>1, MadeFinish, Zenon
    <3>6. CASE todo' = [todo EXCEPT ![s] = Tail(todo[s])] /\ UNCHANGED <<req, answer>>
      <4>1. todo'[s] = Tail(todo[s]) /\ req'[s] = req[s] /\ answer'[s] = NoAnswer /\ done'[s] = done[s]
        BY <1>0, <2>1, <3>1, <3>6
      <4> QED
        BY <1>0, <3>1, <3>2, <4>1, Zenon DEF MadeOf
    <3> QED
      BY <3>3, <3>4, <3>5, <3>6 DEF Proceed
  <2> QED
    BY <2>2, <2>3
<1>4. CASE Execute
  <2>1. PICK cmd \in Commands :
          /\ session.cmds = <<cmd>> /\ session # NoSession
          /\ run \in {"running", "stopped"}
          /\ UNCHANGED <<conn, req, todo, step, result, answer>>
          /\ \A r \in Requesters :
               IF conn[r] = "served"
                 THEN done'[r] = done[r] \cup {<<cmd, run>>}
                 ELSE UNCHANGED done[r]
    BY <1>4, ExecuteFacts, Zenon
  <2>2. CASE conn[s] # "served"
    BY <1>0, <2>1, <2>2, MadeFrame, Zenon
  <2>3. CASE conn[s] = "served"
    <3>1. Calling(s) /\ Serving
      BY <2>1, <2>3 DEF Calling, Serving
    <3>2. req[s] # NoRequest /\ answer[s] = NoAnswer
      BY <3>1 DEF TypeInv, CallInv
    <3>3. done'[s] = done[s] \cup {<<cmd, run>>}
      BY <2>1, <2>3
    <3>4. ASSUME cmd = "system_reset", Has(req[s], "PowerOff")
          PROVE  <<"stop", "running">> \in done[s]
      <4>1. /\ Head(todo[s]) \in Calls /\ step[s] \in 1..9 /\ todo[s] \in Plans /\ todo[s] # <<>>
            /\ Position(Head(todo[s]), step[s], lines[s], <<cmd>>, done[s])
        BY <2>1, <2>3, <3>1, PlaceFacts, Zenon
      <4>2. Head(todo[s]) = "PowerOn"
        BY <2>1, <3>4, <4>1, PositionRun, Zenon
      <4>3. ~Among("PowerOff", todo[s])
        <5>1. ~Among("PowerOff", <<>>)
          BY DEF Among
        <5>2. Tail(todo[s]) = <<>> /\ (Among("PowerOff", todo[s]) =>
                "PowerOff" = Head(todo[s]) \/ Among("PowerOff", Tail(todo[s])))
          BY <4>1, <4>2, RestOfPlan, Zenon
        <5> QED
          BY <4>2, <5>1, <5>2, Zenon
      <4> QED
        BY <1>0, <3>2, <3>4, <4>3 DEF MadeOf, Decisive, From
    <3>5. Ran("system_reset", done'[s]) => Ran("system_reset", done[s]) \/ cmd = "system_reset"
      BY <3>3 DEF Ran
    <3>6. \A q \in {req[s], NoRequest} \ {NoRequest} :
            Has(q, "PowerOff") /\ Ran("system_reset", done'[s]) => <<"stop", "running">> \in done'[s]
      BY <1>0, <3>2, <3>3, <3>4, <3>5, Zenon DEF MadeOf
    <3>7. \A call \in {"PowerOn", "PowerOff"} : Has(req[s], call) =>
            Among(call, todo[s]) \/ <<Decisive(call), From(call)>> \in done'[s]
      BY <1>0, <3>2, <3>3, Zenon DEF MadeOf
    <3> QED
      BY <1>0, <2>1, <3>2, <3>6, <3>7, Zenon DEF MadeOf
  <2> QED
    BY <2>2, <2>3
<1>5. CASE UNCHANGED <<req, todo, answer, done>>
  BY <1>0, <1>5, MadeFrame
<1> QED
  BY <1>1, <1>2, <1>3, <1>4, <1>5
  DEF Next, HandlerStep, Dial, WriteCommand, Read, Accept, Hangup, GuestEvent, Exit, vars

\* MadeInv holds from the start.
LEMMA MadeInvariant ==
  ASSUME MaxLines = 0
  PROVE  Spec => []MadeInv
PROOF
<1>1. Init => MadeInv
  <2> SUFFICES ASSUME Init, NEW r \in Requesters PROVE MadeOf(r)
    BY Zenon DEF MadeInv
  <2>1. req[r] = NoRequest /\ answer[r] = NoAnswer
    BY DEF Init
  <2>2. NoAnswer.code = "none" /\ NoAnswer.to = NoRequest
    BY DEF NoAnswer
  <2> QED
    BY <2>1, <2>2, Zenon DEF MadeOf
<1>2. TypeInv /\ ServedInv /\ QuietInv /\ MadeInv /\ [Next]_vars => MadeInv'
  BY MadeNext
<1> QED
  BY <1>1, <1>2, QuietInvariant, PTL DEF Spec

\* While the guest is quiet, a power request that is answered with success has
\* made the change itself: PowerOff and PowerOn count the lines of their
\* connection, and only a command that changed the run state sends them all.
THEOREM SuccessIsOwn ==
  ASSUME MaxLines = 0
  PROVE  Spec => []SuccessMadeTheChange
PROOF
<1>1. MadeInv => SuccessMadeTheChange
  BY DEF MadeInv, MadeOf, SuccessMadeTheChange, Decisive, From
<1> QED
  BY <1>1, MadeInvariant, PTL

\* While the guest is quiet, the PowerOn of a restart or power cycle resets the
\* guest only after the PowerOff before it has stopped it.
THEOREM RestartOrder ==
  ASSUME MaxLines = 0
  PROVE  Spec => []RestartStopsFirst
PROOF
<1>1. MadeInv => RestartStopsFirst
  BY DEF MadeInv, MadeOf, RestartStopsFirst, Ran
<1> QED
  BY <1>1, MadeInvariant, PTL

-----------------------------------------------------------------------------
(* A status of Off.                                                        *)

\* What was seen during a status call stays seen.
LEMMA OffFrame ==
  ASSUME NEW s \in Requesters, OffOf(s),
         UNCHANGED <<todo[s], conn[s], answer[s], done[s]>>, seen[s] \subseteq seen'[s]
  PROVE  OffOf(s)'
PROOF
  BY DEF OffOf, AtStatus, Calling

\* The call that is under way, or the answer, is gone.
LEMMA OffIdle ==
  ASSUME NEW s \in Requesters, conn'[s] = "none", answer'[s].status # "Off"
  PROVE  OffOf(s)'
PROOF
  BY DEF OffOf, Calling

\* Every step keeps OffInv: a query that meets a stopped VM runs during its
\* own call.
LEMMA OffNext ==
  ASSUME TypeInv, ServedInv, OnInv, QuietInv, OffInv, [Next]_vars
  PROVE  OffInv'
PROOF
<1> SUFFICES ASSUME NEW s \in Requesters PROVE OffOf(s)'
  BY DEF OffInv
<1>0. /\ OffOf(s) /\ QuietOf(s) /\ OnOf(s)
      /\ conn \in [Requesters -> {"none", "dialed", "served"}]
      /\ req \in [Requesters -> Request \cup {NoRequest}]
      /\ todo \in [Requesters -> Seq(Calls)]
      /\ answer \in [Requesters -> Answers]
      /\ seen \in [Requesters -> SUBSET RunStates]
      /\ done \in [Requesters -> SUBSET (Commands \X RunStates)]
      /\ NoAnswer.status = "none"
  BY Zenon DEF OffInv, QuietInv, OnInv, TypeInv, TypeOK, NoAnswer
<1>1. ASSUME NEW r \in Requesters, NEW q \in Offered[r], Receive(r, q)
      PROVE  OffOf(s)'
  <2>1. CASE r # s
    BY <1>0, <1>1, <2>1, OffFrame, Zenon DEF Receive
  <2>2. CASE r = s
    <3>1. conn'[s] = "none"
      BY <1>1, <2>2, Zenon DEF Receive, TypeInv, CallInv, Calling
    <3>2. answer'[s].status = "none"
      BY <1>0, <1>1, <2>2 DEF Receive
    <3> QED
      BY <3>1, <3>2, OffIdle
  <2> QED
    BY <2>1, <2>2
<1>2. ASSUME NEW r \in Requesters, Dial(r)
      PROVE  OffOf(s)'
  <2>1. CASE r # s
    BY <1>0, <1>2, <2>1, OffFrame DEF Dial
  <2>2. CASE r = s
    <3>1. /\ step[s] = 1 /\ answer'[s] = NoAnswer /\ todo'[s] = todo[s] /\ done'[s] = done[s]
      BY <1>2, <2>2, Zenon DEF Dial, TypeInv, CallInv
    <3>2. ASSUME AtStatus(s) PROVE ~Ran("query-status", done[s])
      <4>1. Pending(s)
        BY <3>1 DEF Pending, DecisiveStep
      <4>2. Among("PowerStatus", todo[s])
        BY <1>0, <3>2, RestOfPlan DEF QuietOf, AtStatus
      <4>3. "PowerStatus" \in Calls /\ Decisive("PowerStatus") = "query-status"
        BY DEF Calls, Decisive
      <4> QED
        BY <1>0, <4>1, <4>2, <4>3 DEF QuietOf, FreshOf
    <3> QED
      BY <1>0, <3>1, <3>2, Zenon DEF OffOf, AtStatus, Ran
  <2> QED
    BY <2>1, <2>2
<1>3. ASSUME NEW r \in Requesters, DialRefused(r) \/ Fail(r)
      PROVE  OffOf(s)'
  <2>1. CASE r # s
    BY <1>0, <1>3, <2>1, OffFrame, Zenon DEF DialRefused, Fail, Finish, Close
  <2>2. CASE r = s
    <3>1. conn'[s] = "none"
      BY <1>0, <1>3, <2>2 DEF DialRefused, Fail, Close, Calling
    <3>2. answer'[s] = ErrorAnswer(req[s])
      BY <1>0, <1>3, <2>2 DEF DialRefused, Fail, Finish
    <3>3. answer'[s].status # "Off"
      BY <3>2 DEF ErrorAnswer
    <3> QED
      BY <3>1, <3>3, OffIdle, Zenon
  <2> QED
    BY <2>1, <2>2
<1>4. ASSUME NEW r \in Requesters, Return(r)
      PROVE  OffOf(s)'
  <2> DEFINE value == IF Head(todo[r]) = "PowerStatus" THEN ParseStatus(Head(lines[r])) ELSE "nil"
  <2>1. Calling(r) /\ Close(r) /\ UNCHANGED <<seen, done>> /\ Proceed(r, value)
    BY <1>4, Zenon DEF Return
  <2>2. CASE r # s
    <3> HIDE DEF value
    <3>1. UNCHANGED <<todo[s], conn[s], answer[s], done[s], seen[s]>>
      BY <1>0, <2>1, <2>2, Zenon DEF Proceed, Finish, Close
    <3> QED
      BY <1>0, <3>1, OffFrame, Zenon
  <2>3. CASE r = s
    <3>1. conn'[s] = "none" /\ answer[s] = NoAnswer /\ todo[s] # <<>>
      BY <1>0, <2>1, <2>3 DEF Close, TypeInv, CallInv
    <3>2. value = "Off" => "stopped" \in seen[s]
      <4>1. Head(<<"running">>) = "running"
        OBVIOUS
      <4>2. value = "Off" => <<"query-status", "stopped">> \in done[s] /\ AtStatus(s)
        BY <1>4, <2>3, <3>1, <4>1, ReturnFacts, Zenon DEF ParseStatus, AtStatus
      <4> QED
        BY <1>0, <2>1, <2>3, <4>2 DEF OffOf, RunStates
    <3> HIDE DEF value
    <3>3. answer'[s].status = value \/ answer'[s] = NoAnswer
      <4>1. \/ \E c : Finish(r, [to |-> req[r], code |-> c, status |-> value])
            \/ UNCHANGED answer
        BY <2>1, Zenon DEF Proceed
      <4>2. ASSUME NEW c, Finish(r, [to |-> req[r], code |-> c, status |-> value])
            PROVE  answer'[s].status = value
        <5>1. answer'[s] = [to |-> req[r], code |-> c, status |-> value]
          BY <1>0, <2>3, <4>2 DEF Finish
        <5> QED
          BY <5>1
      <4> QED
        BY <3>1, <4>1, <4>2, Zenon
    <3> QED
      BY <1>0, <2>1, <3>1, <3>2, <3>3, Zenon DEF OffOf, Calling
  <2> QED
    BY <2>2, <2>3
<1>5. CASE Execute
  <2>1. PICK cmd \in Commands :
          /\ UNCHANGED <<conn, todo, answer>>
          /\ \A r \in Requesters :
               IF conn[r] = "served"
                 THEN done'[r] = done[r] \cup {<<cmd, run>>}
                 ELSE UNCHANGED done[r]
    BY <1>5, ExecuteFacts, Zenon
  <2>2. seen[s] \subseteq seen'[s]
    BY <1>0, <1>5 DEF Execute, Witness
  <2>3. CASE conn[s] # "served"
    BY <1>0, <2>1, <2>2, <2>3, OffFrame, Zenon
  <2>4. CASE conn[s] = "served"
    <3>1. run \in seen[s]
      BY <1>0, <2>4, Zenon DEF OnOf, SeenOf, Calling
    <3>2. done'[s] = done[s] \cup {<<cmd, run>>}
      BY <2>1, <2>4
    <3> QED
      BY <1>0, <2>1, <2>2, <3>1, <3>2, Zenon DEF OffOf, AtStatus, Calling
  <2> QED
    BY <2>3, <2>4
<1>6. CASE Exit
  <2>1. seen[s] \subseteq seen'[s]
    BY <1>0, <1>6 DEF Exit, Witness
  <2> QED
    BY <1>0, <1>6, <2>1, OffFrame, Zenon DEF Exit
<1>7. ASSUME NEW r \in Requesters, Accept(r)
      PROVE  OffOf(s)'
  <2>1. UNCHANGED <<todo, answer, done, seen>> /\ conn[r] = "dialed"
        /\ conn' = [conn EXCEPT ![r] = "served"]
    BY <1>7 DEF Accept
  <2>2. Calling(s)' => Calling(s)
    BY <1>0, <2>1 DEF Calling
  <2> QED
    BY <1>0, <2>1, <2>2, Zenon DEF OffOf, AtStatus
<1>8. CASE UNCHANGED <<conn, todo, answer, done, seen>>
  BY <1>0, <1>8, OffFrame
<1> QED
  BY <1>1, <1>2, <1>3, <1>4, <1>5, <1>6, <1>7, <1>8
  DEF Next, HandlerStep, WriteCommand, Read, Hangup, GuestEvent, vars

\* While the guest is quiet, a status of Off, and a refusal because the server
\* is already powered off, are given only if the VM was stopped at some moment
\* of that PowerStatus call: the line it takes its value from is the response
\* to its own query-status.
THEOREM OffIsTrue ==
  ASSUME MaxLines = 0
  PROVE  Spec => []OffWasStopped
PROOF
<1>1. Init => OffInv
  <2> SUFFICES ASSUME Init, NEW r \in Requesters PROVE OffOf(r)
    BY Zenon DEF OffInv
  <2>1. conn[r] = "none" /\ answer[r] = NoAnswer
    BY DEF Init
  <2>2. NoAnswer.status = "none"
    BY DEF NoAnswer
  <2> QED
    BY <2>1, <2>2 DEF OffOf, Calling
<1>2. TypeInv /\ ServedInv /\ OnInv /\ QuietInv /\ OffInv /\ [Next]_vars => OffInv'
  BY OffNext
<1>3. Spec => []OnInv
  BY TypeInvariant, OnInit, OnNext, PTL DEF Spec
<1>4. OffInv => OffWasStopped
  BY DEF OffInv, OffOf, OffWasStopped
<1> QED
  BY <1>1, <1>2, <1>3, <1>4, QuietInvariant, PTL DEF Spec

-----------------------------------------------------------------------------
(* A front end that has had the VM to itself.                              *)

\* Who has been asked once is never untouched again.
LEMMA TouchedStays ==
  ASSUME TypeInv, [Next]_vars, NEW o \in Requesters, Untouched(o)'
  PROVE  /\ Untouched(o)
         /\ \A q \in Offered[o] : ~Receive(o, q)
         /\ ~HandlerStep(o)
PROOF
<1>0. /\ req \in [Requesters -> Request \cup {NoRequest}]
      /\ answer \in [Requesters -> Answers]
      /\ NoAnswer.to = NoRequest
      /\ Calling(o) => req[o] # NoRequest
      /\ req[o] # NoRequest => answer[o] = NoAnswer
  BY Zenon DEF TypeInv, TypeOK, CallInv, NoAnswer
<1>1. req'[o] = NoRequest /\ answer'[o].to = NoRequest /\ answer'[o] = NoAnswer
  BY <1>0 DEF Untouched
<1>2. ASSUME NEW q \in Offered[o], Receive(o, q) PROVE FALSE
  <2>1. q # NoRequest
    BY PlanFacts, PowerAssumption
  <2>2. req'[o] = q \/ answer'[o].to = q
    <3>1. CASE Plan(q) = <<>>
      <4>1. answer'[o] = [to |-> q, code |-> NoCallAnswer(q), status |-> "none"]
        BY <1>0, <1>2, <3>1, Zenon DEF Receive
      <4> QED
        BY <4>1
    <3>2. CASE Plan(q) # <<>>
      BY <1>0, <1>2, <3>2, Zenon DEF Receive
    <3> QED
      BY <3>1, <3>2
  <2> QED
    BY <1>1, <2>1, <2>2
<1>3. ASSUME NEW a, req[o] # NoRequest, Finish(o, a), a.to = req[o] PROVE FALSE
  <2>1. answer'[o] = a
    BY <1>0, <1>3 DEF Finish
  <2> QED
    BY <1>1, <1>3, <2>1, Zenon
<1>4. ASSUME HandlerStep(o) PROVE FALSE
  <2>1. req[o] # NoRequest
    BY <1>0, <1>4 DEF HandlerStep, Dial, DialRefused, WriteCommand, Read, Return, Fail
  <2>2. UNCHANGED req \/ \E a : Finish(o, a) /\ a.to = req[o]
    <3>1. ErrorAnswer(req[o]).to = req[o]
      BY DEF ErrorAnswer
    <3>2. ASSUME NEW v, Proceed(o, v)
          PROVE  UNCHANGED req \/ \E a : Finish(o, a) /\ a.to = req[o]
      <4> DEFINE a(c) == [to |-> req[o], code |-> c, status |-> v]
      <4>1. \A c : a(c).to = req[o]
        OBVIOUS
      <4>2. Finish(o, a("ok")) \/ Finish(o, a("conflict")) \/ UNCHANGED req
        BY <3>2 DEF Proceed
      <4> HIDE DEF a
      <4> QED
        BY <4>1, <4>2
    <3> QED
      BY <1>4, <3>1, <3>2 DEF HandlerStep, Dial, DialRefused, WriteCommand, Read, Return, Fail
  <2> QED
    BY <1>1, <1>3, <2>1, <2>2, Zenon
<1>5. Untouched(o)
  <2>1. ASSUME NEW r \in Requesters, r # o, (\E q \in Offered[r] : Receive(r, q)) \/ HandlerStep(r)
        PROVE  req'[o] = req[o] /\ answer'[o] = answer[o]
    <3>1. \/ UNCHANGED <<req, answer>>
          \/ \E q, a : req' = [req EXCEPT ![r] = q] /\ answer' = [answer EXCEPT ![r] = a]
          \/ \E a : UNCHANGED req /\ answer' = [answer EXCEPT ![r] = a]
      BY <2>1, Zenon DEF HandlerStep, Dial, DialRefused, WriteCommand, Read, Return, Fail,
                  Receive, Proceed, Finish
    <3> QED
      BY <1>0, <2>1, <3>1, Zenon
  <2>2. UNCHANGED <<req[o], answer[o]>>
    <3>1. (\E r \in Requesters : Accept(r)) \/ Execute \/ Hangup \/ GuestEvent \/ Exit \/ UNCHANGED vars
            => UNCHANGED <<req, answer>>
      BY Zenon DEF Accept, Execute, Hangup, GuestEvent, Exit, vars
    <3> QED
      BY <1>2, <1>4, <2>1, <3>1 DEF Next
  <2> QED
    BY <1>1, <2>2 DEF Untouched
<1> QED
  BY <1>2, <1>4, <1>5

\* The plan of a request that reads the status first, call by call.
LEMMA TwoCalls ==
  /\ Head(<<"PowerStatus", "PowerOn">>) = "PowerStatus"
  /\ Tail(<<"PowerStatus", "PowerOn">>) = <<"PowerOn">>
  /\ Head(<<"PowerOn">>) = "PowerOn" /\ Tail(<<"PowerOn">>) = <<>>
  /\ <<"PowerOn">> # <<>> /\ <<"PowerStatus", "PowerOn">> # <<>>
  /\ <<"PowerOn">> # <<"PowerStatus", "PowerOn">>
PROOF
  OBVIOUS

\* A step that leaves the request alone, and does not start the VM.
LEMMA AloneFrame ==
  ASSUME NEW r \in Requesters, AloneOf(r),
         UNCHANGED <<req[r], todo[r], conn[r], lines[r], step[r], answer[r], done[r]>>,
         run' = run \/ run' = "exited",
         session' = session \/ session'.cmds = <<>>
  PROVE  AloneOf(r)'
PROOF
<1>1. <<>> # <<"system_reset">>
  OBVIOUS
<1>2. BeforeReset(r)' => BeforeReset(r)
  BY <1>1, Zenon DEF BeforeReset
<1>3. HeldOff(r) => HeldOff(r)'
  BY <1>2, Zenon DEF HeldOff, AtStatus
<1> QED
  BY <1>3, Zenon DEF AloneOf

\* A request that ends leaves what it has done.
LEMMA AloneFinish ==
  ASSUME NEW r \in Requesters, AloneOf(r), req'[r] = NoRequest, answer'[r].to = req[r],
         done'[r] = done[r]
  PROVE  AloneOf(r)'
PROOF
  BY Zenon DEF AloneOf, CheckedOn

\* Commands and lines of the goroutine that has the VM to itself.
LEMMA AloneWrite ==
  ASSUME TypeInv, ServedInv, QuietInv, NEW r \in Requesters, AloneOf(r), WriteCommand(r)
  PROVE  AloneOf(r)'
PROOF
<1> DEFINE call == Head(todo[r])
           cmd  == Instruction(r)
           n    == step[r]
<1>1. /\ Calling(r) /\ conn[r] = "served" /\ Serving /\ cmd \in Commands
      /\ session' = [session EXCEPT !.cmds = Append(session.cmds, cmd)]
      /\ step' = [step EXCEPT ![r] = n + 1]
      /\ UNCHANGED <<run, conn, lines, req, todo, answer, done>>
  BY DEF WriteCommand
<1>2. /\ call \in Calls /\ n \in 1..9
      /\ Position(call, n, lines[r], session.cmds, done[r])
  BY <1>1, PlaceFacts
<1>3. cmd = Script[call][n]
  BY Zenon DEF Instruction
<1>4. lines[r] = <<>> /\ session.cmds = <<>> /\ n <= DecisiveStep(call)
  <2> HIDE DEF call, n, cmd
  <2>1. Script[call][n] \in Commands
    BY <1>1, <1>3
  <2>2. /\ lines[r] = <<>> /\ session.cmds = <<>> /\ n <= DecisiveStep(call)
        /\ Position(call, n + 1, <<>>, <<Script[call][n]>>, done[r])
    BY <1>2, <2>1, PositionWrite, Zenon
  <2> QED
    BY <2>2, Zenon
<1>5. session'.cmds = <<cmd>> /\ step'[r] = n + 1
  <2>1. session \in Sessions /\ step \in [Requesters -> 1..9]
    BY DEF TypeInv, TypeOK
  <2> QED
    BY <1>1, <1>4, <2>1, Short DEF Sessions
<1>6. ASSUME todo[r] = <<"PowerOn">>, BeforeReset(r)' PROVE n <= 4
  <2>1. call = "PowerOn"
    BY <1>6, TwoCalls
  <2>2. n + 1 <= 4 => n <= 4
    BY <1>2
  <2>3. cmd = "system_reset" => n # 7 /\ n # 5 /\ n # 6
    <3> HIDE DEF call, n, cmd
    <3>1. /\ Script["PowerOn"][5] = "read" /\ Script["PowerOn"][6] = "read"
          /\ Script["PowerOn"][7] = "cont"
      BY ScriptTable DEF Calls
    <3> QED
      BY <1>3, <2>1, <3>1
  <2>4. n <= 7
    BY <1>4, <2>1 DEF DecisiveStep
  <2>5. cmd = "system_reset" => n <= 4
    BY <1>2, <2>3, <2>4
  <2> HIDE DEF cmd, n, call
  <2>6. <<cmd>> = <<"system_reset">> => cmd = "system_reset"
    BY Short
  <2> QED
    BY <1>5, <1>6, <2>2, <2>5, <2>6 DEF BeforeReset
<1>7. HeldOff(r) => HeldOff(r)'
  <2>1. <<>> # <<"notRunning">>
    OBVIOUS
  <2> QED
    BY <1>1, <1>4, <1>6, <2>1 DEF HeldOff, BeforeReset
<1> QED
  BY <1>1, <1>7 DEF AloneOf

\* A line is read by the goroutine that has the VM to itself.
LEMMA AloneRead ==
  ASSUME TypeInv, ServedInv, QuietInv, NEW r \in Requesters, AloneOf(r), Read(r)
  PROVE  AloneOf(r)'
PROOF
<1> DEFINE call == Head(todo[r])
           n    == step[r]
<1>1. /\ Calling(r) /\ lines[r] # <<>> /\ n # Len(Script[call]) /\ Script[call][n] = "read"
      /\ lines' = [lines EXCEPT ![r] = Tail(lines[r])]
      /\ step' = [step EXCEPT ![r] = n + 1]
      /\ UNCHANGED <<run, session, conn, req, todo, answer, done>>
  BY Zenon DEF Read, LastStep, Instruction
<1>2. /\ call \in Calls /\ n \in 1..9 /\ conn[r] = "served"
      /\ Position(call, n, lines[r], session.cmds, done[r])
  BY <1>1, PlaceFacts, Zenon
<1>3. session.cmds = <<>> /\ Position(call, n + 1, Tail(lines[r]), session.cmds, done[r])
  BY <1>1, <1>2, PositionRead, Zenon
<1>4. step'[r] = n + 1 /\ lines'[r] = Tail(lines[r])
  BY <1>1, Zenon DEF TypeInv, TypeOK
<1>5. ~(AtStatus(r) /\ Tail(lines[r]) = <<"notRunning">>)
  <2> SUFFICES ASSUME call = "PowerStatus", Tail(lines[r]) = <<"notRunning">> PROVE FALSE
    BY DEF AtStatus
  <2>1. /\ <<"notRunning">> # <<>> /\ <<"notRunning">> # <<"greeting">>
        /\ <<"notRunning">> # <<"return">> /\ <<"notRunning">> # <<"running">>
    OBVIOUS
  <2>2. n + 1 = 5
    BY <1>3, <2>1, Zenon DEF Position, Opening, Asking
  <2>3. n = 4
    BY <1>2, <2>2
  <2> QED
    BY <1>1, <2>3, ScriptTable, Zenon
<1>6. BeforeReset(r)' => BeforeReset(r)
  <2>1. n + 1 <= 4 => n <= 4
    BY <1>2
  <2> HIDE DEF n
  <2> QED
    BY <1>1, <1>4, <2>1, Zenon DEF BeforeReset, n
<1>7. HeldOff(r) => HeldOff(r)'
  BY <1>1, <1>4, <1>5, <1>6, Zenon DEF HeldOff, AtStatus
<1> QED
  BY <1>1, <1>7, Zenon DEF AloneOf

\* PowerStatus says "not running", and the handler goes on to PowerOn.
LEMMA AloneReturn ==
  ASSUME TypeInv, ServedInv, QuietInv, NEW r \in Requesters, AloneOf(r), Return(r)
  PROVE  AloneOf(r)'
PROOF
<1> DEFINE value == IF Head(todo[r]) = "PowerStatus" THEN ParseStatus(Head(lines[r])) ELSE "nil"
<1>1. Calling(r) /\ Close(r) /\ UNCHANGED <<run, session, done>> /\ Proceed(r, value)
  BY Zenon DEF Return
<1>2. /\ req \in [Requesters -> Request \cup {NoRequest}]
      /\ todo \in [Requesters -> Seq(Calls)]
      /\ answer \in [Requesters -> Answers]
      /\ conn \in [Requesters -> {"none", "dialed", "served"}]
      /\ lines \in [Requesters -> Seq(Lines)]
  BY DEF TypeInv, TypeOK
<1>3. /\ req[r] # NoRequest /\ answer[r] = NoAnswer /\ todo[r] # <<>> /\ NoAnswer.to = NoRequest
  BY <1>1, Zenon DEF TypeInv, CallInv, NoAnswer
<1>4. ASSUME NEW c, Finish(r, [to |-> req[r], code |-> c, status |-> value])
      PROVE  AloneOf(r)'
  <2> HIDE DEF value
  <2>1. req'[r] = NoRequest /\ answer'[r].to = req[r] /\ done'[r] = done[r]
    BY <1>1, <1>2, <1>4, Zenon DEF Finish
  <2> QED
    BY <2>1, AloneFinish, Zenon
<1>5. ASSUME Tail(todo[r]) # <<>>,
             Head(todo[r]) = "PowerStatus" => ~Refuses(value, Head(Tail(todo[r]))),
             todo' = [todo EXCEPT ![r] = Tail(todo[r])],
             UNCHANGED <<req, answer>>
      PROVE  AloneOf(r)'
  <2>1. /\ todo'[r] = Tail(todo[r]) /\ conn'[r] = "none" /\ lines'[r] = <<>>
    BY <1>1, <1>2, <1>5 DEF Close
  <2>2. ASSUME HeldOff(r) PROVE HeldOff(r)'
    <3>1. todo[r] = <<"PowerStatus", "PowerOn">>
      BY <1>5, <2>2, TwoCalls, Zenon DEF HeldOff
    <3>2. value # "On"
      BY <1>5, <3>1, TwoCalls DEF Refuses
    <3>3. lines[r] = <<"notRunning">> /\ session.cmds = <<>>
      <4>1. Head(<<"running">>) = "running"
        OBVIOUS
      <4> QED
        BY <3>1, <3>2, <4>1, TwoCalls, ReturnFacts, Zenon DEF ParseStatus
    <3>4. run # "running"
      BY <2>2, <3>1, <3>3, TwoCalls DEF HeldOff, AtStatus
    <3>5. todo'[r] = <<"PowerOn">>
      BY <2>1, <3>1, TwoCalls, Zenon
    <3> QED
      BY <1>1, <3>3, <3>4, <3>5, TwoCalls, Zenon DEF HeldOff, AtStatus
  <2> QED
    BY <1>1, <1>5, <2>2, Zenon DEF AloneOf
<1> HIDE DEF value
<1>6. PICK v : v = value /\ Proceed(r, v)
  BY <1>1
<1> QED
  BY <1>4, <1>5, <1>6, Zenon DEF Proceed

\* A command runs while r has the VM to itself: it is one that r wrote.
LEMMA AloneExecute ==
  ASSUME TypeInv, ServedInv, QuietInv, NEW r \in Requesters, AloneOf(r), Execute
  PROVE  AloneOf(r)'
PROOF
<1>1. PICK cmd \in Commands :
        /\ session.cmds = <<cmd>> /\ session'.cmds = <<>>
        /\ session # NoSession
        /\ run \in {"running", "stopped"} /\ run' = RunAfter(cmd)
        /\ UNCHANGED <<conn, req, todo, step, answer>>
        /\ IF conn[r] = "served"
             THEN /\ lines'[r] = lines[r] \o Response(cmd)
                  /\ done'[r] = done[r] \cup {<<cmd, run>>}
             ELSE UNCHANGED <<lines[r], done[r]>>
  BY ExecuteFacts, Zenon
<1>2. <<cmd>> # <<>> /\ <<>> # <<"system_reset">> /\ <<>> # <<"notRunning">>
  OBVIOUS
<1>3. CASE conn[r] # "served"
  <2>1. step[r] <= 4 /\ lines'[r] = <<>> /\ done'[r] = done[r]
    <3>1. step[r] = 1
      BY <1>3, Zenon DEF QuietInv, QuietOf, PlaceOf
    <3>2. lines[r] = <<>>
      BY <1>3, Zenon DEF TypeInv, CallInv
    <3>3. lines'[r] = lines[r] /\ done'[r] = done[r]
      BY <1>1, <1>3, Zenon
    <3> QED
      BY <3>1, <3>2, <3>3
  <2>2. HeldOff(r) => todo[r] # <<"PowerOn">>
    BY <1>1, <1>2, <1>3, <2>1, Zenon DEF HeldOff, BeforeReset
  <2>3. HeldOff(r) => HeldOff(r)'
    BY <1>1, <1>2, <2>1, <2>2, Zenon DEF HeldOff
  <2> QED
    BY <1>1, <2>1, <2>3, Zenon DEF AloneOf
<1>4. CASE conn[r] = "served"
  <2> DEFINE call == Head(todo[r])
             n    == step[r]
  <2>1. Calling(r) /\ Serving
    BY <1>1, <1>4, Zenon DEF Calling, Serving
  <2>2. /\ call \in Calls /\ n \in 1..9
        /\ Position(call, n, lines[r], <<cmd>>, done[r])
    BY <1>1, <1>4, <2>1, PlaceFacts, Zenon
  <2>3. req[r] # NoRequest /\ answer[r] = NoAnswer /\ NoAnswer.to = NoRequest
    BY <2>1, Zenon DEF TypeInv, CallInv, NoAnswer
  <2>4. /\ lines[r] = <<>>
        /\ cmd = "system_reset" => call = "PowerOn"
        /\ n <= DecisiveStep(call) => cmd # Decisive(call)
    <3> HIDE DEF call, n
    <3>1. /\ lines[r] = <<>>
          /\ cmd \in {"qmp_capabilities", "system_reset", Decisive(call)}
          /\ cmd = "system_reset" => call = "PowerOn" /\ n = 5
          /\ n <= DecisiveStep(call) => cmd # Decisive(call)
          /\ Position(call, n, Response(cmd), <<>>, done[r] \cup {<<cmd, run>>})
      BY <1>1, <2>2, PositionRun, Zenon
    <3> QED
      BY <3>1
  <2>5. lines'[r] = Response(cmd)
    BY <1>1, <1>4, <2>4, ResponseType
  \* A "not running" response is the one to a query of a VM that does not run.
  <2>6. Response(cmd) = <<"notRunning">> => run' # "running"
    <3>1. /\ <<"notRunning">> # <<"return", "event">> /\ <<"notRunning">> # <<"return">>
          /\ <<"notRunning">> # <<"running">>
      OBVIOUS
    <3> QED
      BY <1>1, <3>1 DEF Response, RunAfter
  <2>7. HeldOff(r) => HeldOff(r)'
    <3>1. ASSUME HeldOff(r), todo[r] = <<"PowerOn">>, BeforeReset(r)'
          PROVE  run' # "running"
      <4>1. call = "PowerOn" /\ n <= 4
        BY <1>1, <1>2, <3>1, TwoCalls, Zenon DEF BeforeReset
      <4>2. cmd # "cont"
        <5>1. DecisiveStep("PowerOn") = 7 /\ Decisive("PowerOn") = "cont"
          BY DEF DecisiveStep, Decisive
        <5>2. n <= 7
          BY <2>2, <4>1
        <5> QED
          BY <2>4, <4>1, <5>1, <5>2
      <4>3. run # "running"
        BY <3>1, <4>1, Zenon DEF HeldOff, BeforeReset
      <4> QED
        BY <1>1, <4>2, <4>3, Zenon DEF RunAfter
    <3> QED
      BY <1>1, <1>4, <2>5, <2>6, <3>1, Zenon DEF HeldOff, AtStatus
  <2>8. ASSUME HeldOff(r), cmd = "system_reset" PROVE run # "running"
    <3>1. todo[r] = <<"PowerOn">>
      BY <2>4, <2>8, TwoCalls DEF HeldOff
    <3> QED
      BY <1>1, <1>4, <2>8, <3>1, Zenon DEF HeldOff, BeforeReset
  <2>9. CheckedOn(req[r]) => <<"system_reset", "running">> \notin done'[r]
    BY <1>1, <1>4, <2>8 DEF AloneOf
  <2> QED
    BY <1>1, <2>3, <2>7, <2>9, Zenon DEF AloneOf, CheckedOn
<1> QED
  BY <1>3, <1>4

\* Every step keeps AloneInv.
LEMMA AloneNext ==
  ASSUME MaxLines = 0, TypeInv, ServedInv, QuietInv, AloneInv, [Next]_vars
  PROVE  AloneInv'
PROOF
<1>0. /\ conn \in [Requesters -> {"none", "dialed", "served"}]
      /\ req \in [Requesters -> Request \cup {NoRequest}]
      /\ todo \in [Requesters -> Seq(Calls)]
      /\ lines \in [Requesters -> Seq(Lines)]
      /\ step \in [Requesters -> 1..9]
      /\ answer \in [Requesters -> Answers]
      /\ done \in [Requesters -> SUBSET (Commands \X RunStates)]
      /\ "none" \notin Requesters
  BY PowerAssumption DEF TypeInv, TypeOK
<1>1. ASSUME NEW o \in Requesters, Untouched(o)'
      PROVE  session'.client # o /\ conn'[o] = "none"
  <2>1. session.client # o /\ conn[o] = "none" /\ ~HandlerStep(o)
    BY <1>1, TouchedStays, Zenon DEF AloneInv
  <2>2. \A r \in Requesters : Accept(r) => r # o
    BY <2>1 DEF Accept
  <2>3. conn'[o] = conn[o]
    <3>1. ASSUME NEW r \in Requesters, r # o, HandlerStep(r) \/ Accept(r)
          PROVE  conn'[o] = conn[o]
      <4>1. UNCHANGED conn \/ \E v : conn' = [conn EXCEPT ![r] = v]
        BY <3>1, Zenon DEF HandlerStep, Dial, DialRefused, WriteCommand, Read, Return, Fail,
                           Accept, Close
      <4> QED
        BY <1>0, <3>1, <4>1
    <3>2. ASSUME \/ \E r \in Requesters : \E q \in Offered[r] : Receive(r, q)
                 \/ Execute \/ Hangup \/ GuestEvent \/ Exit \/ UNCHANGED vars
          PROVE  UNCHANGED conn
      BY <3>2, Zenon DEF Receive, Execute, Hangup, GuestEvent, Exit, vars
    <3> QED
      BY <2>1, <2>2, <3>1, <3>2, Zenon DEF Next
  <2>4. session'.client # o
    <3>1. ASSUME NEW r \in Requesters, Accept(r) PROVE session'.client = r
      BY <3>1, Zenon DEF Accept
    <3>2. ASSUME Hangup \/ Exit PROVE session'.client = "none"
      BY <3>2, NoCommands, Zenon DEF Hangup, Exit
    <3>3. ASSUME NEW r \in Requesters, WriteCommand(r) PROVE session'.client = session.client
      BY <3>3 DEF WriteCommand, TypeInv, TypeOK, Sessions
    <3>4. ASSUME Execute PROVE session'.client = session.client
      BY <3>4, ExecuteFacts, Zenon
    <3>5. ASSUME \/ \E r \in Requesters : \/ \E q \in Offered[r] : Receive(r, q)
                                          \/ Dial(r) \/ DialRefused(r) \/ Read(r) \/ Return(r) \/ Fail(r)
                 \/ GuestEvent \/ UNCHANGED vars
          PROVE  UNCHANGED session
      BY <3>5, Zenon DEF Receive, Dial, DialRefused, Read, Return, Fail, GuestEvent, vars
    <3> QED
      BY <1>0, <2>1, <2>2, <3>1, <3>2, <3>3, <3>4, <3>5, Zenon DEF Next, HandlerStep
  <2> QED
    BY <2>1, <2>3, <2>4, Zenon
<1>2. ASSUME NEW r \in Requesters, Alone(r)' PROVE AloneOf(r)'
  <2>1. ASSUME NEW o \in Requesters, o # r
        PROVE  /\ Untouched(o) /\ ~HandlerStep(o) /\ conn[o] = "none"
               /\ \A q \in Offered[o] : ~Receive(o, q)
    BY <1>2, <2>1, TouchedStays, Zenon DEF Alone, AloneInv
  <2>2. AloneOf(r)
    BY <2>1, Zenon DEF Alone, AloneInv
  <2>3. ASSUME NEW q \in Offered[r], Receive(r, q) PROVE AloneOf(r)'
    <3>1. conn[r] # "served" /\ lines[r] = <<>> /\ q # NoRequest
      BY <2>3, PlanFacts, PowerAssumption, Zenon DEF Receive, TypeInv, CallInv, Calling
    <3>2. done'[r] = {} /\ lines'[r] = <<>>
      BY <1>0, <2>3, <3>1, Zenon DEF Receive
    <3>3. CheckedOn(req'[r]) => todo'[r] = Plan(req'[r])
      <4>1. CASE Plan(q) = <<>>
        BY <2>3, <4>1, Zenon DEF Receive, CheckedOn
      <4>2. CASE Plan(q) # <<>>
        BY <1>0, <2>3, <4>2, Zenon DEF Receive
      <4> QED
        BY <4>1, <4>2, Zenon
    <3>4. <<>> # <<"notRunning">>
      OBVIOUS
    <3> QED
      BY <3>2, <3>3, <3>4, TwoCalls, Zenon DEF AloneOf, HeldOff, CheckedOn
  <2>4. CASE Dial(r)
    <3>1. /\ step[r] = 1 /\ conn[r] = "none" /\ conn'[r] = "dialed" /\ lines[r] = <<>>
          /\ UNCHANGED <<run, session, lines, req, todo, step, answer, done>>
      BY <1>0, <2>4, Zenon DEF Dial, Calling, TypeInv, CallInv
    <3>2. <<>> # <<"notRunning">> /\ 1 <= 4
      OBVIOUS
    <3>3. HeldOff(r) => HeldOff(r)'
      BY <3>1, <3>2, Zenon DEF HeldOff, BeforeReset
    <3> QED
      BY <2>2, <3>1, <3>3, Zenon DEF AloneOf
  <2>5. CASE DialRefused(r) \/ Fail(r)
    <3>1. req'[r] = NoRequest /\ answer'[r].to = req[r] /\ done'[r] = done[r]
      <4>1. done' = done /\ Finish(r, ErrorAnswer(req[r]))
        BY <2>5, Zenon DEF DialRefused, Fail, Close
      <4>2. ErrorAnswer(req[r]).to = req[r]
        BY DEF ErrorAnswer
      <4>3. answer'[r] = ErrorAnswer(req[r]) /\ req'[r] = NoRequest
        BY <1>0, <4>1, Zenon DEF Finish
      <4> QED
        BY <4>1, <4>2, <4>3, Zenon
    <3> QED
      BY <2>2, <3>1, AloneFinish, Zenon
  <2>6. CASE Accept(r)
    <3>1. /\ step[r] = 1 /\ conn[r] # "served" /\ conn'[r] = "served" /\ lines'[r] = <<"greeting">>
          /\ UNCHANGED <<run, req, todo, step, answer, done>>
      BY <1>0, <2>6, Zenon DEF Accept, QuietInv, QuietOf, PlaceOf
    <3>2. <<"greeting">> # <<"notRunning">> /\ 1 <= 4
      OBVIOUS
    <3>3. HeldOff(r) => HeldOff(r)'
      BY <3>1, <3>2, Zenon DEF HeldOff, BeforeReset
    <3> QED
      BY <2>2, <3>1, <3>3, Zenon DEF AloneOf
  <2>7. CASE Hangup \/ Exit \/ UNCHANGED vars
    <3>1. /\ UNCHANGED <<conn, lines, req, todo, step, answer, done>>
          /\ run' = run \/ run' = "exited"
          /\ session' = session \/ session'.cmds = <<>>
      BY <2>7, NoCommands, Zenon DEF Hangup, Exit, vars
    <3> QED
      BY <2>2, <3>1, AloneFrame, Zenon
  <2>8. \A o \in Requesters : Accept(o) => o = r
    BY <2>1, Zenon DEF Accept
  <2> QED
    BY <2>1, <2>2, <2>3, <2>4, <2>5, <2>6, <2>7, <2>8,
       AloneWrite, AloneRead, AloneReturn, AloneExecute, NoGuestEvent, Zenon
    DEF Next, HandlerStep
<1> QED
  BY <1>1, <1>2, Zenon DEF AloneInv

\* While the guest is quiet, a power-on that reads the status first resets no
\* running guest, for a front end that has had the VM to itself: from the
\* status to the reset nothing but its own calls could have started the VM.
THEOREM PowerUpIsSafe ==
  ASSUME MaxLines = 0
  PROVE  Spec => []PowerUpResetsNoRunningGuest
PROOF
<1>1. Init => AloneInv
  <2> SUFFICES ASSUME Init PROVE AloneInv
    OBVIOUS
  <2>1. ASSUME NEW r \in Requesters
        PROVE  /\ session.client # r /\ conn[r] = "none"
               /\ req[r] = NoRequest /\ answer[r].to = NoRequest
    BY NoCommands, PowerAssumption, Zenon DEF Init, NoAnswer
  <2> QED
    BY <2>1, Zenon DEF AloneInv, AloneOf, CheckedOn
<1>2. TypeInv /\ ServedInv /\ QuietInv /\ AloneInv /\ [Next]_vars => AloneInv'
  BY AloneNext
<1>3. AloneInv => PowerUpResetsNoRunningGuest
  BY Zenon DEF AloneInv, Alone, AloneOf, CheckedOn, PowerUpResetsNoRunningGuest
<1> QED
  BY <1>1, <1>2, <1>3, QuietInvariant, PTL DEF Spec

-----------------------------------------------------------------------------
(* PowerControl implements PowerSwitch.                                    *)

\* What PendingBar says of one goroutine.
At(r) == IF Calling(r) THEN [call |-> Head(todo[r]), met |-> Met(r)]
                       ELSE [call |-> "none", met |-> "none"]

\* The calls of the abstract switch, now and after a step.
LEMMA BarIs ==
  /\ PendingBar = [r \in Requesters |-> At(r)]
  /\ PendingBar' = [r \in Requesters |-> At(r)']
PROOF
  BY Zenon DEF PendingBar, At

\* Met as an operator of the two values it depends on.
TheOne(met) == IF met = {} THEN "none" ELSE CHOOSE s \in met : TRUE

MetOf(plan, cmds) == TheOne({s \in RunStates : <<Decisive(Head(plan)), s>> \in cmds})

\* The state a call met depends on its plan and on what it has done.
LEMMA MetOnly ==
  ASSUME NEW r \in Requesters
  PROVE  Met(r) = MetOf(todo[r], done[r]) /\ Met(r)' = MetOf(todo'[r], done'[r])
PROOF
  BY DEF Met, MetOf, TheOne

\* A step that leaves a call alone leaves its image.
LEMMA AtFrame ==
  ASSUME NEW r \in Requesters, Calling(r)' <=> Calling(r),
         Calling(r) => todo'[r] = todo[r] /\ done'[r] = done[r]
  PROVE  At(r)' = At(r)
PROOF
<1>1. CASE Calling(r)
  <2>1. Met(r)' = Met(r)
    BY <1>1, MetOnly, Zenon
  <2> QED
    BY <1>1, <2>1, Zenon DEF At
<1>2. CASE ~Calling(r)
  BY <1>2, Zenon DEF At
<1> QED
  BY <1>1, <1>2, Zenon

\* A step that leaves every image leaves the calls of the switch.
LEMMA BarSame ==
  ASSUME \A r \in Requesters : At(r)' = At(r)
  PROVE  PendingBar' = PendingBar
PROOF
  BY BarIs

\* A step that changes one image changes one call of the switch.
LEMMA BarChanges ==
  ASSUME NEW r \in Requesters, NEW x, At(r)' = x,
         \A o \in Requesters \ {r} : At(o)' = At(o)
  PROVE  PendingBar' = [PendingBar EXCEPT ![r] = x]
PROOF
<1> DEFINE b == [o \in Requesters |-> At(o)]
           a == [o \in Requesters |-> At(o)']
<1>1. a = [b EXCEPT ![r] = x]
  BY Zenon
<1> QED
  BY <1>1, BarIs

\* What the decisive command met.
LEMMA MetNone ==
  ASSUME NEW r \in Requesters, ~Ran(Decisive(Head(todo[r])), done[r])
  PROVE  Met(r) = "none"
PROOF
<1>1. {s \in RunStates : <<Decisive(Head(todo[r])), s>> \in done[r]} = {}
  BY Zenon DEF Ran
<1> QED
  BY <1>1, Zenon DEF Met

\* A call whose decisive command has run met the state it ran in.
LEMMA MetIs ==
  ASSUME NEW r \in Requesters, Head(todo[r]) \in Calls, OnceOf(r), NEW s \in RunStates,
         <<Decisive(Head(todo[r])), s>> \in done[r]
  PROVE  Met(r) = s
PROOF
<1>1. {t \in RunStates : <<Decisive(Head(todo[r])), t>> \in done[r]} = {s}
  BY DEF OnceOf
<1>2. (CHOOSE t \in {s} : TRUE) = s
  OBVIOUS
<1> QED
  BY <1>1, <1>2, Zenon DEF Met

\* The call that waits in QEMU without a client.
LEMMA StrayNone ==
  ASSUME ~Serving \/ Alive \/ session.cmds = <<>>
         \/ \E cmd : session.cmds = <<cmd>> /\ \A c \in Calls : cmd # Decisive(c)
  PROVE  StrayBar = "none"
PROOF
<1>1. CASE ~Serving \/ Alive
  BY <1>1 DEF StrayBar
<1>2. CASE \A i \in DOMAIN session.cmds : \A c \in Calls : session.cmds[i] # Decisive(c)
  <2>1. {c \in Calls : \E i \in DOMAIN session.cmds : session.cmds[i] = Decisive(c)} = {}
    BY <1>2
  <2> QED
    BY <2>1 DEF StrayBar
<1>3. session.cmds = <<>> => \A i \in DOMAIN session.cmds : \A c \in Calls : session.cmds[i] # Decisive(c)
  OBVIOUS
<1>4. ASSUME NEW cmd, session.cmds = <<cmd>>, \A c \in Calls : cmd # Decisive(c)
      PROVE  \A i \in DOMAIN session.cmds : \A c \in Calls : session.cmds[i] # Decisive(c)
  <2>1. \A i \in DOMAIN <<cmd>> : <<cmd>>[i] = cmd
    OBVIOUS
  <2> QED
    BY <1>4, <2>1
<1> QED
  BY <1>1, <1>2, <1>3, <1>4

\* A decisive command that outlived its call is the stray act of the switch.
LEMMA StrayIs ==
  ASSUME Serving, ~Alive, NEW call \in Calls, session.cmds = <<Decisive(call)>>
  PROVE  StrayBar = call
PROOF
<1>1. \A c \in Calls : Decisive(c) = Decisive(call) => c = call
  BY DEF Calls, Decisive
<1>2. DOMAIN session.cmds = {1} /\ session.cmds[1] = Decisive(call)
  OBVIOUS
<1>3. {c \in Calls : \E i \in DOMAIN session.cmds : session.cmds[i] = Decisive(c)} = {call}
  BY <1>1, <1>2, Zenon
<1>4. (CHOOSE c \in {call} : TRUE) = call
  OBVIOUS
<1> QED
  BY <1>3, <1>4 DEF StrayBar

\* A call starts with its command still to run.
LEMMA MetAtFirst ==
  ASSUME QuietInv, NEW r \in Requesters, todo[r] # <<>>, Pending(r)
  PROVE  Head(todo[r]) \in Calls /\ Met(r) = "none"
PROOF
<1>1. QuietOf(r) /\ todo[r] \in Plans
  BY DEF QuietInv, QuietOf
<1>2. Head(todo[r]) \in Calls /\ Among(Head(todo[r]), todo[r])
  BY <1>1, RestOfPlan, Zenon
<1>3. ~Ran(Decisive(Head(todo[r])), done[r])
  BY <1>1, <1>2, Zenon DEF QuietOf, FreshOf
<1> QED
  BY <1>2, <1>3, MetNone, Zenon

\* StrayBar as an operator of the commands.
StrayOf(cmds) ==
  LET waiting == {c \in Calls : \E i \in DOMAIN cmds : cmds[i] = Decisive(c)}
  IN  IF waiting # {} THEN CHOOSE c \in waiting : TRUE ELSE "none"

\* The stray act depends on the commands of a connection without a client.
LEMMA StrayOnly ==
  /\ Serving /\ ~Alive => StrayBar = StrayOf(session.cmds)
  /\ (Serving /\ ~Alive)' => StrayBar' = StrayOf(session'.cmds)
  /\ ~(Serving /\ ~Alive) => StrayBar = "none"
  /\ ~(Serving /\ ~Alive)' => StrayBar' = "none"
PROOF
  BY DEF StrayBar, StrayOf

\* A step that leaves the commands and the client leaves the stray act.
LEMMA StraySame ==
  ASSUME UNCHANGED session, Alive' <=> Alive
  PROVE  StrayBar' = StrayBar
PROOF
<1>1. Serving' <=> Serving
  BY DEF Serving
<1> QED
  BY <1>1, StrayOnly

\* A step of a call that PowerSwitch does not see.
LEMMA SwitchStutters ==
  ASSUME UNCHANGED <<run, result>>, \A r \in Requesters : At(r)' = At(r), StrayBar' = StrayBar
  PROVE  UNCHANGED Switch!vars
PROOF
  BY BarSame DEF Switch!vars

\* A dial that is accepted begins a call.
LEMMA SwitchBegin ==
  ASSUME TypeInv, QuietInv, NEW r \in Requesters, Dial(r)
  PROVE  Switch!Begin(r, Head(todo[r])) /\ Head(todo[r]) \in Switch!Calls
PROOF
<1>1. /\ conn \in [Requesters -> {"none", "dialed", "served"}]
      /\ conn[r] = "none" /\ ~Calling(r) /\ todo[r] # <<>> /\ step[r] = 1
      /\ conn' = [conn EXCEPT ![r] = "dialed"]
      /\ result' = [result EXCEPT ![r] = "none"]
      /\ run # "exited"
      /\ UNCHANGED <<run, session, todo, done>>
  BY Zenon DEF Dial, Calling, TypeInv, TypeOK, CallInv
<1>2. Head(todo[r]) \in Calls /\ Met(r) = "none"
  <2>1. Pending(r)
    BY <1>1 DEF Pending, DecisiveStep
  <2> QED
    BY <1>1, <2>1, MetAtFirst, Zenon
<1>3. Calling(r)' /\ Met(r)' = "none"
  BY <1>1, <1>2, MetOnly, Zenon DEF Calling
<1>4. At(r)' = [call |-> Head(todo[r]), met |-> "none"]
  BY <1>1, <1>3, Zenon DEF At
<1>5. \A o \in Requesters \ {r} : At(o)' = At(o)
  BY <1>1, AtFrame, Zenon DEF Calling
<1>6. StrayBar' = StrayBar
  <2>1. Alive' <=> Alive
    BY <1>1, Zenon DEF Alive, Serving, TypeInv, CallInv
  <2> QED
    BY <1>1, <2>1, StraySame
<1>7. PendingBar' = [PendingBar EXCEPT ![r] = [call |-> Head(todo[r]), met |-> "none"]]
  BY <1>4, <1>5, BarChanges
<1>8. PendingBar[r] = Switch!Idle
  BY <1>1, BarIs, Zenon DEF At, Switch!Idle
<1>9. Head(todo[r]) \in Switch!Calls
  BY <1>2 DEF Calls, Switch!Calls
<1> QED
  BY <1>1, <1>6, <1>7, <1>8, <1>9, Zenon DEF Switch!Begin

\* A dial that is refused is a call on a VM that has exited.
LEMMA SwitchRefuse ==
  ASSUME TypeInv, NEW r \in Requesters, DialRefused(r)
  PROVE  Switch!Refuse(r)
PROOF
<1>1. /\ ~Calling(r) /\ run = "exited"
      /\ todo' = [todo EXCEPT ![r] = <<>>]
      /\ result' = [result EXCEPT ![r] = "error"]
      /\ todo \in [Requesters -> Seq(Calls)]
      /\ UNCHANGED <<run, session, conn, done>>
  BY Zenon DEF DialRefused, Finish, TypeInv, TypeOK
<1>2. \A o \in Requesters : At(o)' = At(o)
  BY <1>1, AtFrame, Zenon DEF Calling
<1>3. PendingBar' = PendingBar
  BY <1>2, BarSame
<1>4. StrayBar' = StrayBar
  BY <1>1, StraySame DEF Alive, Serving
<1>5. PendingBar[r] = Switch!Idle
  BY <1>1, BarIs, Zenon DEF At, Switch!Idle
<1> QED
  BY <1>1, <1>3, <1>4, <1>5 DEF Switch!Refuse

\* A call that ends frees its caller.
LEMMA CallEnds ==
  ASSUME TypeInv, NEW r \in Requesters, Close(r), UNCHANGED done,
         (\E p : todo' = [todo EXCEPT ![r] = p])
  PROVE  PendingBar' = [PendingBar EXCEPT ![r] = Switch!Idle]
PROOF
<1>1. /\ conn \in [Requesters -> {"none", "dialed", "served"}]
      /\ todo \in [Requesters -> Seq(Calls)]
      /\ conn' = [conn EXCEPT ![r] = "none"]
  BY Zenon DEF Close, TypeInv, TypeOK
<1>2. At(r)' = Switch!Idle
  BY <1>1, Zenon DEF At, Calling, Switch!Idle
<1>3. ASSUME NEW o \in Requesters \ {r} PROVE At(o)' = At(o)
  <2>1. conn'[o] = conn[o] /\ todo'[o] = todo[o] /\ done'[o] = done[o]
    BY <1>1, <1>3
  <2> QED
    BY <2>1, AtFrame, Zenon DEF Calling
<1> QED
  BY <1>2, <1>3, BarChanges

\* The last line of a script returns what the met state entitles the call to.
LEMMA SwitchReturn ==
  ASSUME TypeInv, ServedInv, QuietInv, NEW r \in Requesters, Return(r)
  PROVE  Switch!Return(r)
PROOF
<1> DEFINE call  == Head(todo[r])
           value == IF call = "PowerStatus" THEN ParseStatus(Head(lines[r])) ELSE "nil"
<1>1. /\ Calling(r) /\ Close(r) /\ UNCHANGED <<run, session, done>>
      /\ result' = [result EXCEPT ![r] = value] /\ Proceed(r, value)
  BY Zenon DEF Return
<1>2. \E p : todo' = [todo EXCEPT ![r] = p]
  <2> HIDE DEF value
  <2> QED
    BY <1>1, Zenon DEF Proceed, Finish
<1>3. PendingBar' = [PendingBar EXCEPT ![r] = Switch!Idle]
  BY <1>1, <1>2, CallEnds, Zenon
<1>4. call \in Calls /\ QuietOf(r)
  BY <1>1, PlaceFacts, Zenon DEF QuietInv
<1>5. PendingBar[r] = [call |-> call, met |-> Met(r)]
  BY <1>1, BarIs, Zenon DEF At
<1>6. Met(r) # "none" /\ Switch!Returns(call, Met(r)) = value
  <2>1. ASSUME NEW s \in RunStates, <<Decisive(call), s>> \in done[r] PROVE Met(r) = s
    BY <1>4, <2>1, MetIs, Zenon DEF QuietOf
  <2>2. CASE call = "PowerStatus"
    <3>1. Decisive(call) = "query-status"
      BY <2>2 DEF Decisive
    <3>2. Head(<<"running">>) = "running" /\ Head(<<"notRunning">>) = "notRunning"
      OBVIOUS
    <3>3. \/ Head(lines[r]) = "running" /\ Met(r) = "running"
          \/ Head(lines[r]) = "notRunning" /\ Met(r) = "stopped"
      BY <2>1, <2>2, <3>1, <3>2, ReturnFacts, Zenon DEF RunStates
    <3> QED
      BY <2>2, <3>3 DEF Switch!Returns, ParseStatus
  <2>3. CASE call # "PowerStatus"
    <3>1. Met(r) = From(call)
      BY <2>1, <2>3, ReturnFacts, Zenon DEF RunStates, From
    <3>2. call = "PowerOn" \/ call = "PowerOff"
      BY <1>4, <2>3 DEF Calls
    <3> QED
      BY <3>1, <3>2 DEF Switch!Returns, From
  <2> QED
    BY <2>2, <2>3
<1>7. StrayBar = "none" /\ StrayBar' = "none"
  <2>1. conn[r] = "served" /\ session.cmds = <<>>
    BY ReturnFacts, Zenon
  <2>2. \A c \in Calls : \A i \in DOMAIN <<>> : <<>>[i] # Decisive(c)
    OBVIOUS
  <2>3. StrayOf(<<>>) = "none"
    BY <2>2 DEF StrayOf
  <2> QED
    BY <1>1, <2>1, <2>3, StrayOnly, Zenon
<1> HIDE DEF value, call
<1> QED
  BY <1>1, <1>3, <1>5, <1>6, <1>7 DEF Switch!Return

\* One decisive command is the act of one call.
LEMMA StrayOfOne ==
  ASSUME NEW call \in Calls, \A c \in Calls : Decisive(c) = Decisive(call) => c = call
  PROVE  StrayOf(<<Decisive(call)>>) = call
PROOF
<1> DEFINE cmds == <<Decisive(call)>>
<1>1. DOMAIN cmds = {1} /\ cmds[1] = Decisive(call)
  OBVIOUS
<1> HIDE DEF cmds
<1>2. {c \in Calls : \E i \in DOMAIN cmds : cmds[i] = Decisive(c)} = {call}
  BY <1>1
<1>3. (CHOOSE c \in {call} : TRUE) = call
  OBVIOUS
<1>4. StrayOf(cmds) = call
  BY <1>2, <1>3 DEF StrayOf
<1> QED
  BY <1>4 DEF cmds

\* The handshake and the reset are no act of the switch.
LEMMA StrayOfOther ==
  /\ StrayOf(<<>>) = "none"
  /\ \A cmd \in {"qmp_capabilities", "system_reset"} : StrayOf(<<cmd>>) = "none"
PROOF
<1>1. ASSUME NEW cmds, \A i \in DOMAIN cmds : cmds[i] \in {"qmp_capabilities", "system_reset"}
      PROVE  StrayOf(cmds) = "none"
  <2>1. \A c \in Calls : Decisive(c) \notin {"qmp_capabilities", "system_reset"}
    BY DEF Calls, Decisive
  <2>2. {c \in Calls : \E i \in DOMAIN cmds : cmds[i] = Decisive(c)} = {}
    BY <1>1, <2>1
  <2> QED
    BY <2>2 DEF StrayOf
<1>2. \A i \in DOMAIN <<>> : <<>>[i] \in {"qmp_capabilities", "system_reset"}
  OBVIOUS
<1>3. ASSUME NEW cmd \in {"qmp_capabilities", "system_reset"}
      PROVE  \A i \in DOMAIN <<cmd>> : <<cmd>>[i] \in {"qmp_capabilities", "system_reset"}
  OBVIOUS
<1> QED
  BY <1>1, <1>2, <1>3

\* The one state in which the decisive command has run.
LEMMA MetOfIs ==
  ASSUME NEW p, NEW d, NEW s \in RunStates, <<Decisive(Head(p)), s>> \in d,
         \A t \in RunStates : <<Decisive(Head(p)), t>> \in d => t = s
  PROVE  MetOf(p, d) = s
PROOF
<1>1. {t \in RunStates : <<Decisive(Head(p)), t>> \in d} = {s}
  OBVIOUS
<1>2. (CHOOSE t \in {s} : TRUE) = s
  OBVIOUS
<1> QED
  BY <1>1, <1>2 DEF MetOf, TheOne

\* A command that is not the decisive one changes nothing of it.
LEMMA MetOfSame ==
  ASSUME NEW p, NEW d, NEW e,
         \A s \in RunStates : <<Decisive(Head(p)), s>> \in d <=> <<Decisive(Head(p)), s>> \in e
  PROVE  MetOf(p, d) = MetOf(p, e)
PROOF
<1>1. {s \in RunStates : <<Decisive(Head(p)), s>> \in d}
        = {s \in RunStates : <<Decisive(Head(p)), s>> \in e}
  OBVIOUS
<1> QED
  BY <1>1, Zenon DEF MetOf

\* A call fails.  If its command waits in QEMU, it may act later.
LEMMA SwitchFail ==
  ASSUME TypeInv, ServedInv, QuietInv, NEW r \in Requesters, Fail(r)
  PROVE  Switch!Fail(r)
PROOF
<1> DEFINE call == Head(todo[r])
<1>1. /\ Calling(r) /\ Close(r) /\ UNCHANGED <<run, session, done>>
      /\ result' = [result EXCEPT ![r] = "error"]
      /\ todo' = [todo EXCEPT ![r] = <<>>]
      /\ conn \in [Requesters -> {"none", "dialed", "served"}]
      /\ conn' = [conn EXCEPT ![r] = "none"]
  BY Zenon DEF Fail, Finish, Close, TypeInv, TypeOK
<1>2. PendingBar' = [PendingBar EXCEPT ![r] = Switch!Idle]
  BY <1>1, CallEnds, Zenon
<1>3. call \in Calls /\ todo[r] # <<>>
  BY <1>1, PlaceFacts, Zenon
<1>4. PendingBar[r] = [call |-> call, met |-> Met(r)]
  BY <1>1, BarIs, Zenon DEF At
<1>5. PendingBar[r] # Switch!Idle
  <2>1. call # "none"
    BY <1>3, Zenon DEF Calls
  <2> QED
    BY <1>4, <2>1 DEF Switch!Idle
<1>6. \/ StrayBar' = StrayBar
      \/ StrayBar = "none" /\ Met(r) = "none" /\ StrayBar' = call
  <2>1. CASE ~Serving
    BY <1>1, <2>1, StrayOnly, Zenon DEF Serving
  <2>2. CASE Serving /\ conn[r] # "served"
    <3>1. session.client \in Requesters
      BY <2>2, Zenon DEF Serving, TypeInv, CallInv
    <3>2. Alive' <=> Alive
      BY <1>1, <2>2, <3>1 DEF Alive, Serving
    <3> QED
      BY <1>1, <3>2, StraySame
  <2>3. CASE Serving /\ conn[r] = "served"
    <3>1. /\ step[r] \in 1..9 /\ session.client = r /\ run # "exited"
          /\ Position(call, step[r], lines[r], session.cmds, done[r])
      BY <1>1, <2>3, PlaceFacts, Zenon
    <3>2. StrayBar = "none"
      BY <2>3, <3>1, StrayOnly, Zenon DEF Alive
    <3>3. (Serving /\ ~Alive)'
      BY <1>1, <2>3, <3>1, Zenon DEF Serving, Alive
    <3>4. CASE session.cmds = <<Decisive(call)>>
      <4>1. Met(r) = "none"
        BY <1>3, <2>3, <3>4, MetAtFirst DEF Pending
      <4>2. StrayBar' = call
        <5>1. /\ \A c \in Calls : Decisive(c) = Decisive(call) => c = call
          BY <1>3 DEF Calls, Decisive
        <5> HIDE DEF call
        <5>2. StrayOf(<<Decisive(call)>>) = call
          BY <1>3, <5>1, StrayOfOne, Zenon
        <5> QED
          BY <1>1, <3>3, <3>4, <5>2, StrayOnly, Zenon
      <4> QED
        BY <3>2, <4>1, <4>2
    <3>5. CASE session.cmds # <<Decisive(call)>>
      <4>1. StrayBar' = "none"
        <5>1. CASE session.cmds = <<>>
          BY <1>1, <3>3, <5>1, StrayOnly, StrayOfOther, Zenon
        <5>2. ASSUME NEW cmd \in Commands, session.cmds = <<cmd>> PROVE StrayBar' = "none"
          <6>1. run \in {"running", "stopped"}
            BY <3>1 DEF TypeInv, TypeOK, RunStates
          <6>2. cmd \in {"qmp_capabilities", "system_reset"}
            <7> HIDE DEF call
            <7>1. Position(call, step[r], lines[r], <<cmd>>, done[r])
              BY <3>1, <5>2, Zenon
            <7>2. cmd \in {"qmp_capabilities", "system_reset", Decisive(call)}
              BY <1>3, <3>1, <6>1, <7>1, PositionRun, Zenon
            <7> QED
              BY <3>5, <5>2, <7>2
          <6> QED
            BY <1>1, <3>3, <5>2, <6>2, StrayOnly, StrayOfOther, Zenon
        <5> QED
          BY <5>1, <5>2, Zenon DEF QuietInv
      <4> QED
        BY <3>2, <4>1
    <3> QED
      BY <3>4, <3>5, Zenon
  <2> QED
    BY <2>1, <2>2, <2>3
<1> HIDE DEF call
<1> QED
  <2>1. PendingBar[r].met = Met(r) /\ PendingBar[r].call = call
    BY <1>4
  <2> QED
    BY <1>1, <1>2, <1>5, <1>6, <2>1, Zenon DEF Switch!Fail

\* A command runs: a decisive one is the act of the call that wrote it, or of
\* the failed call that left it behind.
LEMMA SwitchAct ==
  ASSUME TypeInv, ServedInv, QuietInv, Execute
  PROVE  \/ \E r \in Requesters : Switch!Act(r)
         \/ Switch!StrayActs
         \/ UNCHANGED Switch!vars
PROOF
<1>1. PICK cmd \in Commands :
        /\ session.cmds = <<cmd>> /\ session'.cmds = <<>>
        /\ session # NoSession /\ session.client \in Requesters /\ session'.client = session.client
        /\ run \in {"running", "stopped"} /\ run' = RunAfter(cmd)
        /\ UNCHANGED <<conn, req, todo, step, result, answer>>
        /\ \A s \in Requesters : conn[s] = "served" => s = session.client
        /\ \A s \in Requesters :
             IF conn[s] = "served"
               THEN /\ lines'[s] = lines[s] \o Response(cmd)
                    /\ done'[s] = done[s] \cup {<<cmd, run>>}
               ELSE UNCHANGED <<lines[s], done[s]>>
  BY ExecuteFacts, Zenon
<1>2. StrayBar' = "none"
  BY <1>1, StrayOnly, StrayOfOther, Zenon
<1>3. ASSUME NEW call \in Calls, cmd = Decisive(call)
      PROVE  run' = Switch!Effect(call)
  BY <1>1, <1>3 DEF Calls, Decisive, RunAfter, Switch!Effect
<1>4. cmd \in {"qmp_capabilities", "system_reset"} => run' = run
  <2>1. ASSUME cmd # "stop", cmd # "cont" PROVE run' = run
    BY <1>1, <2>1, Zenon DEF RunAfter
  <2> QED
    BY <2>1
<1>5. ASSUME NEW s \in Requesters, conn[s] # "served" PROVE At(s)' = At(s)
  BY <1>1, <1>5, AtFrame, Zenon DEF Calling
<1>6. CASE ~Alive
  <2>1. \A s \in Requesters : conn[s] # "served"
    BY <1>1, <1>6, Zenon DEF Alive, Serving
  <2>2. PendingBar' = PendingBar
    BY <1>5, <2>1, BarSame
  <2>3. CASE \E call \in Calls : cmd = Decisive(call)
    <3>1. PICK call \in Calls : cmd = Decisive(call)
      BY <2>3
    <3>2. StrayBar = call
      BY <1>1, <1>6, <3>1, StrayIs, Zenon DEF Serving
    <3>3. call # "none"
      BY DEF Calls
    <3> QED
      BY <1>1, <1>2, <1>3, <2>2, <3>1, <3>2, <3>3, Zenon DEF Switch!StrayActs
  <2>4. CASE \A call \in Calls : cmd # Decisive(call)
    <3>1. StrayBar = "none"
      BY <1>1, <2>4, StrayNone, Zenon
    <3>2. cmd \in {"qmp_capabilities", "system_reset"}
      BY <2>4 DEF Commands, Calls, Decisive
    <3> QED
      BY <1>1, <1>2, <1>4, <2>2, <3>1, <3>2, Zenon DEF Switch!vars
  <2> QED
    BY <2>3, <2>4
<1>7. CASE Alive
  <2>0. PICK r \in Requesters : r = session.client
    BY <1>1
  <2> DEFINE call == Head(todo[r])
  <2>1. conn[r] = "served" /\ Serving /\ Calling(r) /\ Calling(r)'
    BY <1>1, <1>7, <2>0, Zenon DEF Alive, Calling
  <2>2. /\ call \in Calls /\ step[r] \in 1..9 /\ todo[r] # <<>>
        /\ Position(call, step[r], lines[r], <<cmd>>, done[r])
    BY <1>1, <2>1, PlaceFacts, Zenon
  <2>3. cmd \in {"qmp_capabilities", "system_reset", Decisive(call)}
    <3> HIDE DEF call
    <3> QED
      BY <1>1, <2>2, PositionRun, Zenon
  <2>4. StrayBar = "none"
    BY <1>7, StrayOnly
  <2>5. done'[r] = done[r] \cup {<<cmd, run>>} /\ todo'[r] = todo[r]
    BY <1>1, <2>1, Zenon
  <2>6. \A o \in Requesters \ {r} : At(o)' = At(o)
    BY <1>1, <1>5, <2>0, Zenon
  <2>7. CASE cmd = Decisive(call)
    <3>1. Met(r) = "none"
      BY <1>1, <2>1, <2>2, <2>7, MetAtFirst, Zenon DEF Pending
    <3>2. At(r) = [call |-> call, met |-> "none"]
      BY <2>1, <3>1 DEF At
    <3>3. Met(r)' = run
      <4>1. OnceOf(r)' /\ run \in RunStates
        BY <1>1, <2>1, QuietRun, Zenon DEF QuietOf, RunStates
      <4> QED
        <5>1. \A t \in RunStates : <<Decisive(call), t>> \in done'[r] => t = run
          BY <2>2, <2>5, <2>7, <4>1, Zenon DEF OnceOf
        <5>2. MetOf(todo[r], done'[r]) = run
          BY <2>5, <2>7, <4>1, <5>1, MetOfIs, Zenon
        <5> QED
          BY <2>5, <5>2, MetOnly, Zenon
    <3>4. At(r)' = [call |-> call, met |-> run]
      BY <2>1, <2>5, <3>3, Zenon DEF At
    <3> HIDE DEF call
    <3>5. PendingBar' = [PendingBar EXCEPT ![r] = [call |-> call, met |-> run]]
      BY <2>1, <2>6, <3>4, BarChanges
    <3>6. PendingBar[r] = [call |-> call, met |-> "none"]
      BY <2>1, <3>2, BarIs
    <3>7. PendingBar' = [PendingBar EXCEPT ![r].met = run]
      <4>1. [[call |-> call, met |-> "none"] EXCEPT !.met = run] = [call |-> call, met |-> run]
        OBVIOUS
      <4> QED
        BY <3>5, <3>6, <4>1, Zenon
    <3>8. call \in Switch!Calls
      BY <2>2 DEF Calls, Switch!Calls
    <3>9. run' = Switch!Effect(call) /\ run # "exited"
      BY <1>1, <1>3, <2>2, <2>7, Zenon
    <3>10. Switch!Act(r)
      BY <1>1, <1>2, <2>4, <3>6, <3>7, <3>8, <3>9 DEF Switch!Act
    <3> QED
      BY <2>1, <3>10
  <2>8. CASE cmd # Decisive(call)
    <3>1. MetOf(todo'[r], done'[r]) = MetOf(todo[r], done[r])
      <4>1. \A s \in RunStates : <<Decisive(call), s>> \in done'[r] <=> <<Decisive(call), s>> \in done[r]
        BY <2>5, <2>8, Zenon
      <4>2. MetOf(todo[r], done'[r]) = MetOf(todo[r], done[r])
        BY <4>1, MetOfSame, Zenon
      <4> QED
        BY <2>5, <4>2, Zenon
    <3>2. At(r)' = At(r)
      BY <2>1, <2>5, <3>1, MetOnly, Zenon DEF At
    <3>3. \A o \in Requesters : At(o)' = At(o)
      BY <2>6, <3>2
    <3>4. run' = run
      BY <1>4, <2>3, <2>8
    <3> QED
      BY <1>1, <1>2, <2>4, <3>3, <3>4, SwitchStutters, Zenon
  <2> QED
    BY <2>7, <2>8
<1> QED
  BY <1>6, <1>7

\* Every step of PowerControl is a step of PowerSwitch or none.
LEMMA SwitchNext ==
  ASSUME MaxLines = 0, TypeInv, ServedInv, QuietInv, [Next]_vars
  PROVE  [Switch!Next]_Switch!vars
PROOF
<1>1. ASSUME NEW r \in Requesters, NEW q \in Offered[r], Receive(r, q)
      PROVE  UNCHANGED Switch!vars
  <2>1. /\ ~Calling(r) /\ UNCHANGED <<run, session, conn, result>>
        /\ todo \in [Requesters -> Seq(Calls)]
        /\ done \in [Requesters -> SUBSET (Commands \X RunStates)]
        /\ done' = [done EXCEPT ![r] = {}]
        /\ UNCHANGED todo \/ todo' = [todo EXCEPT ![r] = Plan(q)]
    BY <1>1, Zenon DEF Receive, TypeInv, TypeOK, CallInv
  <2>2. ASSUME NEW o \in Requesters PROVE At(o)' = At(o)
    <3>1. Calling(o) => todo'[o] = todo[o] /\ done'[o] = done[o]
      BY <2>1, Zenon
    <3> QED
      BY <2>1, <3>1, AtFrame, Zenon DEF Calling
  <2>3. StrayBar' = StrayBar
    BY <2>1, StraySame, Zenon DEF Alive, Serving
  <2> QED
    BY <2>1, <2>2, <2>3, SwitchStutters, Zenon
<1>2. ASSUME NEW r \in Requesters, WriteCommand(r)
      PROVE  UNCHANGED Switch!vars
  <2>1. /\ Calling(r) /\ conn[r] = "served" /\ Serving
        /\ session' = [session EXCEPT !.cmds = Append(session.cmds, Instruction(r))]
        /\ UNCHANGED <<run, conn, todo, done, result>>
    BY <1>2 DEF WriteCommand
  <2>2. session.client = r /\ session'.client = r
    BY <2>1, PlaceFacts DEF TypeInv, TypeOK, Sessions
  <2>3. \A o \in Requesters : At(o)' = At(o)
    BY <2>1, AtFrame DEF Calling
  <2>4. StrayBar = "none" /\ StrayBar' = "none"
    BY <2>1, <2>2, StrayOnly DEF Alive
  <2> QED
    BY <2>1, <2>3, <2>4, SwitchStutters
<1>3. ASSUME NEW r \in Requesters, Read(r)
      PROVE  UNCHANGED Switch!vars
  <2>1. UNCHANGED <<run, session, conn, todo, done, result>>
    BY <1>3 DEF Read
  <2>2. \A o \in Requesters : At(o)' = At(o)
    BY <2>1, AtFrame, Zenon DEF Calling
  <2>3. StrayBar' = StrayBar
    BY <2>1, StraySame DEF Alive, Serving
  <2> QED
    BY <2>1, <2>2, <2>3, SwitchStutters
<1>4. ASSUME NEW r \in Requesters, Accept(r)
      PROVE  UNCHANGED Switch!vars
  <2>1. /\ conn \in [Requesters -> {"none", "dialed", "served"}]
        /\ conn[r] = "dialed" /\ conn' = [conn EXCEPT ![r] = "served"]
        /\ ~Serving /\ session'.client = r
        /\ UNCHANGED <<run, todo, done, result>>
    BY <1>4, Zenon DEF Accept, TypeInv, TypeOK
  <2>2. \A o \in Requesters : At(o)' = At(o)
    BY <2>1, AtFrame, Zenon DEF Calling
  <2>3. StrayBar = "none" /\ StrayBar' = "none"
    BY <2>1, StrayOnly, Zenon DEF Alive
  <2> QED
    BY <2>1, <2>2, <2>3, SwitchStutters
<1>5. CASE Hangup
  <2>1. /\ ~Serving' /\ UNCHANGED <<run, conn, todo, done, result>>
    BY <1>5 DEF Hangup, Serving
  <2>2. PendingBar' = PendingBar
    BY <2>1, AtFrame, BarSame DEF Calling
  <2>3. StrayBar' = "none"
    BY <2>1, StrayOnly
  <2> QED
    BY <2>1, <2>2, <2>3 DEF Switch!Next, Switch!Forget
<1>6. CASE Exit
  <2>1. /\ ~Serving' /\ run' = "exited" /\ UNCHANGED <<conn, todo, done, result>>
    BY <1>6 DEF Exit, Serving
  <2>2. PendingBar' = PendingBar
    BY <2>1, AtFrame, BarSame DEF Calling
  <2>3. StrayBar' = "none"
    BY <2>1, StrayOnly
  <2> QED
    BY <2>1, <2>2, <2>3 DEF Switch!Next, Switch!Exit
<1>7. CASE UNCHANGED vars
  <2>1. UNCHANGED <<run, session, conn, todo, done, result>>
    BY <1>7 DEF vars
  <2>2. \A o \in Requesters : At(o)' = At(o)
    BY <2>1, AtFrame, Zenon DEF Calling
  <2>3. StrayBar' = StrayBar
    BY <2>1, StraySame, Zenon DEF Alive, Serving
  <2> QED
    BY <2>1, <2>2, <2>3, SwitchStutters
<1>8. ASSUME NEW r \in Requesters, Dial(r) \/ DialRefused(r) \/ Return(r) \/ Fail(r)
      PROVE  Switch!Next
  BY <1>8, SwitchBegin, SwitchRefuse, SwitchReturn, SwitchFail DEF Switch!Next
<1>9. CASE Execute
  BY <1>9, SwitchAct DEF Switch!Next
<1>10. ~GuestEvent
  BY NoGuestEvent
<1> QED
  BY <1>1, <1>2, <1>3, <1>4, <1>5, <1>6, <1>7, <1>8, <1>9, <1>10, Zenon DEF Next, HandlerStep

\* While the guest is quiet, every call of PowerStatus, PowerOn and PowerOff
\* acts on the VM in one step, the run of its decisive command by QEMU, between
\* its beginning and its return; a command that a failed call leaves unrun acts
\* once, later, or never.
THEOREM CallsAreAtomic ==
  ASSUME MaxLines = 0
  PROVE  Spec => ImplementsSwitch
PROOF
<1>1. Init => Switch!Init
  <2> SUFFICES ASSUME Init PROVE Switch!Init
    OBVIOUS
  <2>1. ~Serving /\ \A r \in Requesters : ~Calling(r)
    BY DEF Init, Serving, Calling
  <2>2. StrayBar = "none"
    BY <2>1, StrayOnly
  <2>3. PendingBar = [c \in Requesters |-> Switch!Idle]
    BY <2>1, BarIs, Zenon DEF At, Switch!Idle
  <2> QED
    BY <2>2, <2>3 DEF Init, Switch!Init
<1>2. TypeInv /\ ServedInv /\ QuietInv /\ [Next]_vars => [Switch!Next]_Switch!vars
  BY SwitchNext
<1> QED
  BY <1>1, <1>2, QuietInvariant, PTL DEF Spec, ImplementsSwitch, Switch!Spec
====
