----------------------------- MODULE PowerSwitch -----------------------------
(***************************************************************************)
(* What virtualbmc.Machine promises its callers while the guest keeps      *)
(* quiet: every call acts on the power of the VM in one step, at a moment  *)
(* between its beginning and its return.                                   *)
(*                                                                         *)
(*   - PowerStatus returns the power it met.                               *)
(*   - PowerOff returns nil only if it found the VM running and stopped it,*)
(*     PowerOn only if it found the VM stopped and started it.             *)
(*   - A call that fails has acted, or acts once more before any other     *)
(*     call does, or never acts.                                           *)
(***************************************************************************)

CONSTANT Callers

VARIABLES
  power,    \* "running", "stopped", or "exited" for good
  pending,  \* pending[c]: c's call under way and the power that it met
  stray,    \* the failed call that may still act
  result    \* result[c]: what c's last call returned

vars == <<power, pending, stray, result>>

Calls == {"PowerStatus", "PowerOn", "PowerOff"}

Idle == [call |-> "none", met |-> "none"]

Effect(call) ==
  IF call = "PowerOn" THEN "running" ELSE IF call = "PowerOff" THEN "stopped" ELSE power

\* What a call that met this power returns if it does not fail.
Returns(call, met) ==
  CASE call = "PowerStatus" -> IF met = "running" THEN "On" ELSE "Off"
    [] call = "PowerOn"     -> IF met = "stopped" THEN "nil" ELSE "error"
    [] call = "PowerOff"    -> IF met = "running" THEN "nil" ELSE "error"

Init ==
  /\ power = "running"
  /\ pending = [c \in Callers |-> Idle]
  /\ stray = "none"
  /\ result = [c \in Callers |-> "none"]

Begin(c, call) ==
  /\ pending[c] = Idle
  /\ power # "exited"
  /\ pending' = [pending EXCEPT ![c] = [call |-> call, met |-> "none"]]
  /\ result'  = [result EXCEPT ![c] = "none"]
  /\ UNCHANGED <<power, stray>>

Act(c) ==
  /\ pending[c].call \in Calls
  /\ pending[c].met = "none"
  /\ stray = "none"
  /\ power # "exited"
  /\ pending' = [pending EXCEPT ![c].met = power]
  /\ power' = Effect(pending[c].call)
  /\ UNCHANGED <<stray, result>>

Return(c) ==
  /\ pending[c].met # "none"
  /\ pending' = [pending EXCEPT ![c] = Idle]
  /\ result'  = [result EXCEPT ![c] = Returns(pending[c].call, pending[c].met)]
  /\ UNCHANGED <<power, stray>>

Fail(c) ==
  /\ pending[c] # Idle
  /\ pending' = [pending EXCEPT ![c] = Idle]
  /\ result'  = [result EXCEPT ![c] = "error"]
  /\ \/ UNCHANGED stray
     \/ /\ stray = "none"
        /\ pending[c].met = "none"
        /\ stray' = pending[c].call
  /\ UNCHANGED power

\* A call on a VM that has exited.
Refuse(c) ==
  /\ pending[c] = Idle
  /\ power = "exited"
  /\ result' = [result EXCEPT ![c] = "error"]
  /\ UNCHANGED <<power, pending, stray>>

\* The failed call acts after all, or is forgotten.
StrayActs ==
  /\ stray # "none"
  /\ power' = Effect(stray)
  /\ stray' = "none"
  /\ UNCHANGED <<pending, result>>

Forget ==
  /\ stray' = "none"
  /\ UNCHANGED <<power, pending, result>>

Exit ==
  /\ power' = "exited"
  /\ stray' = "none"
  /\ UNCHANGED <<pending, result>>

Next ==
  \/ \E c \in Callers : \/ \E call \in Calls : Begin(c, call)
                        \/ Act(c)
                        \/ Return(c)
                        \/ Fail(c)
                        \/ Refuse(c)
  \/ StrayActs
  \/ Forget
  \/ Exit

Spec == Init /\ [][Next]_vars

=============================================================================
