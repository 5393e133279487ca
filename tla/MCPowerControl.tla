--------------------------- MODULE MCPowerControl ---------------------------
(* Instances of PowerControl for TLC.                                      *)
EXTENDS PowerControl, TLC

CONSTANTS api, ipmi, redfish

\* One goroutine of the API, the IPMI goroutine and one Redfish handler.  Of
\* the Redfish requests that make the same calls and get the same answers, one.
DistinctRequests ==
     (api     :> {q \in Request : q[1] \in {"NodeAction", "NodeStatus"}})
  @@ (ipmi    :> {q \in Request : q[1] \in {"IPMIControl", "IPMIChassis"}})
  @@ (redfish :> {<<"SystemReset", "On">>, <<"SystemReset", "ForceRestart">>,
                  <<"SystemReset", "ignored">>, <<"ChassisReset", "ForceOff">>,
                  <<"ChassisReset", "invalid">>, <<"Chassis", "get">>})

MCOffered == [r \in Requesters |-> DistinctRequests[r]]

\* Fewer requests, for the run with guest events.
Representative == (api     :> {<<"NodeAction", "start">>, <<"NodeAction", "stop">>,
                               <<"NodeAction", "restart">>})
               @@ (ipmi    :> {<<"IPMIChassis", "GetChassisStatus">>, <<"IPMIControl", "PowerUp">>,
                               <<"IPMIControl", "PowerDown">>})
               @@ (redfish :> {<<"SystemReset", "ForceOff">>, <<"SystemReset", "ForceRestart">>})

MCRepresentative == [r \in Requesters |-> Representative[r]]

=============================================================================
