--------------------------- MODULE BMCServerProofs ---------------------------
(***************************************************************************)
(* Proofs about BMCServer, for any finite set of nodes, any serials and    *)
(* any lines that guests may write.                                        *)
(***************************************************************************)
EXTENDS BMCServer, FiniteSetTheorems, TLAPS

-----------------------------------------------------------------------------
(* Which machine a server controls.                                        *)

\* An announcement carries the serial of the node that it comes from.
Announcements == {i \in Infos : i.serial = Serial[i.from]}

\* A VM is in c.vms under the serial of its node, once it is registered.
Registered ==
  /\ setup \in [Nodes -> {"starting", "connected", "registered"}]
  /\ DOMAIN vms \subseteq {Serial[n] : n \in Nodes}
  /\ \A s \in DOMAIN vms : vms[s] \in Nodes /\ Serial[vms[s]] = s
  /\ \A n \in Nodes : setup[n] = "registered" => Serial[n] \in DOMAIN vms

\* Start begins with every VM registered, and what it takes from nodeCh are
\* announcements.
Taken ==
  /\ start \in {"waiting", "select", "redfish", "stopping", "returned"}
  /\ start # "waiting" => \A n \in Nodes : setup[n] = "registered"
  /\ nodeCh \in Seq(Announcements)
  /\ info \in Announcements \cup {<<>>}
  /\ start = "redfish" => info \in Announcements

Running ==
  [state : {"started", "serving", "ended"}, socket : {"open", "nil"}, info : Announcements,
   machine : Nodes \cup {"nil"}]

\* A server that was started keeps the announcement of its node, and its machine
\* has the serial of this node.
ServerOK(k) ==
  \/ server[k] = NoServer
  \/ /\ start # "waiting"
     /\ server[k] \in Running
     /\ server[k].info.from = k[2]
     /\ server[k].state = "serving" =>
          server[k].machine \in Nodes /\ Serial[server[k].machine] = Serial[k[2]]

IsServerMap(f) == f = [k \in Keys |-> f[k]]

Control ==
  /\ Registered
  /\ Taken
  /\ IsServerMap(server)
  /\ \A k \in Keys : ServerOK(k)

\* The initial states are in control.
LEMMA InitControl ==
  Init => Control
PROOF
<1> SUFFICES ASSUME Init PROVE Control
  OBVIOUS
<1>1. DOMAIN vms = {}
  <2>1. <<>> \in Seq({}) /\ Len(<<>>) = 0
    OBVIOUS
  <2>2. DOMAIN <<>> = 1..0
    BY <2>1
  <2> QED
    BY <2>2 DEF Init
<1>2. Registered
  BY <1>1 DEF Init, Registered
<1>3. Taken
  BY DEF Init, Taken
<1>4. IsServerMap(server) /\ \A k \in Keys : ServerOK(k)
  BY DEF Init, ServerOK, IsServerMap
<1> QED
  BY <1>2, <1>3, <1>4 DEF Control

\* Connecting, registering and announcing keep the serials of the VMs.
LEMMA GuestsControl ==
  ASSUME Control, NEW n \in Nodes, Connect(n) \/ Register(n) \/ \E line \in Lines : handle(n, line)
  PROVE  Control'
PROOF
<1>1. server' = server /\ start' = start /\ info' = info
  BY Zenon DEF Connect, Register, handle
<1>2. /\ setup[n] # "registered" \/ setup' = setup
      /\ start # "waiting" => setup' = setup
  BY Zenon DEF Connect, Register, handle, Control, Taken
<1>3. Registered'
  <2>1. CASE Connect(n) \/ \E line \in Lines : handle(n, line)
    BY <2>1, Zenon DEF Connect, handle, Control, Registered
  <2>2. CASE Register(n)
    <3>1. /\ setup' = [setup EXCEPT ![n] = "registered"]
          /\ vms' = [s \in DOMAIN vms \cup {Serial[n]} |-> IF s = Serial[n] THEN n ELSE vms[s]]
      BY <2>2 DEF Register
    <3>2. DOMAIN vms' = DOMAIN vms \cup {Serial[n]}
      BY <3>1
    <3> QED
      BY <3>1, <3>2 DEF Control, Registered
  <2> QED
    BY <2>1, <2>2
<1>4. nodeCh' \in Seq(Announcements)
  <2>1. CASE Connect(n) \/ Register(n)
    BY <2>1 DEF Connect, Register, Control, Taken
  <2>2. ASSUME NEW line \in Lines, handle(n, line)
        PROVE  nodeCh' \in Seq(Announcements)
    <3> DEFINE i == [serial |-> Serial[n], addr |-> line, from |-> n]
    <3>1. i \in Announcements
      BY DEF Announcements, Infos
    <3>2. nodeCh \in Seq(Announcements) /\ nodeCh' = Append(nodeCh, i)
      BY <2>2 DEF handle, Control, Taken
    <3> HIDE DEF i
    <3> QED
      BY <3>1, <3>2
  <2> QED
    BY <2>1, <2>2
<1>5. Taken'
  BY <1>1, <1>2, <1>4 DEF Control, Taken
<1>6. \A k \in Keys : ServerOK(k)'
  BY <1>1 DEF Control, ServerOK
<1> QED
  BY <1>1, <1>3, <1>5, <1>6 DEF Control

\* A socket is given to the server of the node that has announced it.
LEMMA OpenControl ==
  ASSUME Control, NEW p \in Protocols, NEW i \in Announcements, NEW on, Open(p, i, on),
         start # "waiting", start' # "waiting"
  PROVE  IsServerMap(server') /\ \A k \in Keys : ServerOK(k)'
PROOF
<1>1. PICK socket \in {"open", "nil"} : Go(p, i, socket)
  BY DEF Open
<1> DEFINE r == [state |-> "started", socket |-> socket, info |-> i, machine |-> "nil"]
<1>2. r \in Running /\ r.info.from = i.from /\ r.state = "started"
  BY DEF Running
<1> HIDE DEF r
<1>3. server' = server \/ server' = [server EXCEPT ![<<p, i.from>>] = r]
  BY <1>1 DEF Go, r
<1>4. <<p, i.from>>[2] = i.from
  OBVIOUS
<1>5. ASSUME NEW k \in Keys PROVE ServerOK(k)'
  <2>1. CASE server'[k] = server[k]
    BY <2>1 DEF Control, ServerOK
  <2>2. CASE k = <<p, i.from>> /\ server'[k] = r
    BY <1>2, <1>4, <2>2 DEF ServerOK
  <2> QED
    BY <1>3, <2>1, <2>2 DEF Control, IsServerMap
<1> QED
  BY <1>3, <1>5 DEF Control, IsServerMap

\* Every step stays in control.
LEMMA NextControl ==
  ASSUME Control, [Next]_vars
  PROVE  Control'
PROOF
<1>1. ASSUME NEW n \in Nodes, Connect(n) \/ Register(n) \/ \E line \in Lines : handle(n, line)
      PROVE  Control'
  BY <1>1, GuestsControl
<1>2. CASE NewBMCServer \/ stop \/ Wait \/ Signal \/ UNCHANGED vars
  <2>1. /\ UNCHANGED <<setup, vms, nodeCh, info, server>>
        /\ \/ start' = start
           \/ /\ start' \in {"select", "stopping", "returned"}
              /\ start # "waiting" \/ \A n \in Nodes : setup[n] = "registered"
    BY <1>2 DEF NewBMCServer, stop, Wait, Signal, vars, outside
  <2>2. Registered' /\ Taken'
    BY <2>1 DEF Control, Registered, Taken
  <2>3. \A k \in Keys : ServerOK(k)'
    BY <2>1 DEF Control, ServerOK
  <2> QED
    BY <2>1, <2>2, <2>3 DEF Control
<1>3. CASE StartIPMI
  <2>1. /\ start = "select" /\ start' = "redfish"
        /\ nodeCh # <<>> /\ info' = Head(nodeCh) /\ nodeCh' = Tail(nodeCh)
        /\ Open("ipmi", Head(nodeCh), addrs')
        /\ UNCHANGED outside
    BY <1>3 DEF StartIPMI
  <2>2. nodeCh \in Seq(Announcements)
    BY DEF Control, Taken
  <2>3. Head(nodeCh) \in Announcements /\ Tail(nodeCh) \in Seq(Announcements)
    BY <2>1, <2>2
  <2>4. IsServerMap(server') /\ \A k \in Keys : ServerOK(k)'
    BY <2>1, <2>3, OpenControl DEF Protocols
  <2>5. Registered' /\ Taken'
    BY <2>1, <2>3 DEF Control, Registered, Taken, outside
  <2> QED
    BY <2>4, <2>5 DEF Control
<1>4. CASE StartRedfish
  <2>1. /\ start = "redfish" /\ start' = "select"
        /\ Open("redfish", info, addrs)
        /\ UNCHANGED <<outside, nodeCh, info>>
    BY <1>4 DEF StartRedfish
  <2>2. info \in Announcements
    BY <2>1 DEF Control, Taken
  <2>3. IsServerMap(server') /\ \A k \in Keys : ServerOK(k)'
    BY <2>1, <2>2, OpenControl DEF Protocols
  <2>4. Registered' /\ Taken'
    BY <2>1 DEF Control, Registered, Taken, outside
  <2> QED
    BY <2>3, <2>4 DEF Control
<1>5. ASSUME NEW k \in Keys, Serve(k) \/ Break(k) \/ Close(k)
      PROVE  Control'
  <2>1. UNCHANGED <<outside, nodeCh, start, info>>
    BY <1>5 DEF Serve, Break, Close, Fail
  <2>2. Registered' /\ Taken'
    BY <2>1 DEF Control, Registered, Taken, outside
  <2>3. server[k].state \in {"started", "serving"}
    BY <1>5, Zenon DEF Serve, Break, Close
  <2>4. /\ start # "waiting"
        /\ server[k] \in Running
        /\ server[k].info.from = k[2] /\ k[2] \in Nodes
        /\ server[k].info.serial = Serial[k[2]]
        /\ server[k].info \in Announcements
    BY <2>3 DEF Control, ServerOK, NoServer, Running, Announcements, Keys
  <2>5. /\ IsServerMap(server')
        /\ \A j \in Keys : j # k => server'[j] = server[j]
        /\ \/ server'[k] = server[k]
           \/ server'[k] = [server[k] EXCEPT !.state = "ended"]
           \/ server'[k] = [state |-> "serving", socket |-> "open", info |-> server[k].info,
                            machine |-> machineOf(server[k].info)]
    BY <1>5 DEF Serve, Break, Close, Fail, Control, IsServerMap
  <2>6. machineOf(server[k].info) \in Nodes /\ Serial[machineOf(server[k].info)] = Serial[k[2]]
    BY <2>4 DEF machineOf, Control, Registered, Taken
  <2>7. ServerOK(k)'
    <3>1. CASE server'[k] = server[k]
      BY <2>1, <3>1 DEF Control, ServerOK
    <3>2. CASE server'[k] = [server[k] EXCEPT !.state = "ended"]
      <4>1. server'[k] \in Running /\ server'[k].info = server[k].info /\ server'[k].state = "ended"
        BY <2>4, <3>2 DEF Running
      <4> QED
        BY <2>1, <2>4, <4>1 DEF ServerOK
    <3>3. CASE server'[k] = [state |-> "serving", socket |-> "open", info |-> server[k].info,
                             machine |-> machineOf(server[k].info)]
      <4> HIDE DEF machineOf
      <4>1. /\ server'[k] \in Running /\ server'[k].info = server[k].info
            /\ server'[k].machine = machineOf(server[k].info)
        BY <2>4, <2>6, <3>3 DEF Running
      <4> QED
        BY <2>1, <2>4, <2>6, <4>1 DEF ServerOK
    <3> QED
      BY <2>5, <3>1, <3>2, <3>3
  <2>8. ASSUME NEW j \in Keys, j # k PROVE ServerOK(j)'
    BY <2>1, <2>5, <2>8 DEF Control, ServerOK
  <2> QED
    BY <2>2, <2>5, <2>7, <2>8 DEF Control
<1> QED
  BY <1>1, <1>2, <1>3, <1>4, <1>5 DEF Next, Step

\* Control is an invariant.
LEMMA ControlInvariance ==
  Spec => []Control
PROOF
  BY InitControl, NextControl, PTL DEF Spec

\* MachineIsThere holds: StartIPMIServer and StartRedfishServer find a VM under
\* the serial of every announcement, however early it was made.
THEOREM MachineFound ==
  Spec => []MachineIsThere
PROOF
<1>1. Control => MachineIsThere
  BY DEF Control, ServerOK, NoServer, MachineIsThere
<1> QED
  BY <1>1, ControlInvariance, PTL

\* ServesItsNode holds: where serials differ, the BMC that a guest has announced
\* controls the VM of this guest.
THEOREM OwnMachineServed ==
  Spec => []ServesItsNode
PROOF
<1>1. Control => ServesItsNode
  <2> SUFFICES ASSUME Control, \A m, n \in Nodes : Serial[m] = Serial[n] => m = n,
                      NEW k \in Keys, server[k].state = "serving"
               PROVE  server[k].machine = k[2]
    BY DEF ServesItsNode
  <2>1. server[k].machine \in Nodes /\ Serial[server[k].machine] = Serial[k[2]]
    BY DEF Control, ServerOK, NoServer
  <2>2. k[2] \in Nodes
    BY DEF Keys
  <2> QED
    BY <2>1, <2>2
<1> QED
  BY <1>1, ControlInvariance, PTL

-----------------------------------------------------------------------------
(* The room in nodeCh.                                                     *)

\* The nodes that have announced.
Sent == {n \in Nodes : sent[n] = TRUE}

\* Every announcement under way comes from another node.
Room ==
  /\ sent \in [Nodes -> BOOLEAN]
  /\ Len(nodeCh) <= Cardinality(Sent)

\* The nodes that have announced are finitely many.
LEMMA SentFinite ==
  /\ IsFiniteSet(Nodes) /\ Cardinality(Nodes) \in Nat
  /\ IsFiniteSet(Sent) /\ Cardinality(Sent) \in Nat
PROOF
<1>1. IsFiniteSet(Nodes)
  BY BMCAssumption, Zenon
<1>2. Sent \in SUBSET Nodes
  BY DEF Sent
<1>3. IsFiniteSet(Sent)
  BY <1>1, <1>2, FS_Subset
<1> QED
  BY <1>1, <1>3, FS_CardinalityType

\* A first line makes one announcement, and no other step makes any.
LEMMA NextRoom ==
  ASSUME Control, Room, [Next]_vars
  PROVE  Room'
PROOF
<1>1. nodeCh \in Seq(Announcements)
  BY DEF Control, Taken
<1>2. ASSUME NEW n \in Nodes, NEW line \in Lines, handle(n, line)
      PROVE  Room'
  <2>1. ~sent[n] /\ sent' = [sent EXCEPT ![n] = TRUE]
    BY <1>2 DEF handle
  <2>2. sent \in [Nodes -> BOOLEAN]
    BY DEF Room
  <2>3. sent' \in [Nodes -> BOOLEAN] /\ Sent' = Sent \cup {n} /\ n \notin Sent
    BY <2>1, <2>2 DEF Sent
  <2>4. Cardinality(Sent') = Cardinality(Sent) + 1
    BY <2>3, SentFinite, FS_AddElement, Zenon
  <2> DEFINE i == [serial |-> Serial[n], addr |-> line, from |-> n]
  <2>5. nodeCh' = Append(nodeCh, i)
    BY <1>2 DEF handle
  <2>6. i \in Announcements
    BY DEF Announcements, Infos
  <2> HIDE DEF i
  <2>7. Len(nodeCh') = Len(nodeCh) + 1 /\ Len(nodeCh) \in Nat
    BY <1>1, <2>5, <2>6
  <2>8. Len(nodeCh) <= Cardinality(Sent)
    BY DEF Room
  <2>9. Len(nodeCh') <= Cardinality(Sent')
    BY <2>4, <2>7, <2>8, SentFinite
  <2> QED
    BY <2>3, <2>9 DEF Room
<1>3. CASE StartIPMI
  <2>1. sent' = sent /\ nodeCh # <<>> /\ nodeCh' = Tail(nodeCh)
    BY <1>3 DEF StartIPMI, outside
  <2>2. Len(nodeCh') = Len(nodeCh) - 1 /\ Len(nodeCh) \in Nat
    BY <1>1, <2>1
  <2>3. Len(nodeCh) <= Cardinality(Sent) /\ Sent' = Sent
    BY <2>1 DEF Room, Sent
  <2>4. Len(nodeCh') <= Cardinality(Sent')
    BY <2>2, <2>3, SentFinite
  <2> QED
    BY <2>1, <2>4 DEF Room
<1>4. CASE UNCHANGED <<sent, nodeCh>>
  BY <1>4 DEF Room, Sent
<1>5. ASSUME NEW n \in Nodes, Connect(n) \/ Register(n)
      PROVE  UNCHANGED <<sent, nodeCh>>
  BY <1>5 DEF Connect, Register
<1>6. ASSUME NEW k \in Keys, Serve(k) \/ Break(k) \/ Close(k)
      PROVE  UNCHANGED <<sent, nodeCh>>
  BY <1>6 DEF Serve, Break, Close, Fail, outside
<1>7. ASSUME NewBMCServer \/ StartRedfish \/ Wait \/ stop \/ Signal \/ UNCHANGED vars
      PROVE  UNCHANGED <<sent, nodeCh>>
  BY <1>7 DEF NewBMCServer, StartRedfish, Wait, stop, Signal, vars, outside
<1> QED
  BY <1>2, <1>3, <1>4, <1>5, <1>6, <1>7 DEF Next, Step

\* Room is an invariant.
LEMMA RoomInvariance ==
  Spec => []Room
PROOF
<1>1. Init => Room
  <2> SUFFICES ASSUME Init PROVE Room
    OBVIOUS
  <2>1. sent \in [Nodes -> BOOLEAN] /\ Len(nodeCh) = 0
    BY DEF Init
  <2> QED
    BY <2>1, SentFinite DEF Room
<1>2. Control /\ Room /\ [Next]_vars => Room'
  BY NextRoom
<1> QED
  BY <1>1, <1>2, ControlInvariance, PTL DEF Spec

\* NeverBlocks holds: with the capacity that cluster.Setup gives nodeCh, a guest
\* that has not announced its address finds room, whatever became of Start.
THEOREM AnnouncingNeverBlocks ==
  Spec => []NeverBlocks
PROOF
<1>1. Control /\ Room => NeverBlocks
  <2> SUFFICES ASSUME Control, Room, NEW n \in Nodes, ~sent[n]
               PROVE  Len(nodeCh) < Cap
    BY DEF NeverBlocks
  <2>1. Sent \in SUBSET (Nodes \ {n})
    BY DEF Sent
  <2>2. IsFiniteSet(Nodes \ {n}) /\ Cardinality(Nodes \ {n}) = Cardinality(Nodes) - 1
    BY SentFinite, FS_RemoveElement
  <2>3. Cardinality(Sent) <= Cardinality(Nodes \ {n})
    BY <2>1, <2>2, FS_Subset
  <2>4. nodeCh \in Seq(Announcements)
    BY DEF Control, Taken
  <2>5. Len(nodeCh) \in Nat /\ Len(nodeCh) <= Cardinality(Sent)
    BY <2>4 DEF Room
  <2> QED
    BY <2>2, <2>3, <2>5, SentFinite DEF Cap
<1> QED
  BY <1>1, ControlInvariance, RoomInvariance, PTL

-----------------------------------------------------------------------------
(* Types.                                                                  *)

\* The rest of TypeOK.
Rest ==
  /\ addrs \subseteq InRange
  /\ bound \subseteq Protocols \X Lines
  /\ env \in {"open", "cancelled"}

Flags == done \in BOOLEAN /\ panicked \in BOOLEAN /\ failed \in BOOLEAN

\* Only addresses of the ranges are added, and sockets are opened at lines.
LEMMA NextRest ==
  ASSUME Control, Rest, [Next]_vars
  PROVE  Rest'
PROOF
<1>1. ASSUME NEW p \in Protocols, NEW i \in Announcements, NEW on, Open(p, i, on)
      PROVE  bound' \subseteq Protocols \X Lines
  <2>1. i.addr \in Lines
    BY DEF Announcements, Infos
  <2>2. bound' \subseteq bound \cup {<<p, i.addr>>}
    BY <1>1 DEF Open, Go
  <2> QED
    BY <2>1, <2>2 DEF Rest
<1>2. CASE StartIPMI
  <2>1. nodeCh \in Seq(Announcements) /\ nodeCh # <<>>
    BY <1>2 DEF StartIPMI, Control, Taken
  <2>2. Head(nodeCh) \in Announcements
    BY <2>1
  <2>3. bound' \subseteq Protocols \X Lines
    BY <1>1, <1>2, <2>2 DEF StartIPMI, Protocols
  <2> QED
    BY <1>2, <2>3 DEF StartIPMI, addBMCAddr, Rest
<1>3. CASE StartRedfish
  <2>1. info \in Announcements
    BY <1>3 DEF StartRedfish, Control, Taken
  <2>2. bound' \subseteq Protocols \X Lines
    BY <1>1, <1>3, <2>1 DEF StartRedfish, Protocols
  <2> QED
    BY <1>3, <2>2 DEF StartRedfish, Rest
<1>4. ASSUME NEW k \in Keys, Serve(k) \/ Break(k) \/ Close(k)
      PROVE  Rest'
  BY <1>4 DEF Serve, Break, Close, Fail, Rest
<1>5. ASSUME NEW n \in Nodes, Connect(n) \/ Register(n) \/ \E line \in Lines : handle(n, line)
      PROVE  Rest'
  BY <1>5, Zenon DEF Connect, Register, handle, Rest
<1>6. CASE NewBMCServer \/ Wait \/ stop \/ Signal \/ UNCHANGED vars
  BY <1>6 DEF NewBMCServer, Wait, stop, Signal, vars, Rest
<1> QED
  BY <1>2, <1>3, <1>4, <1>5, <1>6 DEF Next, Step

\* What is observed of the run is a truth value.
LEMMA NextFlags ==
  ASSUME Flags, [Next]_vars
  PROVE  Flags'
PROOF
<1>1. ASSUME NEW p, NEW i, NEW on, Open(p, i, on)
      PROVE  failed' \in BOOLEAN
  BY <1>1, Zenon DEF Open, Go
<1>2. CASE StartIPMI \/ StartRedfish
  BY <1>1, <1>2 DEF StartIPMI, StartRedfish, Flags
<1>3. ASSUME NEW k \in Keys, Serve(k) \/ Break(k) \/ Close(k)
      PROVE  Flags'
  BY <1>3, Zenon DEF Serve, Break, Close, Fail, Flags
<1>4. ASSUME NEW n \in Nodes, Connect(n) \/ Register(n) \/ \E line \in Lines : handle(n, line)
      PROVE  Flags'
  BY <1>4, Zenon DEF Connect, Register, handle, Flags
<1>5. CASE NewBMCServer \/ Wait \/ stop \/ Signal \/ UNCHANGED vars
  BY <1>5, Zenon DEF NewBMCServer, Wait, stop, Signal, vars, Flags
<1> QED
  BY <1>2, <1>3, <1>4, <1>5 DEF Next, Step

\* TypeOK holds, and with it that addBMCAddrToNetwork adds no address that is in
\* the range of no BMC network.
THEOREM TypeCorrect ==
  Spec => []TypeOK
PROOF
<1>1. Init => Rest /\ Flags
  BY Zenon DEF Init, Rest, Flags
<1>2. Control /\ Rest /\ Flags /\ [Next]_vars => Rest' /\ Flags'
  BY NextRest, NextFlags
<1>3. Control /\ Room /\ Rest /\ Flags => TypeOK
  <2> SUFFICES ASSUME Control, Room, Rest, Flags PROVE TypeOK
    OBVIOUS
  <2>1. Announcements \subseteq Infos
    BY DEF Announcements
  <2>2. nodeCh \in Seq(Infos)
    <3>1. nodeCh \in Seq(Announcements)
      BY DEF Control, Taken
    <3> QED
      BY <2>1, <3>1
  <2>3. Running \subseteq Servers
    BY <2>1 DEF Running, Servers
  <2>4. \A k \in Keys : server[k] \in Servers
    BY <2>3 DEF Control, ServerOK, Servers
  <2>5. server \in [Keys -> Servers]
    BY <2>4 DEF Control, IsServerMap
  <2> QED
    BY <2>1, <2>2, <2>5 DEF TypeOK, Control, Registered, Taken, Room, Rest, Flags
<1> QED
  BY <1>1, <1>2, <1>3, ControlInvariance, RoomInvariance, PTL DEF Spec

=============================================================================
