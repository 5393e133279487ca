------------------------------ MODULE BMCServer ------------------------------
(***************************************************************************)
(* The BMC server: from the address that a guest announces to the IPMI and *)
(* Redfish servers that control its VM.                                    *)
(*                                                                         *)
(* Setup of a node connects to its guest and leaves the connection to a    *)
(* goroutine, which puts the first line it reads into nodeCh.  When every  *)
(* node is set up and in c.vms, Start takes the announcements one by one,  *)
(* adds the address to a bridge, opens its sockets and hands each socket   *)
(* to a goroutine of one environment.  Errors are logged: a server is      *)
(* started all the same, on a nil socket, and the error it then returns    *)
(* cancels the environment, which ends the servers of all nodes.           *)
(***************************************************************************)
EXTENDS Naturals, Sequences, FiniteSets

CONSTANTS
  Nodes,
  Serial,     \* Serial[n]: the serial that Setup of n returns
  InRange,    \* the addresses in the ranges of the BMC networks
  Lines,      \* what a guest may write: addresses, "", or "garbage"
  Failures    \* may calls of the operating system fail?

ASSUME BMCAssumption ==
  /\ IsFiniteSet(Nodes) /\ "nil" \notin Nodes
  /\ "garbage" \notin InRange /\ "" \notin InRange
  /\ Failures \in BOOLEAN

Protocols == {"ipmi", "redfish"}

VARIABLES
  setup,    \* setup[n]: how far cluster.Setup is with n
  vms,      \* c.vms: the VMs by the serials of their nodes
  sent,     \* sent[n]: guestConnection.sent
  nodeCh,   \* the announcements under way
  start,    \* where bmcServer.Start is
  info,     \* the announcement it has in hand
  addrs,    \* the BMC addresses on the bridges
  bound,    \* the sockets that are open: <<protocol, address>>
  server,   \* server[<<protocol, node>>]: the server of n's announcement
  env,      \* the environment of the servers: "open" or "cancelled"
  done,     \* is the context of Start done?
  panicked, \* has placemat panicked?
  \* What the properties observe:
  failed    \* has a socket, a certificate or a server failed?

outside == <<setup, vms, sent>>
vars == <<outside, nodeCh, start, info, addrs, bound, server, env, done, panicked, failed>>

Keys == Protocols \X Nodes

\* nodeCh has room for one announcement of every node.
Cap == Cardinality(Nodes)

NoServer == [state |-> "none"]

Init ==
  /\ setup = [n \in Nodes |-> "starting"]
  /\ vms = <<>>
  /\ sent = [n \in Nodes |-> FALSE]
  /\ nodeCh = <<>>
  /\ start = "waiting"
  /\ info = <<>>
  /\ addrs = {}
  /\ bound = {}
  /\ server = [k \in Keys |-> NoServer]
  /\ env = "open"
  /\ done = FALSE
  /\ panicked = FALSE
  /\ failed = FALSE

-----------------------------------------------------------------------------
(* The nodes and their guests.                                             *)

\* QEMU is up and a goroutine reads from its guest.
Connect(n) ==
  /\ setup[n] = "starting"
  /\ setup' = [setup EXCEPT ![n] = "connected"]
  /\ UNCHANGED <<vms, sent, nodeCh, start, info, addrs, bound, server, env, done, panicked, failed>>

Register(n) ==
  /\ setup[n] = "connected"
  /\ setup' = [setup EXCEPT ![n] = "registered"]
  /\ vms' = [s \in DOMAIN vms \cup {Serial[n]} |-> IF s = Serial[n] THEN n ELSE vms[s]]
  /\ UNCHANGED <<sent, nodeCh, start, info, addrs, bound, server, env, done, panicked, failed>>

\* Mutant: every line is an announcement.
handleEvery(n, line) ==
  /\ setup[n] # "starting"
  /\ Len(nodeCh) < Cap
  /\ nodeCh' = Append(nodeCh, [serial |-> Serial[n], addr |-> line, from |-> n])
  /\ UNCHANGED <<setup, vms, sent, start, info, addrs, bound, server, env, done, panicked, failed>>

\* Mutant: what Start is not there to receive is dropped.
handleDrops(n, line) ==
  /\ setup[n] # "starting"
  /\ ~sent[n]
  /\ sent' = [sent EXCEPT ![n] = TRUE]
  /\ nodeCh' = IF start = "select"
                 THEN Append(nodeCh, [serial |-> Serial[n], addr |-> line, from |-> n])
                 ELSE nodeCh
  /\ UNCHANGED <<setup, vms, start, info, addrs, bound, server, env, done, panicked, failed>>

\* The guest writes a line: the first one is sent on, and sending waits for
\* room in nodeCh; the others are read and dropped.
handle(n, line) ==
  /\ setup[n] # "starting"
  /\ ~sent[n]
  /\ sent' = [sent EXCEPT ![n] = TRUE]
  /\ Len(nodeCh) < Cap
  /\ nodeCh' = Append(nodeCh, [serial |-> Serial[n], addr |-> line, from |-> n])
  /\ UNCHANGED <<setup, vms, start, info, addrs, bound, server, env, done, panicked, failed>>

-----------------------------------------------------------------------------
(* bmcServer.Start.                                                        *)

\* Mutant: Start does not wait for the nodes.
StartEarly ==
  /\ start = "waiting"
  /\ start' = "select"
  /\ UNCHANGED <<outside, nodeCh, info, addrs, bound, server, env, done, panicked, failed>>

\* cluster.Setup starts it when Setup of every node has returned.
NewBMCServer ==
  /\ start = "waiting"
  /\ \A n \in Nodes : setup[n] = "registered"
  /\ start' = "select"
  /\ UNCHANGED <<outside, nodeCh, info, addrs, bound, server, env, done, panicked, failed>>

\* Can a socket be opened for an address that a guest has announced?  At some
\* port of all addresses if it does not resolve, at the protocol's port of all
\* addresses if it is empty, and else at its own, if the host has it.
CanListen(protocol, addr, on) ==
  LET used == {s[2] : s \in {t \in bound : t[1] = protocol}} \ {"garbage"}
  IN  \/ addr = "garbage"
      \/ addr = "" /\ used = {}
      \/ addr \in on /\ addr \notin used /\ "" \notin used

\* A socket, or none, is given to a server for announcement i.  Go starts
\* nothing once the environment is cancelled; the socket stays open then.
Go(protocol, i, socket) ==
  /\ server' = IF env = "cancelled" THEN server
               ELSE [server EXCEPT ![<<protocol, i.from>>] =
                       [state |-> "started", socket |-> socket, info |-> i, machine |-> "nil"]]
  /\ bound'  = IF socket = "nil" THEN bound ELSE bound \cup {<<protocol, i.addr>>}
  /\ failed' = (failed \/ socket = "nil")

Open(protocol, i, on) ==
  \/ CanListen(protocol, i.addr, on) /\ Go(protocol, i, "open")
  \/ (Failures \/ ~CanListen(protocol, i.addr, on)) /\ Go(protocol, i, "nil")

\* Mutant: the address is added whatever the ranges.
addAnyAddr(addr) == addrs' = addrs \cup {addr}

\* addBMCAddrToNetwork: an address in no range, or one that cannot be added,
\* is only logged.
addBMCAddr(addr) ==
  \/ addr \in InRange /\ addrs' = addrs \cup {addr}
  \/ (addr \notin InRange \/ Failures) /\ UNCHANGED addrs

StartIPMI ==
  /\ start = "select" /\ nodeCh # <<>>
  /\ info' = Head(nodeCh)
  /\ nodeCh' = Tail(nodeCh)
  /\ addBMCAddr(Head(nodeCh).addr)
  /\ Open("ipmi", Head(nodeCh), addrs')
  /\ start' = "redfish"
  /\ UNCHANGED <<outside, env, done, panicked>>

StartRedfish ==
  /\ start = "redfish"
  /\ Open("redfish", info, addrs)
  /\ start' = "select"
  /\ UNCHANGED <<outside, nodeCh, info, addrs, env, done, panicked>>

stop ==
  /\ start = "select" /\ done
  /\ start' = "stopping"
  /\ env' = "cancelled"
  /\ UNCHANGED <<outside, nodeCh, info, addrs, bound, server, done, panicked, failed>>

\* env.Wait.
Wait ==
  /\ start = "stopping"
  /\ \A k \in Keys : server[k].state \in {"none", "ended"}
  /\ start' = "returned"
  /\ UNCHANGED <<outside, nodeCh, info, addrs, bound, server, env, done, panicked, failed>>

-----------------------------------------------------------------------------
(* The servers.                                                            *)

\* Mutant: the goroutine reads the announcement that Start has in hand.
machineOfLatest(i) == IF info.serial \in DOMAIN vms THEN vms[info.serial] ELSE "nil"

machineOf(i) == IF i.serial \in DOMAIN vms THEN vms[i.serial] ELSE "nil"

\* The server of k returns an error, which cancels the environment: the socket
\* is closed, but not before Redfish has its certificate.
Fail(k, closes) ==
  /\ server' = [server EXCEPT ![k].state = "ended"]
  /\ bound' = IF closes THEN bound \ {<<k[1], server[k].info.addr>>} ELSE bound
  /\ env' = "cancelled"
  /\ failed' = TRUE
  /\ UNCHANGED <<outside, nodeCh, start, info, addrs, done, panicked>>

\* The goroutine begins: it looks up the machine and serves.  Redfish needs a
\* certificate first.  Reading from a nil socket is an error, or a panic, as
\* the net package has it.
Serve(k) ==
  /\ server[k].state = "started"
  /\ \/ /\ server[k].socket = "open"
        /\ server' = [server EXCEPT ![k] = [state |-> "serving", socket |-> "open",
                                            info |-> server[k].info,
                                            machine |-> machineOf(server[k].info)]]
        /\ UNCHANGED <<outside, nodeCh, start, info, addrs, bound, env, done, panicked, failed>>
     \/ /\ server[k].socket = "nil" \/ (Failures /\ k[1] = "redfish")
        /\ Fail(k, FALSE)
     \/ /\ server[k].socket = "nil" /\ k[1] = "ipmi"
        /\ panicked' = TRUE
        /\ UNCHANGED <<outside, nodeCh, start, info, addrs, bound, server, env, done, failed>>

\* Reading or accepting fails.
Break(k) ==
  /\ Failures
  /\ server[k].state = "serving"
  /\ Fail(k, TRUE)

\* Mutant: nobody closes the socket of the IPMI server.
CloseRedfish(k) ==
  /\ server[k].state = "serving" /\ k[1] = "redfish"
  /\ done \/ env = "cancelled"
  /\ server' = [server EXCEPT ![k].state = "ended"]
  /\ bound' = bound \ {<<k[1], server[k].info.addr>>}
  /\ env' = "cancelled"
  /\ UNCHANGED <<outside, nodeCh, start, info, addrs, done, panicked, failed>>

\* The context of the servers is done: their sockets are closed and they return.
Close(k) ==
  /\ server[k].state = "serving"
  /\ done \/ env = "cancelled"
  /\ server' = [server EXCEPT ![k].state = "ended"]
  /\ bound' = bound \ {<<k[1], server[k].info.addr>>}
  /\ env' = "cancelled"
  /\ UNCHANGED <<outside, nodeCh, start, info, addrs, done, panicked, failed>>

\* The context of Start is done: a signal, or another goroutine of the cluster.
Signal ==
  /\ start # "waiting" /\ ~done
  /\ done' = TRUE
  /\ UNCHANGED <<outside, nodeCh, start, info, addrs, bound, server, env, panicked, failed>>

Step ==
  \/ \E n \in Nodes : Connect(n) \/ Register(n)
  \/ NewBMCServer
  \/ StartIPMI
  \/ StartRedfish
  \/ Wait

Next ==
  /\ ~panicked
  /\ \/ Step
     \/ stop
     \/ \E n \in Nodes : \E line \in Lines : handle(n, line)
     \/ \E k \in Keys : Serve(k) \/ Break(k) \/ Close(k)
     \/ Signal

Spec == Init /\ [][Next]_vars

\* Every goroutine goes on.  A guest announces once, so Start is not kept from
\* the end of its context by announcements for ever.
FairSpec ==
  /\ Spec
  /\ WF_vars(~panicked /\ Step)
  /\ WF_vars(~panicked /\ stop)
  /\ \A k \in Keys : WF_vars(~panicked /\ Serve(k)) /\ WF_vars(~panicked /\ Close(k))

-----------------------------------------------------------------------------
(* Properties.                                                             *)

Infos == [serial : {Serial[n] : n \in Nodes}, addr : Lines, from : Nodes]

Servers ==
  {NoServer} \cup [state : {"started", "serving", "ended"}, socket : {"open", "nil"}, info : Infos,
                   machine : Nodes \cup {"nil"}]

TypeOK ==
  /\ setup \in [Nodes -> {"starting", "connected", "registered"}]
  /\ DOMAIN vms \subseteq {Serial[n] : n \in Nodes} /\ \A s \in DOMAIN vms : vms[s] \in Nodes
  /\ sent \in [Nodes -> BOOLEAN]
  /\ nodeCh \in Seq(Infos)
  /\ start \in {"waiting", "select", "redfish", "stopping", "returned"}
  /\ info \in Infos \cup {<<>>}
  /\ start = "redfish" => info \in Infos
  /\ addrs \subseteq InRange
  /\ bound \subseteq Protocols \X Lines
  /\ server \in [Keys -> Servers]
  /\ env \in {"open", "cancelled"}
  /\ done \in BOOLEAN /\ panicked \in BOOLEAN /\ failed \in BOOLEAN

\* The goroutine of a guest connection never waits for room in nodeCh, whether
\* Start has begun, is busy or is gone: a guest that has not announced its
\* address yet finds room.
NeverBlocks == \A n \in Nodes : ~sent[n] => Len(nodeCh) < Cap

\* A server never serves without a machine: however early a guest announces
\* its address, the VM is in c.vms when the server looks it up.
MachineIsThere == \A k \in Keys : server[k].state = "serving" => server[k].machine \in Nodes

\* Where the nodes have serials of their own, "the Placemat process [...]
\* controls the QEMU process of the node" (docs/virtual_bmc.md): the BMC at the
\* address that a guest has announced controls the VM of this guest.
ServesItsNode ==
  (\A m, n \in Nodes : Serial[m] = Serial[n] => m = n) =>
    \A k \in Keys : server[k].state = "serving" => server[k].machine = k[2]

\* An address that a guest has announced is served, by IPMI and by Redfish, if
\* nothing fails before and the context is not done.
AnnouncedIsServed ==
  \A n \in Nodes :
    sent[n] ~> \/ \A p \in Protocols : server[<<p, n>>].state = "serving"
               \/ failed \/ done

\* When its context is done Start returns, whatever its servers were doing.
Returns == done ~> (start = "returned" \/ panicked)

=============================================================================
