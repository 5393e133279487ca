------------------------------- MODULE Cluster -------------------------------
(***************************************************************************)
(* The life of a placemat2 process: cluster.Setup builds the NAT chains,   *)
(* the bridges, the nodes and the network namespaces of the YAML files,    *)
(* serves until it is signalled, and takes everything down again in its    *)
(* deferred functions (pkg/placemat/cluster.go, with the Setup and Cleanup *)
(* methods of pkg/vm and pkg/dcnet it calls).                              *)
(*                                                                         *)
(* What these calls make lives on the host and outlives the process.  A    *)
(* process may fail at any step, be signalled, or be killed outright, and  *)
(* the next one, with or without --force, starts on what is left.          *)
(***************************************************************************)
EXTENDS Integers, Sequences, Functions

CONSTANTS Nodes,      \* names of the Node resources
          Networks,   \* names of the Network resources
          NetNSs,     \* names of the NetworkNamespace resources
          TPM,        \* the nodes with tpm: true
          Serial,     \* Serial[n]: the smbios.serial of node n, "" if not set
          Failures,   \* TRUE: calls to the host may fail
          MaxRuns     \* bound on the processes started one after the other

ASSUME ClusterAssumption ==
    /\ TPM \subseteq Nodes
    /\ Serial \in [Nodes -> STRING]
    /\ "nil" \notin Nodes /\ "none" \notin Nodes
    /\ Failures \in BOOLEAN
    /\ MaxRuns \in Nat

VARIABLES host,       \* the resources that exist on the host
          runs,       \* number of processes started
          force,      \* r.Force
          pc,         \* where Setup of the current process stands
          todo,       \* the removals left in the cleanup that is running
          networks,   \* c.networks
          node,       \* node[n]: where the Setup of node n stands
          named,      \* the nodes whose tap has its tapName
          vms,        \* c.vms: from serials to nodes ("nil": a nil VM)
          qemu,       \* qemu[n]: the QEMU process of node n
          netns,      \* netns[s]: the goroutine running the Setup of s
          netNss,     \* c.netNss
          waits,      \* the VMs some goroutine waits for, "nil" included
          cancelled,  \* ctx is done: the process got a signal
          envCancelled, \* a goroutine of the second Environment failed
          made,       \* what the current process made (history)
          met,        \* what it wanted to make and found there (history)
          served,     \* it reached its serving phase (history)
          ended       \* how the last process ended

vars == <<host, runs, force, pc, todo, networks, node, named, vms, qemu,
          netns, netNss, waits, cancelled, envCancelled, made, met, served,
          ended>>

-----------------------------------------------------------------------------
(* The resources.  A link created under a random name carries the number  *)
(* of the run, since no later run can know the name.                       *)

Families == {"v4", "v6"}
Rule(k, f) == <<"nat", k, f>>
Chains == {Rule(k, f) : k \in {"filterChain", "natChain"}, f \in Families}
Jumps == {Rule(k, f) : k \in {"filterJump", "natJump"}, f \in Families}

Bridge(n) == <<"bridge", n>>
NS(s) == <<"netns", s>>
Tap(n, r) == <<"tap", n, r>>
Socks(n) == <<"socks", n>>
SWTPMDir(n) == <<"swtpm", n>>

Bridges == {Bridge(n) : n \in Networks}
NSs == {NS(s) : s \in NetNSs}
Links == {Tap(n, r) : n \in Nodes, r \in 1..MaxRuns}
FilesOfForgetsTPM(n) == {Socks(n)}   \* mutant: the swtpm directory stays
FilesOf(n) == {Socks(n), SWTPMDir(n)}
NodeFiles == {Socks(n) : n \in Nodes} \cup {SWTPMDir(n) : n \in Nodes}
Resource == Chains \cup Jumps \cup Bridges \cup NSs \cup Links \cup NodeFiles

\* What CreateNatRules makes for one protocol, one call after the other: the
\* PLACEMAT chains, and the rules that jump to them.
NatRules(f) == <<{Rule("filterChain", f)}, {Rule("natChain", f)},
                 {Rule("natJump", f)}, {Rule("filterJump", f)}>>

\* What CleanupNatRules removes for one protocol.  A removal that finds
\* nothing is only logged.
NatRemovals(f) == <<{Rule("filterJump", f)}, {Rule("natJump", f)},
                    {Rule("filterChain", f)}, {Rule("natChain", f)}>>

CleanupNatRules == NatRemovals("v4") \o NatRemovals("v6")
CleanupAllLinks == <<Links>>

-----------------------------------------------------------------------------
NodePC == {"idle", "swtpm", "taps", "qemu", "poll", "ok", "nil", "failed"}
QEMUState == {"none", "booting", "listening", "exited"}
NetNSPC == {"idle", "new", "up", "ended"}
PC == {"off", "force", "nat", "networks", "nodes", "netns", "listen",
       "serve", "vms", "cleanup"}
Ends == {"none", "returned", "panicked", "crashed", "killed"}

NoSerial == ""
Serials == {NoSerial} \cup Range(Serial)
AllEntries == {vms[k] : k \in Serials}   \* mutant: missing keys counted too
VMs == {vms[k] : k \in Serials} \ {"none"}

Init ==
    /\ host = {} /\ runs = 0 /\ force = FALSE /\ pc = "off"
    /\ todo = <<>> /\ networks = {}
    /\ node = [n \in Nodes |-> "idle"] /\ named = {}
    /\ vms = [k \in Serials |-> "none"]
    /\ qemu = [n \in Nodes |-> "none"]
    /\ netns = [s \in NetNSs |-> "idle"] /\ netNss = {} /\ waits = {}
    /\ cancelled = FALSE /\ envCancelled = FALSE
    /\ made = {} /\ met = {} /\ served = FALSE /\ ended = "none"

\* run, NewCluster and the head of Setup: a new process, with nothing in its
\* memory.
NewCluster(f) ==
    /\ pc = "off" /\ runs < MaxRuns
    /\ runs' = runs + 1 /\ force' = f
    /\ pc' = IF f THEN "force" ELSE "nat"
    /\ todo' = IF f THEN CleanupNatRules \o CleanupAllLinks
                    ELSE NatRules("v4") \o NatRules("v6")
    /\ networks' = {} /\ named' = {}
    /\ vms' = [k \in Serials |-> "none"]
    /\ node' = [n \in Nodes |-> "idle"] /\ qemu' = [n \in Nodes |-> "none"]
    /\ netns' = [s \in NetNSs |-> "idle"] /\ netNss' = {} /\ waits' = {}
    /\ cancelled' = FALSE /\ envCancelled' = FALSE
    /\ made' = {} /\ met' = {} /\ served' = FALSE /\ ended' = "none"
    /\ UNCHANGED host

\* A call of Setup that removes the resources old and makes the resources
\* new, one that removes old and finds new still there, and one that only
\* removes.
Make(old, new) ==
    /\ host' = (host \ old) \cup new
    /\ made' = made \cup new
    /\ met' = met \cup (new \cap (host \ old))

Meet(old, new) ==
    /\ host' = host \ old
    /\ met' = met \cup (new \cap (host \ old))
    /\ UNCHANGED made

Drop(old) == host' = host \ old /\ UNCHANGED <<made, met>>

Keep == UNCHANGED <<host, made, met>>

\* What a Setup method removes before it starts: only with r.Force.
Garbage(rs) == IF force THEN rs ELSE {}

\* c.cleanup, deferred by Setup: what it removes, one call after the other.
\* vs are the VMs its last loop gets to.
cleanup(nets, vs) ==
    /\ pc' = "cleanup"
    /\ todo' = CleanupNatRules
         \o <<{Bridge(n) : n \in nets}, {Tap(n, runs) : n \in named},
              {NS(s) : s \in netNss}, UNION {FilesOf(n) : n \in vs}>>

nodeVars == <<node, named, vms>>
serveVars == <<netns, netNss, waits, envCancelled>>
runVars == <<runs, force>>

\* The removals of --force and of c.cleanup.
Removal ==
    /\ pc \in {"force", "cleanup"} /\ todo # <<>>
    /\ Drop(Head(todo))
    /\ todo' = Tail(todo)
    /\ UNCHANGED <<pc, networks, qemu, cancelled, served, ended, nodeVars,
                   serveVars, runVars>>

Forced ==
    /\ pc = "force" /\ todo = <<>>
    /\ pc' = "nat" /\ todo' = NatRules("v4") \o NatRules("v6")
    /\ Keep
    /\ UNCHANGED <<networks, qemu, cancelled, served, ended, nodeVars,
                   serveVars, runVars>>

-----------------------------------------------------------------------------
(* The sequential part of Setup.                                           *)

\* mutant: a chain that exists is taken over
CreateOverExisting ==
    /\ pc = "nat"
    /\ \/ /\ todo # <<>>
          /\ Make({}, Head(todo)) /\ todo' = Tail(todo) /\ UNCHANGED pc
       \/ Failures /\ Keep /\ cleanup({}, {})
       \/ todo = <<>> /\ pc' = "networks" /\ Keep /\ UNCHANGED todo
    /\ UNCHANGED <<networks, qemu, cancelled, served, ended, nodeVars,
                   serveVars, runVars>>

\* CreateNatRules: NewChain fails on a chain that exists, Append adds its
\* rule in any case.
CreateNatRules ==
    /\ pc = "nat"
    /\ \/ /\ todo # <<>> /\ (Head(todo) \cap host \cap Chains = {})
          /\ Make({}, Head(todo)) /\ todo' = Tail(todo) /\ UNCHANGED pc
       \/ /\ todo # <<>> /\ (Head(todo) \cap host \cap Chains # {})
          /\ Meet({}, Head(todo)) /\ cleanup({}, {})
       \/ Failures /\ Keep /\ cleanup({}, {})
       \/ todo = <<>> /\ pc' = "networks" /\ Keep /\ UNCHANGED todo
    /\ UNCHANGED <<networks, qemu, cancelled, served, ended, nodeVars,
                   serveVars, runVars>>

\* mutant: the network is appended to c.networks once its Setup succeeded
SetupThenAppend(n) ==
    /\ pc = "networks" /\ n \in Networks \ networks
    /\ \/ /\ Make(Garbage({Bridge(n)}), {Bridge(n)})
          /\ networks' = networks \cup {n} /\ UNCHANGED <<pc, todo>>
       \/ /\ Failures /\ Make(Garbage({Bridge(n)}), {Bridge(n)})
          /\ cleanup(networks, {}) /\ UNCHANGED networks
    /\ UNCHANGED <<qemu, cancelled, served, ended, nodeVars, serveVars, runVars>>

\* NewNetwork, the append to c.networks and network.Setup.  LinkAdd fails on
\* a bridge that exists; it and the calls after it may fail otherwise.
SetupNetwork(n) ==
    LET old == Garbage({Bridge(n)})
        new == {Bridge(n)} IN
    /\ pc = "networks" /\ n \in Networks \ networks
    /\ networks' = networks \cup {n}
    /\ \/ new \cap (host \ old) = {} /\ Make(old, new) /\ UNCHANGED <<pc, todo>>
       \/ new \cap (host \ old) # {} /\ Meet(old, new) /\ cleanup(networks', {})
       \/ /\ Failures /\ cleanup(networks', {})
          /\ \/ Drop(old)
             \/ new \cap (host \ old) = {} /\ Make(old, new)
       \/ Failures /\ Keep /\ cleanup(networks, {})
    /\ UNCHANGED <<qemu, cancelled, served, ended, nodeVars, serveVars, runVars>>

\* NewNode and node.Prepare of every node: the images are downloaded under
\* ctx, nothing is made on the host.
PrepareNodes ==
    /\ pc = "networks" /\ networks = Networks
    /\ \/ pc' = "nodes" /\ UNCHANGED todo
       \/ (Failures \/ cancelled) /\ cleanup(networks, {})
    /\ Keep
    /\ UNCHANGED <<networks, qemu, cancelled, served, ended, nodeVars,
                   serveVars, runVars>>

-----------------------------------------------------------------------------
(* The goroutines that set the nodes up, one per node.                     *)

setupVars == <<pc, todo, networks, cancelled, served, ended, serveVars, runVars>>

Goto(n, to) == node' = [node EXCEPT ![n] = to]

\* CleanupGarbage and startSWTPM.  Mkdir fails on a directory that exists; a
\* command under a ctx that is done does not start; the wait for the socket
\* ends without an error when ctx is done.
startSWTPM(n) ==
    LET old == Garbage(FilesOf(n))
        new == {SWTPMDir(n)} IN
    /\ pc = "nodes" /\ node[n] = "idle"
    /\ \/ n \notin TPM /\ Drop(old) /\ Goto(n, "taps")
       \/ /\ n \in TPM /\ new \cap (host \ old) = {}
          /\ \/ ~cancelled /\ Make(old, new) /\ Goto(n, "taps")
             \/ (Failures \/ cancelled) /\ Make(old, new) /\ Goto(n, "failed")
       \/ /\ n \in TPM /\ new \cap (host \ old) # {}
          /\ Meet(old, new) /\ Goto(n, "failed")
    /\ UNCHANGED <<named, vms, qemu, setupVars>>

\* createVolumes and createTaps, for a node with one interface.  The tap has
\* its tapName, by which it is removed, only after the calls that follow
\* LinkAdd.
createTaps(n) ==
    /\ pc = "nodes" /\ node[n] = "taps"
    /\ \/ /\ Make({}, {Tap(n, runs)}) /\ named' = named \cup {n}
          /\ Goto(n, "qemu")
       \/ (Failures \/ cancelled) /\ Keep /\ Goto(n, "failed") /\ UNCHANGED named
       \/ /\ Failures /\ Make({}, {Tap(n, runs)}) /\ Goto(n, "failed")
          /\ UNCHANGED named
    /\ UNCHANGED <<vms, qemu, setupVars>>

\* createNVRAM and qemuCommand.Start.
startQEMU(n) ==
    /\ pc = "nodes" /\ node[n] = "qemu"
    /\ \/ /\ ~cancelled
          /\ qemu' = [qemu EXCEPT ![n] = "booting"] /\ Goto(n, "poll")
       \/ (Failures \/ cancelled) /\ Goto(n, "failed") /\ UNCHANGED qemu
    /\ Keep /\ UNCHANGED <<named, vms, setupVars>>

\* mutant: two unlocked updates of the map, one is lost
RegisterUnlocked(serial, vm) ==
    vms' = [k \in Serials |-> IF k = serial THEN vm ELSE "none"]

\* c.vms[serial] = vm.
Register(serial, vm) == vms' = [vms EXCEPT ![serial] = vm]

\* mutant: the loop does not look at ctx
pollForever(n) ==
    /\ pc = "nodes" /\ node[n] = "poll" /\ Socks(n) \in host
    /\ IF qemu[n] = "listening" THEN Goto(n, "ok") /\ Register(Serial[n], n)
                                ELSE Goto(n, "failed") /\ UNCHANGED vms
    /\ Keep /\ UNCHANGED <<named, qemu, setupVars>>

\* The loop that waits for the sockets, and the Dial after it.  When ctx is
\* done the loop returns a nil VM, an empty serial and no error.
pollSockets(n) ==
    /\ pc = "nodes" /\ node[n] = "poll"
    /\ \/ /\ Socks(n) \in host /\ qemu[n] = "listening"
          /\ Goto(n, "ok") /\ Register(Serial[n], n)
       \/ /\ Socks(n) \in host /\ qemu[n] # "listening"
          /\ Goto(n, "failed") /\ UNCHANGED vms
       \/ /\ Socks(n) \notin host /\ cancelled
          /\ Goto(n, "nil") /\ Register(NoSerial, "nil")
       \/ Failures /\ Goto(n, "failed") /\ UNCHANGED vms
    /\ Keep /\ UNCHANGED <<named, qemu, setupVars>>

\* env.Wait: every goroutine is done.  One that was to start after another
\* failed is never started.
SomeFailed == \E n \in Nodes : node[n] = "failed"

waitNodes ==
    /\ pc = "nodes"
    /\ \A n \in Nodes : \/ node[n] \in {"ok", "nil", "failed"}
                        \/ node[n] = "idle" /\ SomeFailed
    /\ pc' = IF SomeFailed THEN "vms" ELSE "netns"
    /\ Keep
    /\ UNCHANGED <<todo, networks, qemu, cancelled, served, ended, nodeVars,
                   serveVars, runVars>>

-----------------------------------------------------------------------------
(* The QEMU processes.                                                     *)

\* QEMU makes its server sockets, replacing what is at their paths.
QEMUListens(n) ==
    /\ qemu[n] = "booting"
    /\ qemu' = [qemu EXCEPT ![n] = "listening"]
    /\ host' = host \cup {Socks(n)} /\ made' = made \cup {Socks(n)}
    /\ UNCHANGED <<met, nodeVars, setupVars>>

\* QEMU ends by itself or is killed because ctx is done; it may have removed
\* its sockets.
QEMUExits(n) ==
    /\ qemu[n] \in {"booting", "listening"}
    /\ qemu' = [qemu EXCEPT ![n] = "exited"]
    /\ Keep \/ (qemu[n] = "listening" /\ Drop({Socks(n)}))
    /\ UNCHANGED <<nodeVars, setupVars>>

-----------------------------------------------------------------------------
(* The serving part of Setup: the goroutines of its second Environment.    *)

\* NewNetNS, the append to c.netNss and env.Go, which starts nothing once the
\* Environment is cancelled.  An error returns with the goroutines running.
NewNetNS(s) ==
    /\ pc = "netns" /\ s \in NetNSs \ netNss
    /\ \/ /\ netNss' = netNss \cup {s}
          /\ netns' = [netns EXCEPT ![s] = IF envCancelled THEN "ended" ELSE "new"]
          /\ UNCHANGED pc
       \/ Failures /\ pc' = "vms" /\ UNCHANGED <<netNss, netns>>
    /\ Keep
    /\ UNCHANGED <<todo, networks, qemu, waits, cancelled, envCancelled, served,
                   ended, nodeVars, runVars>>

mainVars == <<pc, todo, networks, qemu, cancelled, served, ended, nodeVars,
              runVars>>

\* netNS.Setup up to its apps, in its goroutine.  NewNamed fails on a
\* namespace that exists; the calls and scripts after it may fail too.
SetupNetNS(s) ==
    LET old == Garbage({NS(s)})
        new == {NS(s)}
        Fails == netns' = [netns EXCEPT ![s] = "ended"] /\ envCancelled' = TRUE IN
    /\ pc # "off" /\ netns[s] = "new"
    /\ \/ /\ new \cap (host \ old) = {} /\ Make(old, new)
          /\ \/ netns' = [netns EXCEPT ![s] = "up"] /\ UNCHANGED envCancelled
             \/ (Failures \/ cancelled \/ envCancelled) /\ Fails
       \/ new \cap (host \ old) # {} /\ Meet(old, new) /\ Fails
       \/ Failures /\ Drop(old) /\ Fails
    /\ UNCHANGED <<netNss, waits, mainVars>>

\* The apps of a namespace end, by themselves or because a ctx is done.
NetNSEnds(s) ==
    /\ pc # "off" /\ netns[s] = "up"
    /\ netns' = [netns EXCEPT ![s] = "ended"]
    /\ \/ UNCHANGED envCancelled
       \/ (Failures \/ cancelled) /\ envCancelled' = TRUE
    /\ Keep /\ UNCHANGED <<netNss, waits, mainVars>>

\* mutant: the goroutines share the loop variable
waitOneVM ==
    /\ pc = "netns" /\ netNss = NetNSs
    /\ pc' = "listen"
    /\ \E v \in VMs : waits' = {v}
    /\ Keep
    /\ UNCHANGED <<todo, networks, qemu, netns, netNss, cancelled, envCancelled,
                   served, ended, nodeVars, runVars>>

\* env.Go(vm.Wait) for the VMs of c.vms, as long as no goroutine has failed.
waitVMs ==
    /\ pc = "netns" /\ netNss = NetNSs
    /\ pc' = "listen"
    /\ \/ waits' = VMs
       \/ envCancelled /\ waits' \in SUBSET VMs
    /\ Keep
    /\ UNCHANGED <<todo, networks, qemu, netns, netNss, cancelled, envCancelled,
                   served, ended, nodeVars, runVars>>

\* vm.Wait returns with the exit status of QEMU.
VMEnds(n) ==
    /\ pc # "off" /\ n \in waits /\ qemu[n] = "exited"
    /\ waits' = waits \ {n}
    /\ \/ UNCHANGED envCancelled
       \/ (Failures \/ cancelled) /\ envCancelled' = TRUE
    /\ Keep /\ UNCHANGED <<netns, netNss, mainVars>>

\* vm.Wait of a nil VM panics in a goroutine of its own: the process is gone,
\* and no deferred function of Setup runs.
NilVMPanics ==
    /\ pc # "off" /\ "nil" \in waits
    /\ pc' = "off" /\ ended' = "crashed" /\ todo' = <<>>
    /\ Keep
    /\ UNCHANGED <<networks, qemu, cancelled, served, nodeVars, serveVars, runVars>>

\* ListenTCP and apiServer.start, which returns once the server runs.  A failed
\* ListenTCP is only logged, and start panics on the nil listener.
startAPIServer ==
    /\ pc = "listen"
    /\ \/ pc' = "serve" /\ served' = TRUE /\ UNCHANGED ended
       \/ Failures /\ pc' = "vms" /\ ended' = "panicked" /\ UNCHANGED served
    /\ Keep
    /\ UNCHANGED <<todo, networks, qemu, cancelled, nodeVars, serveVars, runVars>>

\* mutant: the namespaces are not in the Environment that is waited for
waitVMsOnly ==
    /\ pc = "serve"
    /\ cancelled \/ envCancelled
    /\ waits = {}
    /\ pc' = "vms"
    /\ Keep
    /\ UNCHANGED <<todo, networks, qemu, cancelled, served, ended, nodeVars,
                   serveVars, runVars>>

\* env.Wait: the BMC server ends when a ctx is done, the other goroutines as
\* above.
waitServers ==
    /\ pc = "serve"
    /\ cancelled \/ envCancelled
    /\ waits = {} /\ \A s \in NetNSs : netns[s] = "ended"
    /\ pc' = "vms"
    /\ Keep
    /\ UNCHANGED <<todo, networks, qemu, cancelled, served, ended, nodeVars,
                   serveVars, runVars>>

\* The deferred loop over c.vms, then c.cleanup, which ends with the same
\* loop.  Each stops with a panic when it comes to a nil VM.
Visited == IF "nil" \in VMs THEN SUBSET (VMs \cap Nodes) ELSE {VMs}

cleanupVMs ==
    /\ pc = "vms"
    /\ \E first \in Visited : \E second \in Visited :
         /\ Drop(UNION {FilesOf(n) : n \in first})
         /\ cleanup(networks, second)
    /\ ended' = IF "nil" \in VMs THEN "panicked" ELSE ended
    /\ UNCHANGED <<networks, qemu, cancelled, served, nodeVars, serveVars, runVars>>

\* Setup has returned, and the process with it.
Return ==
    /\ pc = "cleanup" /\ todo = <<>>
    /\ pc' = "off"
    /\ ended' = IF ended = "panicked" THEN ended ELSE "returned"
    /\ Keep
    /\ UNCHANGED <<todo, networks, qemu, cancelled, served, nodeVars, serveVars,
                   runVars>>

-----------------------------------------------------------------------------
\* SIGINT or SIGTERM: well cancels the context Setup was given.
Signal ==
    /\ pc # "off" /\ ~cancelled
    /\ cancelled' = TRUE
    /\ Keep
    /\ UNCHANGED <<pc, todo, networks, qemu, served, ended, nodeVars, serveVars,
                   runVars>>

\* SIGKILL, or the host goes down: no deferred function runs.
Kill ==
    /\ pc # "off"
    /\ pc' = "off" /\ ended' = "killed" /\ todo' = <<>>
    /\ Keep
    /\ UNCHANGED <<networks, qemu, cancelled, served, nodeVars, serveVars, runVars>>

\* The steps a process takes by itself.
Setup ==
    \/ Removal \/ Forced \/ CreateNatRules \/ PrepareNodes \/ waitNodes
    \/ waitVMs \/ NilVMPanics \/ startAPIServer \/ waitServers \/ cleanupVMs
    \/ Return
    \/ \E n \in Networks : SetupNetwork(n)

NodeSetup(n) ==
    startSWTPM(n) \/ createTaps(n) \/ startQEMU(n) \/ pollSockets(n)

Next ==
    \/ \E f \in BOOLEAN : NewCluster(f)
    \/ Setup
    \/ \E n \in Nodes : NodeSetup(n) \/ QEMUListens(n) \/ QEMUExits(n) \/ VMEnds(n)
    \/ \E s \in NetNSs : NewNetNS(s) \/ SetupNetNS(s) \/ NetNSEnds(s)
    \/ Signal
    \/ Kill

Spec == Init /\ [][Next]_vars

\* The Go scheduler runs every goroutine that can run; a process that ctx
\* covers is killed when ctx is done.
FairSpec ==
    /\ Spec
    /\ WF_vars(Setup)
    /\ \A n \in Nodes :
         /\ WF_vars(NodeSetup(n)) /\ WF_vars(VMEnds(n))
         /\ WF_vars(cancelled /\ QEMUExits(n))
    /\ \A s \in NetNSs :
         /\ WF_vars(NewNetNS(s)) /\ WF_vars(SetupNetNS(s))
         /\ WF_vars((cancelled \/ envCancelled) /\ NetNSEnds(s))

-----------------------------------------------------------------------------
TypeOK ==
    /\ host \subseteq Resource /\ runs \in 0..MaxRuns /\ force \in BOOLEAN
    /\ pc \in PC /\ todo \in Seq(SUBSET Resource) /\ networks \subseteq Networks
    /\ node \in [Nodes -> NodePC] /\ named \subseteq Nodes
    /\ vms \in [Serials -> Nodes \cup {"nil", "none"}]
    /\ qemu \in [Nodes -> QEMUState] /\ netns \in [NetNSs -> NetNSPC]
    /\ netNss \subseteq NetNSs /\ waits \subseteq Nodes \cup {"nil"}
    /\ cancelled \in BOOLEAN /\ envCancelled \in BOOLEAN
    /\ made \subseteq Resource /\ met \subseteq Resource /\ served \in BOOLEAN
    /\ ended \in Ends

\* A process started with --force (README.md: "Remaining garbage, for example
\* virtual networks, mounts, socket files will be removed") never finds, at the
\* moment it makes a chain, a rule, a bridge, a namespace, a tap or a swtpm
\* directory, that it is there already, wherever the processes before it
\* failed, panicked or were killed.
ForceMeetsNoGarbage == force => met = {}

\* CleanupNatRules deletes one jump to each PLACEMAT chain.  No sequence of
\* runs, with and without --force and cut off anywhere, appends a second one.
JumpsAreSingle == met \cap Jumps = {}

\* When the deferred functions of Setup have run, after an error, a signal or
\* a panic of Setup itself, no iptables rule and no bridge this process made
\* is left, at whichever call it stopped.
CleanupRemovesNetworks ==
    ended \in {"returned", "panicked"} /\ pc = "off"
      => made \cap host \cap (Chains \cup Jumps \cup Bridges) = {}

\* A process that served and then returned leaves nothing it made: no rule,
\* bridge, tap, namespace, socket or swtpm directory, whatever its goroutines
\* were doing when it was told to stop or when one of them failed.
ServedLeavesNothing ==
    ended = "returned" /\ served => made \cap host = {}

\* The map by which the API and the BMCs find a VM: while Setup goes on to
\* serve, each node that was set up is in c.vms under the serial of its SMBIOS.
VMUnderItsSerial ==
    pc \in {"netns", "listen", "serve"} =>
        \A n \in Nodes : node[n] = "ok" => vms[Serial[n]] = n

\* Only a listed VM is waited for before Setup returns: a served process that
\* returns with no failed goroutine has seen the QEMU of each node exit.
NoQEMUOutlives ==
    ended = "returned" /\ served /\ ~envCancelled =>
        \A n \in Nodes : qemu[n] = "exited"

\* "To destroy, just kill the process (by sending a signal or Control-C)"
\* (README.md): a signalled process takes everything down, it does not panic.
SignalNeverPanics == cancelled => ended \notin {"panicked", "crashed"}

\* A process that got a signal comes to its end, whatever it was waiting for.
SignalEnds == cancelled ~> pc = "off"

=============================================================================
