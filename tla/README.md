# A verification project for placemat

placemat builds a virtual data center from YAML files: QEMU virtual machines,
Linux bridges, network namespaces and NAT rules, with a virtual BMC (IPMI and
Redfish) for every node and an HTTP API that `pmctl2` talks to. This directory
holds TLA+ models of its concurrent and failure-prone parts (`src/v2`), TLC
configurations that check them on small instances, and proofs checked by TLAPS.
`PROJECT.json` maps each definition to its source lines and lists the runs,
the mutants, the hazards and the findings.

## The system

| part | state | operations | hard behaviour |
|---|---|---|---|
| `vm/node.go` power calls | one QMP connection per call | PowerStatus, PowerOn, PowerOff | responses are counted, not matched; events arrive in between; QEMU serves one client at a time; 5 s deadline |
| `placemat/server.go`, `virtualbmc/ipmi_chassis.go`, `redfish_system.go`, `redfish_chassis.go` | none | power requests of three front ends | check, then act, on different connections; one call of several fails |
| `virtualbmc/rmcp*.go`, `ipmi_session.go` | session table by ID | Open Session, RAKP 1-4, encrypted commands, commands without a session | UDP loses, repeats and reorders; IDs are reused; restarts |
| `placemat/cluster.go`, `cmd/placemat2/sub/run.go` | networks, nodes, namespaces, `vms` | Setup, deferred cleanup | goroutines, errors and signals at any step, crash and restart with or without `--force` |
| `vm/node.go` Setup, `vm/tap.go`, `vm/runtime.go` | sockets, swtpm directory, taps | Setup, Cleanup, CleanupGarbage | a wait for QEMU that a signal interrupts |
| `dcnet` | iptables chains and jumps, bridges, namespaces | Setup, Cleanup | partial failure, garbage of an earlier process |
| `vm/bmc.go`, `virtualbmc/bmc_server.go` | channel of BMC addresses, sockets | Start, guest connection, the two servers | listener failures, lookup of the VM, a full channel |
| `vm/volume.go`, `image.go`, `util/cache.go`, `compress.go` | files | prepare, create, Put | nodes in parallel, crash and restart, files that were cut off are reused |
| `types`, constructors of `vm` and `dcnet` | none | validate, Parse, NewNode, NewNetwork | what one accepts another must be able to use |
| `pmctl2` | systemd units | forward add, delete, list, node actions | none of its own |

The three front ends call the power functions of one VM at the same time. The
IPMI front end is reached through an RMCP+ session, and without one: handleIPMI
runs any command that comes in the IPMI v1.5 format with authentication type
none, Chassis Control and the Close Session of any session included.
cluster.Setup starts all of them, and `c.vms` is how they find their VM. The BMCs
begin to serve when a guest announces its address; the volumes of a node are made
before its QEMU is started, from a definition that Parse has accepted.

## Modules

**PowerControl** models the power requests of one VM. A request is a handler
and an operation; `Handlers` gives the sequence of Machine calls each makes,
`Script` the reads and writes of each call. Per goroutine the state is its
request, the calls left, the position in the script, its connection and its
unread lines. `Receive`, `Dial`, `DialRefused`, `WriteCommand`, `Read`,
`Return` and `Fail` are the steps of the code; `Fail` is the deadline (or the
end of QEMU) and may come at any step, since the model has no clock. A line is
read for what it is used for: `ParseStatus` yields Off for every line that does
not say `running: true`, as `json.Unmarshal` does. QEMU (`Accept`, `Execute`,
`Hangup`, `GuestEvent`, `Exit`) is external; it runs commands written before
the client hung up. `seen` and `done` are history variables.

**PowerSwitch** is the abstract specification: each call acts in one step
between its beginning and its return; a failed call may still act later.

**RMCPPlus** models StartIPMIServer's loop, one action per message type, and
the remote console as an external actor. A hash is the tuple of its inputs.
The network is a set of datagrams: with `Reliable = FALSE` nothing is ever
taken out of it, which covers loss, repetition and reordering. A console asks
commands of `Asked` in its session (`SendCommand`), and of `AskedPlain` in the
v1.5 format outside of any (`SendPlain`); `handle` is what IPMI.Handle makes of
either. What a command does to the VM is PowerControl's; here it has its effect
on the sessions and the length of its response, since encryptByCBCMode has room
for one block only and panics on more.

**Cluster** models one placemat process after another on one host. `host` is
the set of resources that exist; `pc` is where Setup stands, `node[n]` and
`netns[s]` where its goroutines stand. A call that makes several things and can
fail between them has a disjunct for each outcome. The deferred loop over
`c.vms` and `c.cleanup` are modelled call by call; a nil VM stops the loops
with a panic.

**Resources** holds what Parse accepts and what the constructors make of an
accepted definition, as operators over documents (records of the YAML fields).
`validate` of each kind keeps its name; `NodeSpec_validated` is the node after
validate has changed it, which for the volumes it does only on copies.

**Volumes** models the files that outlive a process. A process parses a
definition, makes the networks, makes and prepares one node after another
(`MakeNode`, `prepare`, `Put`), sets the nodes up in parallel (`stat`, `create`,
`finish`, `fail`, `startQEMU`, one goroutine per node), serves, and ends; the
next one finds the disk as it was left. A file is partial from its creation to
its last byte; its data say how it was made and from what. Its path names the
directory, the node and the volume; the NVRAM of a node has a directory of its
own, so its path is never that of a volume. A file made by a
command cannot be begun once the context is done; a copy can, as the code does
not look at the context. A goroutine that waits for the socket of swtpm or QEMU
(`await`), and a download (`Put`), may wait for ever; a signal ends both waits
(`giveUp`, and the context of the request). A wait for QEMU that a signal ends
leaves a nil VM, on which the process panics (`waitNodes`), as it does when a
namespace has an interface that is null (`StartNetNSs`) and when a node names a
link that is not a bridge (`createTaps`). `Kill` is SIGKILL: what was written
stays.

**ImageCache** is what the cache promises: an entry appears whole, in one step,
and never changes.

**BMCServer** models a guest's line on its way through `nodeCh` to the servers:
`handle` in the goroutine of the connection, `StartIPMI` and `StartRedfish` in
Start, and `Serve`, `Break` and `Close` in the goroutines of the servers. A
socket that cannot be opened is only logged; its server is started on nil and
fails, which cancels the environment of all of them. Sockets are modelled as
the net package opens them: an address that does not resolve gives some port of
all addresses, an empty one the protocol's port of all addresses.

**MCPowerControl, MCRMCPPlus, MCCluster, MCVolumes, MCBMCServer** give the
constants their values.

**PowerControlProofs, PowerQuietProofs, RMCPPlusProofs, ClusterLemmas,
ClusterProofs, VolumesLemmas, VolumesProofs, BMCServerProofs** hold the theorems.

## Runs

| run | instance | shows |
|---|---|---|
| power_quiet | API and Redfish, no guest events | TypeOK, OffWasStopped, SuccessMadeTheChange, RefusalTouchedNothing, RestartStopsFirst, PowerUpResetsNoRunningGuest, and that PowerControl implements PowerSwitch |
| power_events | IPMI and Redfish, guest events while fewer than two lines are unread | OnWasRunning, RefusalTouchedNothing, Answered |
| rmcp_sessions | two right passwords, one ID that is drawn again and one that is not, Close Session in and outside of sessions, a restart | TypeOK, KeyAgreement, ClosedIsSilent, ActiveIsServed, FewPanics |
| rmcp_reliable | right password, wrong password, unknown user; every datagram arrives once, in any order | KeyNeedsPassword, Completes |
| cluster_runs | two nodes, one with TPM, a bridge, a namespace, two processes | TypeOK, ForceMeetsNoGarbage, JumpsAreSingle, CleanupRemovesNetworks, ServedLeavesNothing, VMUnderItsSerial, NoQEMUOutlives, SignalEnds |
| volumes | 126 definitions of up to two nodes and two volumes, three processes | TypeOK, IncompleteIsCutOff, RunsOnWholeFiles, FilesAreAsDefined, ArgumentsAreKnown, ImplementsCache, KeepsGuestData, KnownPanics, ServesOrEnds |
| bmc_server | two guests, two addresses in range, one out of range, an empty line and garbage | TypeOK, NeverBlocks, MachineIsThere, ServesItsNode, AnnouncedIsServed, Returns |

In power_quiet the Redfish front end offers one of each group of requests that
make the same calls and get the same answers.

Five runs show a property that a document, a comment or a message states and
the code does not keep: power_false_off, rmcp_capabilities, cluster_no_serial,
cluster_signal_panics and volumes_cut_off. The findings in `PROJECT.json`
quote the statement and describe the counterexample. The cause of
power_false_off has a second effect that has no run of its own: with guest
events a stop of a stopped VM can succeed although it changed nothing
(SuccessMadeTheChange, which power_quiet checks without events).

What holds only with a side condition is stated with it.
PowerUpResetsNoRunningGuest is about a front end that has the VM to itself: two
front ends can both read Off and both reset. ActiveIsServed is about sessions
that nobody has asked to close: any console may close any session, also without
one of its own. FewPanics excepts two cases. One is the finding of
rmcp_capabilities. The other needs the BMC, which draws 32-bit IDs at random, to
draw the ID of a closed session again: an old encrypted datagram can then meet a
session without a key. KnownPanics excepts the interfaces that are null or name
no bridge, which Parse lets pass, and the nil VM of cluster_signal_panics.
ServesOrEnds excepts a process that waits for a download or for a socket and
was sent no signal. RunsOnWholeFiles and KeepsGuestData are about nodes with
names of their own, FilesAreAsDefined also about images with URLs and volumes
with paths of their own: Parse checks none of these, and the instance has
definitions that break them. The cache knows an image by its URL only, so that
two images with one URL and different compression get the same data.
FilesAreAsDefined says nothing about the format of a localds volume without a
network config, which is cloud-localds' default.
RunsOnWholeFiles excepts files whose making was once cut off: that such a file
is used is the finding of volumes_cut_off. ServesItsNode is about serials of
their own, for the same reason as cluster_no_serial.

Bounds. Two goroutines are enough for a check and an action to be separated by
another front end. `MaxLines` bounds the unread lines up to which the guest
adds events; two is enough to replace a response and the event after it. Two
consoles and reusable IDs give an old datagram a new session to meet, and
`MaxDraws` allows a RAKP message 1 to be handled again. In rmcp_sessions the
consoles ask the command with the longest response and the one that closes
sessions; rmcp_reliable has the others, and TLC also finishes rmcp_sessions with
SetSessionPrivilege (1.2 million states, three minutes). In cluster_runs two
processes let each find what the other left; TLC also finishes with three
(2.9 million states, seven minutes). In volumes three processes allow a crash, a
process that uses what was left, and one that finds what the guest wrote. Two
guests are enough for an announcement to overtake the setup of another node and
for two servers to want one address.

Fairness. PowerControl assumes that goroutines run and that deadlines pass
(SetDeadline is called on every connection). RMCPPlus assumes for Completes
that the server handles what arrives and the console closes its session at last,
whatever it asks before.
Cluster assumes that goroutines run and that a child of a context that is done
is killed (well.CommandContext). Volumes assumes that the process, its
goroutines and its commands go on; a download is only assumed to end once the
context is done, and a socket need never appear. BMCServer assumes that its
goroutines go on and that select takes the end of the context at last, since a
guest announces once.
Nothing is assumed about QEMU's answers or about the guest.

Deadlock is not checked for RMCPPlus, Cluster, Volumes and BMCServer: consoles
finish, the bounded number of processes ends, and Start returns.

## Proofs

`PowerControlProofs` proves for every set of goroutines, every assignment of
requests and every `MaxLines`:

- **TypeCorrect**: `Spec => []TypeOK`. TypeOK alone is not inductive: that
  `step` is a position of the script of the current call needs `CallInv`, which
  ties `req`, `todo`, `conn` and `step` together.
- **OnIsTrue**: `Spec => []OnWasRunning`. The invariant says that a line
  `running` on its way to a caller, and a status On it has made of one, imply
  that the VM was running since the caller's call began (`OnOf`, `OnInv`); it
  needs `ServedInv`, that lines and a served connection belong to a call.
- **RefusalIsHarmless**: `Spec => []RefusalTouchedNothing`. A request can only
  be refused while its first call is under way, and until that call is over
  only the two harmless commands were written or run (`AtStatus`,
  `RefusalInv`).

`PowerQuietProofs` proves the rest of power_quiet for every set of goroutines and
every assignment of requests, under the hypothesis `MaxLines = 0`: the guest is
quiet, and QEMU sends no line that a command did not cause. The hypothesis is
needed, since PowerStatus, PowerOn and PowerOff count lines and match none to a
command: with `MaxLines = 2` TLC finds a counterexample to each of the five
(power_false_off is the one that contradicts a document).

- **SuccessIsOwn** (SuccessMadeTheChange) and **RestartOrder** (RestartStopsFirst).
  `QuietInv` lists the positions a served connection can be in: the step of the
  script, the lines that are unread, the one command that is unrun (`Position`).
  An event is on its way only behind a command that changed the run state, so a
  call that reads its last line has made the change. It also says that the
  decisive command of a call that has still to act has not run, and that it runs
  once in a request (`FreshOf`, `OnceOf`). `MadeInv` carries this over the calls
  of a request to its answer.
- **OffIsTrue** (OffWasStopped). `OffInv` says that the states in which a call's
  query ran are states seen since the call began.
- **PowerUpIsSafe** (PowerUpResetsNoRunningGuest). `AloneInv` says that from the
  line "not running" until the reset the VM does not run, and that no command is
  left in QEMU that could start it (`HeldOff`).
- **CallsAreAtomic**: `Spec => ImplementsSwitch`. The mapping takes a call to
  "pending" while its connection is open, with the run state its decisive command
  has met, and a decisive command without a client to the stray act of the switch.
  Dial is Begin, the run of a decisive command is Act, or the stray act when its
  caller is gone, and every step between them is a stutter. That a command is run
  at most once, by the call that wrote it, comes from `QuietInv`.

TLC has checked `QuietInv`, `MadeInv`, `OffInv` and `AloneInv` on the instance of
power_quiet.

`RMCPPlusProofs` proves for any consoles, IDs, draws and restarts, on a reliable
network or not: **TypeCorrect**, **PasswordNeeded** (KeyNeedsPassword),
**KeysAgree** (KeyAgreement), **ClosedStaysSilent** (ClosedIsSilent) and
**PanicsAreFew** (FewPanics), and on an unreliable one **ActiveServed**
(ActiveIsServed): there what was asked can still be read off the network. The
commands that consoles ask, in a session and outside of any, are constants
(`Asked`, `AskedPlain`), so that the theorems are about all of them. The
argument rests on the random number that the BMC draws for every RAKP message 1:
it is drawn once, so it ties a session, a RAKP message 2 and the console that
accepted it together (`SessionOK`, `PacketOK`). A code that validates is the one
its console made (`ValidIsOwn`), since codes are injective in what they are made
of. After a session is closed no session has its number again (`Spent`). `Inv2`
adds that the session of an active console lasts.

`ClusterLemmas` and `ClusterProofs` prove for any nodes, networks, namespaces and
number of processes every safety property of cluster_runs:

- **TypeCorrect**: `Spec => []TypeOK`, with `TypeInv`.
- **NoSecondJump** (JumpsAreSingle). A jump is never on the host without the
  filter chain of its protocol: CreateNatRules makes the chain first, with a call
  that fails when it exists, and CleanupNatRules removes it after the jumps, so
  that a process cut off anywhere leaves the chain to stop the next one
  (`JumpInv`). The orders are stated about the sequences of calls (`Before`,
  `Once`).
- **ForceFindsNothing** (ForceMeetsNoGarbage). What `--force` has still to remove
  covers the rules that are left, and a tap is made under a name of its own run
  (`ForceInv`, `TapsInv`).
- **NetworksCleanedUp** (CleanupRemovesNetworks). A bridge is made only once its
  network is in `c.networks`, and during the cleanup what is left of the
  process's rules and bridges is in the rest of the list (`CleanInv`).
- **EachVMUnderItsSerial**, **ServedRemovesAll**, **ServedWaitsForAll**
  (VMUnderItsSerial, ServedLeavesNothing, NoQEMUOutlives), under `OwnSerials`:
  each node has a serial, and no other node has it. `ServedInv` says what `c.vms`
  holds (`VMInv`), which goroutines have ended in which phase (`PhaseInv`), that
  every tap and namespace made is in a list cleanup goes by (`MadeInv`), who is
  waited for (`WaitInv`), and that the cleanup of a served process covers all it
  made (`DoneInv`). Without `OwnSerials` the first fails: cluster_no_serial.

TLC has checked `TypeInv`, `NatInv`, `ForceInv`, `CleanInv` and `ServedInv` on the
instance of cluster_runs.

`VolumesLemmas` and `VolumesProofs` prove for any set of definitions and any
number of processes: **TypeCorrect**, **IncompleteIsKnown**
(IncompleteIsCutOff), **StartsOnWholeFiles** (RunsOnWholeFiles),
**ArgumentsKnown** (ArgumentsAreKnown), **PanicsAreKnown** (KnownPanics),
**GuestDataKept** (KeepsGuestData), **CacheImplemented** (ImplementsCache) and
**RunsOnWhatIsDefined** (FilesAreAsDefined). The invariant says where each
goroutine is in its list of files (`Shape`), that each partial file is one that
a goroutine is making or one in `torn` (`Files`, `Temps`), and, where node names
differ, that no two goroutines have the same path, so that what one has passed
stays whole (`Own`). That an accepted definition has no other cause of a panic
than those two kinds of interfaces comes from lemmas that compare validate with
what the constructors need.

RunsOnWhatIsDefined needs a second invariant, `Defined`, about what the files
hold: the nodes are those NewNode makes of the definition, each entry of the cache
is the download of an image that the definition has, and each whole file holds
what some node of the definition makes under that path (`AsMade`). With names,
paths and URLs of their own that node, volume and image are the ones of the
reader. TLC has checked `Defined` on the instance of volumes.

`BMCServerProofs` proves for any nodes, serials, ranges and lines: **TypeCorrect**,
**AnnouncingNeverBlocks** (NeverBlocks), **MachineFound** (MachineIsThere) and
**OwnMachineServed** (ServesItsNode). NeverBlocks is a counting argument: what is
in `nodeCh` was announced by nodes that have sent, each once, so a node that has
not leaves room. MachineFound needs that Start begins after every node is in
`c.vms`, from which nothing is removed.

The assumptions are `PowerAssumption`, `RMCPAssumption`, `ClusterAssumption`,
`VolumesAssumption` and `BMCAssumption`, which TLC evaluates on every run of their
modules; `VolumesAssumption` says of a definition only that its documents are
numbered, and that those of nodes have the fields of a NodeSpec and a sequence of
volumes. Every invariant, action property
and refinement of a passing run is proved. Only model-checked are the liveness
properties (Answered, Completes, SignalEnds, ServesOrEnds, AnnouncedIsServed,
Returns), which are outside what the prover can show.

## Assumptions and what is not modelled

- A QEMU or app left over by a killed placemat is gone before the next start.
- Removals from the host succeed; creations and commands may fail.
- A node has one interface; networks and namespaces are set up in any order.
- Hashes do not collide, and noise is not mistaken for a valid message.
- A child command of a killed process (`cp`, `qemu-img`) ends with it.
- createNVRAM takes every error of its stat but "does not exist" for a file that
  is there; that error is left out.
- A loss of power is left out: no file is synced, so one that was whole may lack
  data after it.
- A list of apps with a null in it panics in Parse, before anything is made, and
  is left out. An interface that names no link at all is an error like any other.
- The definition is not edited between the processes of one behaviour.
- Log output and its coloured writer, constant documents, byte layouts and
  checksums of IPMI messages, the addresses and MTUs of links, TLS, YAML and the
  QEMU arguments other than those of volumes are left out: they are text, or
  constants, and no state depends on them.
- pmctl2 asks the API, which PowerControl models, or runs one `systemd-run` or
  `systemctl` command for a port forward, whose state is systemd's.
- Datagrams are well formed. What handlers make of length fields that do not fit
  (rmcp_plus.go:319 and 666 slice by them) needs the byte layout.
- The tail of an earlier datagram in the buffer of StartIPMIServer needs the byte
  layout, which RMCPPlus abstracts.
