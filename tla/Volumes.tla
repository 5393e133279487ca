------------------------------- MODULE Volumes -------------------------------
(***************************************************************************)
(* The files that placemat keeps between its runs: downloaded images, the  *)
(* volumes of the nodes and their NVRAM.                                   *)
(*                                                                         *)
(* A process parses the definition, makes the networks, and then one node  *)
(* after another, downloading the images of its volumes into the cache.    *)
(* The nodes then make their volumes in parallel, one goroutine each,      *)
(* start QEMU on them and wait for its sockets.  A file that exists is     *)
(* taken as it is.  Every call may fail, a signal may cancel the context   *)
(* and the process may be killed between any two steps; the next one meets *)
(* the files left on the disk.  What the process waits for may never come: *)
(* the server of an image may stall, and QEMU end before it listens.       *)
(*                                                                         *)
(* A file is partial from its creation to its last byte.  Its data are a   *)
(* triple: how they were made, and from what.                              *)
(***************************************************************************)
EXTENDS Resources

CONSTANTS
  Definitions,   \* the definitions to choose from: sequences of documents
  MaxRuns        \* how many processes may run one after the other

ASSUME VolumesAssumption ==
  /\ MaxRuns \in Nat
  /\ \A d \in Definitions : DOMAIN d \subseteq Nat
  /\ \A d \in Definitions : \A i \in OfKind(d, "Node") :
       /\ {"name", "volumes", "interfaces", "cpu", "smp", "uefi", "tpm"} \subseteq DOMAIN d[i]
       /\ Len(d[i].volumes) \in Nat
       /\ d[i].volumes = [j \in 1..Len(d[i].volumes) |-> d[i].volumes[j]]

VARIABLES
  docs,       \* the definition
  pc,         \* where the process is in cluster.Setup, "down" when there is none
  nodes,      \* c.nodes, by the places of their documents
  last,       \* the place of the node that was made last
  vol,        \* the volume of the last node that is prepared next
  getting,    \* the URL that is being downloaded, or ""
  cache,      \* cache[url]: the entry of the image cache
  temps,      \* the URLs of downloads whose temporary file is on the disk
  file,       \* file[path]: a volume or NVRAM file
  node,       \* node[i]: the goroutine that runs Setup of the i-th node
  cancelled,  \* is the context done?
  panicked,   \* has the last process panicked?
  \* What bounds the model and what the properties observe:
  torn,       \* the files whose making was cut off
  runs        \* how many processes were started

disk == <<cache, temps, file, torn>>
vars == <<docs, pc, nodes, last, vol, getting, disk, node, cancelled, panicked, runs>>

With(f, x, y) == [z \in DOMAIN f \cup {x} |-> IF z = x THEN y ELSE f[z]]

-----------------------------------------------------------------------------
(* The files of a node.                                                    *)

NVRAM == [kind |-> "nvram", name |-> "", dir |-> "", image |-> NoImage, cow |-> FALSE,
          netConfig |-> FALSE, cache |-> "", format |-> "raw"]

\* What Setup of a node makes, in its order.
Work(n) == IF n.uefi THEN Append(n.volumes, NVRAM) ELSE n.volumes

\* Mutant: the directory is not the node's own.
PathOfAny(n, v) ==
  IF v.kind = "nvram" THEN <<"nvram", n.name>>
                      ELSE <<IF v.dir = "" THEN "data" ELSE v.dir, "", v.name>>

\* volumePath and makeVolumeDir, or nvramPath.
PathOf(n, v) ==
  IF v.kind = "nvram" THEN <<"nvram", n.name>>
                      ELSE <<IF v.dir = "" THEN "data" ELSE v.dir, n.name, v.name>>

\* Made by a child process, which is killed when the context is done.
ByCommand(v) == v.kind # "image" \/ v.cow

\* Mutant: a local file is copied as it is.
DataAsIs(v) ==
  CASE v.kind = "image" /\ ~v.cow /\ v.image.file # "" -> <<"copy", v.image.file, "">>
    [] v.kind = "image" /\ ~v.cow /\ v.image.file = "" -> <<"copy">> \o cache[v.image.url]
    [] OTHER -> <<v.kind, v.format, "">>

\* What the file holds once it is made.  The copy of a downloaded image is a
\* copy of the cache's entry, and one of a local file is decompressed on the way.
\* cloud-localds is told a format only with a network configuration.
Data(v) ==
  CASE v.kind = "image" /\ v.cow /\ v.image.file # ""  -> <<"cow", "file", v.image.file>>
    [] v.kind = "image" /\ v.cow /\ v.image.file = ""  -> <<"cow", "cache", v.image.url>>
    [] v.kind = "image" /\ ~v.cow /\ v.image.file # "" -> <<"copy", v.image.file, v.image.decomp>>
    [] v.kind = "image" /\ ~v.cow /\ v.image.file = "" -> <<"copy">> \o cache[v.image.url]
    [] v.kind = "localds" -> <<"localds", IF v.netConfig THEN "qcow2" ELSE "default", "">>
    [] OTHER              -> <<v.kind, v.format, "">>

Partial == [state |-> "partial", data |-> <<>>, written |-> FALSE]

-----------------------------------------------------------------------------
Init ==
  /\ docs \in Definitions
  /\ pc = "down"
  /\ nodes = <<>>
  /\ last = 0
  /\ vol = 1
  /\ getting = ""
  /\ cache = <<>>
  /\ temps = {}
  /\ file = <<>>
  /\ node = <<>>
  /\ cancelled = FALSE
  /\ panicked = FALSE
  /\ torn = {}
  /\ runs = 0

\* A definition that Parse refuses starts nothing.
run ==
  /\ pc = "down"
  /\ runs < MaxRuns
  /\ ~ParseFails(docs)
  /\ pc' = "networks"
  /\ nodes' = <<>>
  /\ last' = 0
  /\ vol' = 1
  /\ cancelled' = FALSE
  /\ panicked' = FALSE
  /\ runs' = runs + 1
  /\ UNCHANGED <<docs, getting, disk, node>>

\* The file that Setup of the i-th node is at.
Current(i) == Work(nodes[i])[node[i].at]

Target(i) == PathOf(nodes[i], Current(i))

Making == {i \in DOMAIN node : node[i].step = "making"}

\* Mutant: the goroutines of the nodes stay.
EndOfMain ==
  /\ pc' = "down"
  /\ getting' = ""
  /\ UNCHANGED <<docs, nodes, last, vol, cache, file, node, cancelled, runs>>

\* The process ends; its goroutines and QEMU processes end with it.
End ==
  /\ pc' = "down"
  /\ node' = <<>>
  /\ getting' = ""
  /\ UNCHANGED <<docs, nodes, last, vol, cache, file, cancelled, runs>>

Return == End /\ UNCHANGED <<temps, torn, panicked>>

\* The process dies in the middle of what it is doing: what it is writing stays
\* as it is.
Die ==
  /\ torn' = torn \cup {Target(i) : i \in Making}
                  \cup (IF getting = "" THEN {} ELSE {<<"temp", getting>>})
  /\ End
  /\ UNCHANGED temps

\* A panic of any goroutine is the end of all.
Panic == Die /\ panicked' = TRUE

\* One network after the other, until one fails.
SetupNetworks ==
  /\ pc = "networks"
  /\ \/ /\ \E i \in OfKind(docs, "Network") : NetworkSetupPanics(docs[i])
        /\ Panic
     \/ Return
     \/ /\ \A i \in OfKind(docs, "Network") : ~NewNetworkFails(docs[i]) /\ ~NetworkSetupPanics(docs[i])
        /\ pc' = "prepare"
        /\ UNCHANGED <<docs, nodes, last, vol, getting, disk, node, cancelled, panicked, runs>>

\* The nodes that are not made yet.
Left == OfKind(docs, "Node") \ DOMAIN nodes

Last == nodes[last]

Prepared == last # 0 => vol \notin DOMAIN Last.volumes

\* The next node of the definition; newTap may fail too.
MakeNode ==
  /\ pc = "prepare" /\ getting = "" /\ Prepared
  /\ \E i \in Left :
       /\ \A j \in Left : i <= j
       /\ LET s == NodeSpec_validated(docs[i])
              n == NewNode(s, docs)
          IN  IF NewNodePanics(s)
                THEN Panic
                ELSE \/ Return
                     \/ /\ n # Failed
                        /\ nodes' = With(nodes, i, n)
                        /\ last' = i
                        /\ vol' = 1
                        /\ UNCHANGED <<docs, pc, getting, disk, node, cancelled, panicked, runs>>

\* Images of local files, and volumes of other kinds, need no preparation, nor
\* does an image that the cache contains, however it was decompressed.
Contains(url) == url \in DOMAIN cache

prepare ==
  /\ pc = "prepare" /\ getting = "" /\ ~Prepared
  /\ LET image == Last.volumes[vol].image IN
       IF image.url = "" \/ Contains(image.url)
         THEN /\ vol' = vol + 1
              /\ UNCHANGED <<docs, pc, nodes, last, getting, disk, node, cancelled, panicked, runs>>
         ELSE \/ Return
              \/ /\ ~cancelled
                 /\ getting' = image.url
                 /\ temps' = temps \cup {image.url}
                 /\ UNCHANGED <<docs, pc, nodes, last, vol, cache, file, torn, node, cancelled,
                                panicked, runs>>

\* Mutant: the download is written under its final name.
PutInPlace ==
  /\ pc = "prepare" /\ getting # ""
  /\ \/ /\ temps' = temps \ {getting}
        /\ End
        /\ UNCHANGED <<torn, panicked>>
     \/ /\ getting \notin DOMAIN cache
        /\ cache' = With(cache, getting, <<getting, "cut">>)
        /\ UNCHANGED <<docs, pc, nodes, last, vol, getting, temps, file, torn, node, cancelled,
                       panicked, runs>>
     \/ /\ getting \in DOMAIN cache
        /\ cache' = With(cache, getting, <<getting, Last.volumes[vol].image.decomp>>)
        /\ temps' = temps \ {getting}
        /\ getting' = ""
        /\ vol' = vol + 1
        /\ UNCHANGED <<docs, pc, nodes, last, file, torn, node, cancelled, panicked, runs>>

\* Mutant: the temporary file is removed only if all went well.
PutKeepsTemp ==
  /\ pc = "prepare" /\ getting # ""
  /\ \/ End /\ UNCHANGED <<temps, torn, panicked>>
     \/ /\ cache' = With(cache, getting, <<getting, Last.volumes[vol].image.decomp>>)
        /\ temps' = temps \ {getting}
        /\ getting' = ""
        /\ vol' = vol + 1
        /\ UNCHANGED <<docs, pc, nodes, last, file, torn, node, cancelled, panicked, runs>>

\* The temporary file is removed, or renamed once it is whole.  How long the
\* server takes is bounded only by the context.
Put ==
  /\ pc = "prepare" /\ getting # ""
  /\ temps' = temps \ {getting}
  /\ \/ End /\ UNCHANGED <<torn, panicked>>
     \/ /\ cache' = With(cache, getting, <<getting, Last.volumes[vol].image.decomp>>)
        /\ getting' = ""
        /\ vol' = vol + 1
        /\ UNCHANGED <<docs, pc, nodes, last, file, torn, node, cancelled, panicked, runs>>

StartNodes ==
  /\ pc = "prepare" /\ getting = "" /\ Prepared
  /\ Left = {}
  /\ pc' = "setup"
  /\ node' = [i \in DOMAIN nodes |-> [step |-> IF nodes[i].tpm THEN "swtpm" ELSE "stat", at |-> 1]]
  /\ UNCHANGED <<docs, nodes, last, vol, getting, disk, cancelled, panicked, runs>>

-----------------------------------------------------------------------------
(* Setup of the i-th node.                                                 *)

\* Goroutine i goes on to the next file, and nothing but the disk changes.
Advance(i) ==
  /\ node' = [node EXCEPT ![i] = [step |-> "stat", at |-> node[i].at + 1]]
  /\ UNCHANGED <<docs, pc, nodes, last, vol, getting, cache, temps, torn, cancelled, panicked, runs>>

Enter(i, step) ==
  /\ node' = [node EXCEPT ![i].step = step]
  /\ UNCHANGED <<docs, pc, nodes, last, vol, getting, cache, temps, cancelled, panicked, runs>>

\* The taps are made after the volumes; tap.create takes the link that an
\* interface names for a bridge.
TapsPanic(i) ==
  /\ node[i].step = "stat" /\ node[i].at = Len(nodes[i].volumes) + 1
  /\ createPanics(nodes[i])

createTaps(i) == TapsPanic(i) /\ Panic

AtFile(i) == node[i].step = "stat" /\ node[i].at \in DOMAIN Work(nodes[i]) /\ ~TapsPanic(i)

\* Mutant: what exists is not looked at.
statNothing(i) ==
  /\ AtFile(i)
  /\ IF Current(i).kind = "hostPath"
       THEN Advance(i) /\ UNCHANGED file
       ELSE Enter(i, "absent") /\ UNCHANGED <<file, torn>>

\* A shared directory is made if it is not there; a file that exists is taken
\* as it is.
stat(i) ==
  /\ AtFile(i)
  /\ IF Current(i).kind = "hostPath" \/ Target(i) \in DOMAIN file
       THEN Advance(i) /\ UNCHANGED file
       ELSE Enter(i, "absent") /\ UNCHANGED <<file, torn>>

\* The file begins to be made.  No command is started once the context is
\* done, and nothing can be made of an image that is not there.
create(i) ==
  /\ node[i].step = "absent"
  /\ cancelled => ~ByCommand(Current(i))
  /\ Current(i).image.url # "" => Contains(Current(i).image.url)
  /\ file' = With(file, Target(i), Partial)
  /\ Enter(i, "making")
  /\ UNCHANGED torn

finish(i) ==
  /\ node[i].step = "making"
  /\ file' = With(file, Target(i), [Partial EXCEPT !.state = "whole", !.data = Data(Current(i))])
  /\ Advance(i)

\* A call of Setup fails, or the command that makes the file does or is killed:
\* what it has made of the file stays.
fail(i) ==
  /\ node[i].step \in {"stat", "absent", "making"}
  /\ torn' = IF node[i].step = "making" THEN torn \cup {Target(i)} ELSE torn
  /\ Enter(i, "failed")
  /\ UNCHANGED file

startQEMU(i) ==
  /\ node[i].step = "stat" /\ node[i].at \notin DOMAIN Work(nodes[i]) /\ ~TapsPanic(i)
  /\ ~cancelled
  /\ Enter(i, "polling")
  /\ UNCHANGED <<file, torn>>

\* The sockets are there, those of swtpm before the volumes are made and those
\* of QEMU after it was started, or looking for or dialling them has failed.
\* Nobody tells the goroutine that waits for them when swtpm or QEMU has ended.
await(i) ==
  /\ node[i].step \in {"swtpm", "polling"}
  /\ \/ Enter(i, IF node[i].step = "swtpm" THEN "stat" ELSE "running")
     \/ Enter(i, "failed")
  /\ UNCHANGED <<file, torn>>

\* When the context is done the wait is over, without an error and, in the case
\* of QEMU, with no VM.
giveUp(i) ==
  /\ node[i].step \in {"swtpm", "polling"} /\ cancelled
  /\ Enter(i, IF node[i].step = "swtpm" THEN "stat" ELSE "nil")
  /\ UNCHANGED <<file, torn>>

\* What the goroutine does by itself.
OwnStep(i) == stat(i) \/ create(i) \/ finish(i) \/ fail(i) \/ startQEMU(i) \/ giveUp(i)

NodeStep(i) == OwnStep(i) \/ await(i)

\* QEMU of the i-th node was started on its files.
Started(i) == node[i].step \in {"polling", "running"}

\* The files QEMU of the i-th node was given.
Given(i) ==
  {PathOf(nodes[i], Work(nodes[i])[j]) :
     j \in {k \in DOMAIN Work(nodes[i]) : Work(nodes[i])[k].kind # "hostPath"}}

\* The guest writes to a disk (external).
GuestWrites(i) ==
  /\ Started(i)
  /\ \E p \in Given(i) :
       /\ ~file[p].written
       /\ file' = With(file, p, [state |-> file[p].state, data |-> file[p].data, written |-> TRUE])
  /\ UNCHANGED <<docs, pc, nodes, last, vol, getting, cache, temps, torn, node, cancelled,
                 panicked, runs>>

-----------------------------------------------------------------------------
\* NewNetNS and Setup of the namespaces; NewNetNS may fail too.
StartNetNSs ==
  \/ /\ \E i \in OfKind(docs, "NetworkNamespace") : NewNetNSPanics(docs[i]) \/ NetNSSetupPanics(docs[i])
     /\ Panic
  \/ OfKind(docs, "NetworkNamespace") # {} /\ Return
  \/ /\ \A i \in OfKind(docs, "NetworkNamespace") : ~NewNetNSPanics(docs[i]) /\ ~NetNSSetupPanics(docs[i])
     /\ pc' = "serving"
     /\ UNCHANGED <<docs, nodes, last, vol, getting, disk, node, cancelled, panicked, runs>>

\* The nodes whose Setup has returned no VM.
NoVM == {i \in DOMAIN node : node[i].step = "nil"}

\* Mutant: the nodes that failed are waited for.
waitForAll ==
  /\ pc = "setup"
  /\ \A i \in DOMAIN node : node[i].step \in {"running", "nil"}
  /\ \/ NoVM # {} /\ Panic
     \/ (NoVM = {} \/ \E i \in DOMAIN node : node[i].step = "running") /\ StartNetNSs

\* env.Wait waits for every goroutine, whether one has failed or not.  A method
\* of a VM that is nil panics, unless a VM of another node, without a serial as
\* well, has taken its place in c.vms.
waitNodes ==
  /\ pc = "setup"
  /\ \A i \in DOMAIN node : node[i].step \in {"running", "failed", "nil"}
  /\ \/ NoVM # {} /\ Panic
     \/ /\ NoVM = {} \/ \E i \in DOMAIN node : node[i].step = "running"
        /\ IF \E i \in DOMAIN node : node[i].step = "failed" THEN Return ELSE StartNetNSs

\* A signal, or the end of a VM or an application, ends a process that serves.
Shutdown == pc = "serving" /\ Return

Signal ==
  /\ pc # "down" /\ ~cancelled
  /\ cancelled' = TRUE
  /\ UNCHANGED <<docs, pc, nodes, last, vol, getting, disk, node, panicked, runs>>

\* The process is killed.  (What it has written is then on the disk.  After a
\* loss of power it need not be: the volumes are not synced.)
Kill == pc # "down" /\ Die /\ UNCHANGED panicked

Step ==
  \/ SetupNetworks
  \/ MakeNode
  \/ prepare
  \/ StartNodes
  \/ waitNodes

Next ==
  \/ run
  \/ Step
  \/ Put
  \/ \E i \in DOMAIN node : NodeStep(i) \/ createTaps(i) \/ GuestWrites(i)
  \/ Shutdown
  \/ Signal
  \/ Kill

Spec == Init /\ [][Next]_vars

\* The process, its goroutines and the commands that make files take their steps.
\* No server has to send an image and no QEMU to listen; but the context ends
\* the download of an image.
FairSpec ==
  /\ Spec
  /\ WF_vars(Step)
  /\ WF_vars(cancelled /\ Put)
  /\ WF_vars(\E i \in DOMAIN node : OwnStep(i))

-----------------------------------------------------------------------------
(* Properties.                                                             *)

Steps == {"swtpm", "stat", "absent", "making", "polling", "failed", "nil", "running"}

TypeOK ==
  /\ docs \in Definitions
  /\ pc \in {"down", "networks", "prepare", "setup", "serving"}
  /\ DOMAIN nodes \subseteq OfKind(docs, "Node")
  /\ last \in DOMAIN nodes \cup {0}
  /\ vol \in Nat \ {0}
  /\ getting # "" => /\ pc = "prepare" /\ last # 0
                     /\ vol \in DOMAIN Last.volumes
                     /\ getting = Last.volumes[vol].image.url
  /\ \A p \in DOMAIN file : file[p].state \in {"partial", "whole"} /\ file[p].written \in BOOLEAN
  /\ DOMAIN node = IF pc \in {"setup", "serving"} THEN DOMAIN nodes ELSE {}
  /\ \A i \in DOMAIN node : /\ node[i].step \in Steps
                            /\ node[i].at \in 1..(Len(Work(nodes[i])) + 1)
                            /\ node[i].step = "making" => Target(i) \in DOMAIN file
  /\ cancelled \in BOOLEAN /\ panicked \in BOOLEAN
  /\ runs \in 0..MaxRuns

\* The nodes have names of their own, which Parse does not check.
DistinctNodes ==
  \A i, j \in DOMAIN nodes : nodes[i].name = nodes[j].name => i = j

\* The cache fills as ImageCache says: a download appears under its name only
\* once it is whole, whether it fails, is cancelled or the process is killed.
Cache == INSTANCE ImageCache WITH Methods <- Decompressors, entry <- cache

ImplementsCache == Cache!Spec

\* What is incomplete on the disk, a volume or a temporary file of the cache,
\* is being made by a goroutine or was left by a making that was cut off.
IncompleteIsCutOff ==
  /\ \A u \in temps : u = getting \/ <<"temp", u>> \in torn
  /\ \A p \in DOMAIN file : file[p].state = "partial" =>
       p \in torn \/ \E i \in Making : Target(i) = p

\* Nodes that start in parallel never start on each other's unfinished files: a
\* node runs on whole files, and on those whose making was once cut off.
RunsOnWholeFiles ==
  DistinctNodes =>
    \A i \in DOMAIN node : Started(i) =>
      \A p \in Given(i) : p \in DOMAIN file /\ (file[p].state = "whole" \/ p \in torn)

\* "The file copied entirely from specified Image resource will be used"
\* (docs/resource.md): no node runs on a copy that is not whole.
CopiesAreEntire ==
  DistinctNodes =>
    \A i \in DOMAIN node : Started(i) =>
      \A j \in DOMAIN nodes[i].volumes :
        LET v == nodes[i].volumes[j]
        IN  v.kind = "image" /\ ~v.cow => file[PathOf(nodes[i], v)].state = "whole"

\* No process touches a file that a guest has written to: restarts, with and
\* without a crash before, keep the disks of the nodes.
KeepsGuestData ==
  [][DistinctNodes => \A p \in DOMAIN file : file[p].written => p \in DOMAIN file' /\ file'[p] = file[p]]_vars

\* No two images share a URL, and no two volumes of a node a path: neither is
\* checked by Parse.
Unambiguous ==
  /\ DistinctNodes
  /\ \A i, j \in OfKind(docs, "Image") : (docs[i].url = docs[j].url /\ docs[i].url # "") => i = j
  /\ \A i \in DOMAIN nodes : \A j, k \in DOMAIN nodes[i].volumes :
       PathOf(nodes[i], nodes[i].volumes[j]) = PathOf(nodes[i], nodes[i].volumes[k]) => j = k

\* A whole file that a node runs on is what the definition says, whichever
\* process has made it: a copy holds the image of that name, decompressed as
\* the image says, and a raw volume, or a seed with a network configuration,
\* has the format that QEMU is told.
FilesAreAsDefined ==
  Unambiguous =>
    \A i \in DOMAIN node : Started(i) =>
      \A j \in DOMAIN nodes[i].volumes :
        LET v == nodes[i].volumes[j]
            f == file[PathOf(nodes[i], v)]
        IN  /\ (v.kind = "image" /\ ~v.cow /\ f.state = "whole") =>
                 \E k \in OfKind(docs, "Image") :
                   /\ docs[k].name = docs[i].volumes[j].image
                   /\ f.data \in {<<"copy", docs[k].url, docs[k].compression>>,
                                  <<"copy", docs[k].file, docs[k].compression>>}
            /\ ((v.kind = "raw" \/ (v.kind = "localds" /\ v.netConfig)) /\ f.state = "whole") =>
                 f.data[2] = toldFormat(v)

\* QEMU is only told cache modes and formats that it knows, although validate
\* loses the defaults that it sets on the volumes.
ArgumentsAreKnown ==
  \A i \in DOMAIN node : \A j \in DOMAIN nodes[i].volumes :
    LET v == nodes[i].volumes[j]
    IN  v.kind # "hostPath" => v.cache \in Caches /\ toldFormat(v) \in Formats \cup {""}

\* The constructors and Setup use what an accepted definition does not have in
\* two cases only, an interface of a namespace that is null and one of a node
\* that names a link other than a bridge; the one other panic is that on the VM
\* which a signal has kept Setup of a node from returning.
KnownPanics ==
  [][panicked' /\ ~panicked => ~Connected(docs) \/ NoVM # {}]_vars

\* A process that stays and never serves waits for the server of an image, or
\* for the sockets of swtpm or QEMU, and was sent no signal: no failure of a
\* node and no signal leaves it waiting.
ServesOrEnds ==
  <>[](pc \in {"networks", "prepare", "setup"}) =>
    <>[](/\ ~cancelled
         /\ getting # "" \/ \E i \in DOMAIN node : node[i].step \in {"swtpm", "polling"})

=============================================================================
