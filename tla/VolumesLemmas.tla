---------------------------- MODULE VolumesLemmas ----------------------------
(*****************************************************************************)
(* What the proofs about Volumes rest on: what the constructors make of an *)
(* accepted definition, where a process and its goroutines can be, and     *)
(* which files are partial.                                                *)
(*****************************************************************************)
EXTENDS Volumes, TLAPS

-----------------------------------------------------------------------------
(* What the constructors make.                                             *)

FineVolume(v) ==
  /\ v.image.decomp \in Decompressors
  /\ v.kind # "hostPath" => v.cache \in Caches /\ toldFormat(v) \in Formats \cup {""}

FineNode(n) ==
  /\ Len(Work(n)) \in Nat
  /\ DOMAIN Work(n) = 1..Len(Work(n))
  /\ \A j \in DOMAIN n.volumes : FineVolume(n.volumes[j])

\* A volume that newNodeVolume returns has an image that can be decompressed
\* and arguments that QEMU knows, whatever the document left out.
LEMMA NewVolumeIsFine ==
  ASSUME NEW v, NEW d, newNodeVolume(v, d) # Failed
  PROVE  FineVolume(newNodeVolume(v, d))
PROOF
<1> DEFINE image == IF v.kind = "image" THEN findImage(v, d) ELSE NoImage
           w == newNodeVolume(v, d)
<1>1. /\ image # Failed
      /\ v.cache \in Caches \cup {""}
      /\ v.kind = "raw" => v.format \in Formats \cup {""}
      /\ w.kind = v.kind
      /\ w.image = image
      /\ w.cache = IF v.kind = "hostPath" THEN "" ELSE defaultTo(v.cache, "none")
      /\ w.format = IF v.kind = "raw" THEN defaultTo(v.format, "qcow2") ELSE ""
  BY Zenon DEF newNodeVolume
<1>2. image.decomp \in Decompressors
  <2>1. CASE v.kind = "image"
    <3>1. PICK i : image = newImage(i) /\ newImage(i) # Failed
      BY <1>1, <2>1, Zenon DEF findImage
    <3> QED
      BY <3>1 DEF newImage
  <2>2. CASE v.kind # "image"
    BY <2>2 DEF NoImage, Decompressors
  <2> QED
    BY <2>1, <2>2
<1>3. v.kind # "hostPath" => w.cache \in Caches
  BY <1>1, Zenon DEF defaultTo, Caches
<1>4. toldFormat(w) \in Formats \cup {""}
  BY <1>1, Zenon DEF toldFormat, defaultTo, Formats
<1> QED
  BY <1>1, <1>2, <1>3, <1>4, Zenon DEF FineVolume

\* NewNode makes a node of fine volumes, and their sequence has an end.
LEMMA NewNodeIsFine ==
  ASSUME NEW d \in Definitions, NEW i \in OfKind(d, "Node"),
         NewNode(NodeSpec_validated(d[i]), d) # Failed
  PROVE  FineNode(NewNode(NodeSpec_validated(d[i]), d))
PROOF
<1> DEFINE s == NodeSpec_validated(d[i])
           n == NewNode(s, d)
           k == Len(d[i].volumes)
           vols == [j \in DOMAIN s.volumes |-> newNodeVolume(s.volumes[j], d)]
<1>1. s.volumes = d[i].volumes
  BY VolumesAssumption DEF NodeSpec_validated
<1>2. k \in Nat /\ DOMAIN s.volumes = 1..k
  BY <1>1, VolumesAssumption
<1>3. n.volumes = vols /\ \A j \in DOMAIN vols : vols[j] # Failed
  BY DEF NewNode
<1>4. \A j \in DOMAIN vols : FineVolume(vols[j])
  BY <1>3, NewVolumeIsFine
<1>5. vols \in Seq({vols[j] : j \in 1..k}) /\ Len(vols) = k /\ DOMAIN vols = 1..k
  <2> HIDE DEF k
  <2> QED
    BY <1>2
<1>6. Len(Work(n)) \in Nat /\ DOMAIN Work(n) = 1..Len(Work(n))
  <2> HIDE DEF vols, n
  <2>1. CASE n.uefi
    <3> DEFINE S == {vols[j] : j \in 1..k} \cup {NVRAM}
    <3>1. vols \in Seq(S) /\ NVRAM \in S
      BY <1>5
    <3>2. Append(vols, NVRAM) \in Seq(S)
      <4> HIDE DEF S, NVRAM
      <4> QED BY <3>1
    <3> HIDE DEF S
    <3> QED
      BY <3>2, <2>1, <1>3 DEF Work
  <2>2. CASE ~n.uefi
    BY <2>2, <1>3, <1>5, <1>2 DEF Work
  <2> QED
    BY <2>1, <2>2
<1> QED
  BY <1>3, <1>4, <1>6, Zenon DEF FineNode

\* Of a definition that Parse accepts, no network, namespace or node lacks what
\* its constructor or Setup reads without a check.
LEMMA ValidNeverPanics ==
  ASSUME NEW d \in Definitions, ~ParseFails(d)
  PROVE  /\ \A i \in OfKind(d, "Network") : ~NetworkSetupPanics(d[i])
         /\ \A i \in OfKind(d, "NetworkNamespace") : ~NetNSSetupPanics(d[i])
         /\ \A i \in OfKind(d, "Node") : ~NewNodePanics(NodeSpec_validated(d[i]))
PROOF
<1>1. \A i \in OfKind(d, "Network") : ~NetworkSetupPanics(d[i])
  BY Zenon DEF ParseFails, OfKind, Valid, NetworkSpec_validate, NetworkSetupPanics
<1>2. \A i \in OfKind(d, "NetworkNamespace") : ~NetNSSetupPanics(d[i])
  BY Zenon DEF ParseFails, OfKind, Valid, NetNSSpec_validate, NetNSSetupPanics
<1>3. ASSUME NEW i \in OfKind(d, "Node")
      PROVE  ~NewNodePanics(NodeSpec_validated(d[i]))
  <2>1. NodeSpec_validate(d[i])
    BY DEF ParseFails, OfKind, Valid
  <2>2. {"smp", "cpu"} \subseteq DOMAIN d[i]
    BY VolumesAssumption, Zenon
  <2>3. CASE d[i].cpu # 0
    <3>1. NodeSpec_validated(d[i]).smp = <<d[i].cpu>>
      BY <2>2, <2>3 DEF NodeSpec_validated
    <3> QED
      BY <3>1 DEF NewNodePanics, Nil
  <2>4. CASE d[i].cpu = 0
    BY <2>1, <2>4, Zenon DEF NodeSpec_validate, NodeSpec_validated, NewNodePanics
  <2> QED
    BY <2>3, <2>4
<1> QED
  BY <1>1, <1>2, <1>3

-----------------------------------------------------------------------------
(* The process and its goroutines.                                         *)

\* A goroutine that makes a file is at one, and a process that serves has no
\* goroutine that is still making one.
GoroutineOK(i) ==
  /\ node[i] \in [step : Steps, at : Nat \ {0}]
  /\ node[i].at <= Len(Work(nodes[i])) + 1
  /\ node[i].step \in {"absent", "making"} =>
       node[i].at \in DOMAIN Work(nodes[i]) /\ Current(i).kind # "hostPath"
  /\ pc = "serving" => node[i].step \in {"running", "nil"}

Shape ==
  /\ docs \in Definitions
  /\ pc \in {"down", "networks", "prepare", "setup", "serving"}
  /\ pc # "down" => ~ParseFails(docs)
  /\ DOMAIN nodes \subseteq OfKind(docs, "Node")
  /\ \A i \in DOMAIN nodes : FineNode(nodes[i])
  /\ last \in DOMAIN nodes \cup {0}
  /\ vol \in Nat \ {0}
  /\ getting # "" => /\ pc = "prepare" /\ last # 0
                     /\ vol \in DOMAIN Last.volumes
                     /\ getting = Last.volumes[vol].image.url
                     /\ getting \notin DOMAIN cache
  /\ DOMAIN node = IF pc \in {"setup", "serving"} THEN DOMAIN nodes ELSE {}
  /\ \A i \in DOMAIN node : GoroutineOK(i)
  /\ runs \in 0..MaxRuns

\* The files that the goroutines have passed, make, or have found missing.
Passed(i, j) == j < node[i].at \/ Started(i)

Temps == \A u \in temps : (u = getting /\ u # "") \/ <<"temp", u>> \in torn

Tracked(p) == p \in torn \/ \E i \in Making : Target(i) = p

Files ==
  /\ \A p \in DOMAIN file : /\ file[p].state \in {"partial", "whole"}
                            /\ file[p].written \in BOOLEAN
                            /\ file[p].state = "partial" => Tracked(p)
  /\ \A i \in Making : Target(i) \in DOMAIN file
  /\ \A i \in DOMAIN node : \A j \in DOMAIN Work(nodes[i]) :
       (Passed(i, j) /\ Work(nodes[i])[j].kind # "hostPath") =>
         PathOf(nodes[i], Work(nodes[i])[j]) \in DOMAIN file

\* Where the nodes have names of their own, a goroutine's files are its own.
Own ==
  \A i \in DOMAIN node :
    /\ node[i].step = "absent" => Target(i) \notin DOMAIN file
    /\ node[i].step = "making" => ~file[Target(i)].written
    /\ \A j \in DOMAIN Work(nodes[i]) :
         (Passed(i, j) /\ Work(nodes[i])[j].kind # "hostPath") =>
           LET p == PathOf(nodes[i], Work(nodes[i])[j])
           IN  file[p].state = "whole" \/ p \in torn

-----------------------------------------------------------------------------
(* Shape is inductive.                                                     *)

\* The empty map has no domain.
LEMMA NoDomain ==
  DOMAIN <<>> = {}
PROOF
<1>1. <<>> \in Seq({}) /\ Len(<<>>) = 0
  OBVIOUS
<1>2. DOMAIN <<>> = 1..0
  BY <1>1
<1> QED
  BY <1>2

\* The initial states have the shape.
LEMMA InitShape ==
  Init => Shape
PROOF
<1> SUFFICES ASSUME Init PROVE Shape
  OBVIOUS
<1> MaxRuns \in Nat
  BY VolumesAssumption
<1> vol = 1 /\ runs = 0
  BY Zenon DEF Init
<1>1. vol \in Nat \ {0} /\ runs \in 0..MaxRuns
  OBVIOUS
<1>2. DOMAIN nodes = {} /\ DOMAIN node = {}
  BY NoDomain, Zenon DEF Init
<1> QED
  BY <1>1, <1>2, Zenon DEF Init, Shape

\* A process that ends takes its goroutines and its download with it.
LEMMA EndShape ==
  ASSUME Shape, End
  PROVE  Shape'
PROOF
<1>1. DOMAIN node' = {}
  BY NoDomain, Zenon DEF End
<1> QED
  BY <1>1, Zenon DEF Shape, End, FineNode, Work

\* A process that dies ends, and what it was writing counts as cut off.
LEMMA DieEnds ==
  ASSUME Die
  PROVE  /\ End
         /\ temps' = temps /\ torn \subseteq torn'
         /\ getting # "" => <<"temp", getting>> \in torn'
         /\ \A p : Tracked(p) => p \in torn'
PROOF
  BY Zenon DEF Die, Tracked

\* The goroutines start at the first file, or before it where there is a TPM.
LEMMA StartedWith ==
  ASSUME StartNodes
  PROVE  /\ DOMAIN node' = DOMAIN nodes
         /\ \A i \in DOMAIN nodes : \E s \in {"swtpm", "stat"} : node'[i] = [step |-> s, at |-> 1]
PROOF
<1>1. node' = [i \in DOMAIN nodes |-> [step |-> IF nodes[i].tpm THEN "swtpm" ELSE "stat", at |-> 1]]
  BY DEF StartNodes
<1> QED
  BY <1>1

\* A step of main that leaves the goroutines alone while there are none.
LEMMA MainShape ==
  ASSUME Shape, SetupNetworks \/ MakeNode \/ prepare \/ Put \/ StartNodes
  PROVE  Shape'
PROOF
<1>1. docs \in Definitions /\ (pc # "down" => ~ParseFails(docs))
  BY Zenon DEF Shape
<1>2. CASE SetupNetworks
  <2>1. pc = "networks"
    BY <1>2 DEF SetupNetworks
  <2>2. ~\E i \in OfKind(docs, "Network") : NetworkSetupPanics(docs[i])
    BY <1>1, <2>1, ValidNeverPanics
  <2>3. CASE Return
    BY <2>3, EndShape DEF Return
  <2>4. CASE pc' = "prepare" /\ UNCHANGED <<docs, nodes, last, vol, getting, disk, node, cancelled, panicked, runs>>
    BY <2>4, <2>1, Zenon DEF Shape, Last, disk
  <2> QED
    BY <1>2, <2>2, <2>3, <2>4 DEF SetupNetworks
<1>3. CASE MakeNode
  <2>1. pc = "prepare" /\ getting = ""
    BY <1>3, Zenon DEF MakeNode
  <2>2. PICK i \in Left :
          LET s == NodeSpec_validated(docs[i])
              n == NewNode(s, docs)
          IN  IF NewNodePanics(s)
                THEN Panic
                ELSE \/ Return
                     \/ /\ n # Failed
                        /\ nodes' = With(nodes, i, n)
                        /\ last' = i
                        /\ vol' = 1
                        /\ UNCHANGED <<docs, pc, getting, disk, node, cancelled, panicked, runs>>
    BY <1>3, Zenon DEF MakeNode
  <2>3. i \in OfKind(docs, "Node")
    BY DEF Left
  <2>4. ~NewNodePanics(NodeSpec_validated(docs[i]))
    BY <1>1, <2>1, <2>3, ValidNeverPanics, Zenon
  <2>5. CASE Return
    BY <2>5, EndShape DEF Return
  <2>6. CASE ~Return
    <3> DEFINE n == NewNode(NodeSpec_validated(docs[i]), docs)
    <3>1. /\ n # Failed
          /\ nodes' = With(nodes, i, n)
          /\ last' = i
          /\ vol' = 1
          /\ UNCHANGED <<docs, pc, getting, disk, node, cancelled, panicked, runs>>
      BY <2>2, <2>4, <2>6
    <3>2. FineNode(n)
      BY <3>1, <1>1, <2>3, NewNodeIsFine
    <3> HIDE DEF n
    <3>3. DOMAIN nodes' = DOMAIN nodes \cup {i}
      BY <3>1 DEF With
    <3>4. \A j \in DOMAIN nodes' : FineNode(nodes'[j])
      BY <3>1, <3>2, Zenon DEF With, Shape
    <3>5. DOMAIN node = {}
      BY <2>1, Zenon DEF Shape
    <3>6. vol' \in Nat \ {0}
      BY <3>1
    <3> QED
      BY <3>1, <3>3, <3>4, <3>5, <3>6, <2>1, <2>3, Zenon DEF Shape, disk
  <2> QED
    BY <2>5, <2>6
<1>4. CASE prepare
  <2>1. pc = "prepare" /\ getting = "" /\ last # 0 /\ vol \in DOMAIN Last.volumes
    BY <1>4, Zenon DEF prepare, Prepared
  <2>2. DOMAIN node = {}
    BY <2>1, Zenon DEF Shape
  <2> DEFINE image == Last.volumes[vol].image
  <2>3. CASE image.url = "" \/ Contains(image.url)
    <3>1. vol' = vol + 1 /\ UNCHANGED <<docs, pc, nodes, last, getting, disk, node, cancelled, panicked, runs>>
      BY <1>4, <2>3, Zenon DEF prepare
    <3>2. vol \in Nat \ {0}
      BY Zenon DEF Shape
    <3>3. vol' \in Nat \ {0}
      BY <3>1, <3>2
    <3> QED
      BY <3>1, <3>3, <2>1, <2>2, Zenon DEF Shape, disk
  <2>4. CASE Return
    BY <2>4, EndShape DEF Return
  <2>5. CASE ~Return /\ ~(image.url = "" \/ Contains(image.url))
    <3>1. /\ getting' = image.url
          /\ image.url \notin DOMAIN cache
          /\ UNCHANGED <<docs, pc, nodes, last, vol, cache, file, torn, node, cancelled, panicked, runs>>
      BY <1>4, <2>5, Zenon DEF prepare, Contains
    <3> QED
      BY <3>1, <2>1, <2>2, Zenon DEF Shape, Last
  <2> QED
    BY <2>3, <2>4, <2>5, Zenon
<1>5. CASE Put
  <2>1. pc = "prepare" /\ getting # ""
    BY <1>5, Zenon DEF Put
  <2>2. DOMAIN node = {}
    BY <2>1, Zenon DEF Shape
  <2>3. CASE End /\ UNCHANGED <<torn, panicked>>
    BY <2>3, EndShape
  <2>4. CASE /\ getting' = ""
             /\ vol' = vol + 1
             /\ UNCHANGED <<docs, pc, nodes, last, file, torn, node, cancelled, panicked, runs>>
    <3>1. vol \in Nat \ {0}
      BY Zenon DEF Shape
    <3>2. vol' = vol + 1
      BY <2>4, Zenon
    <3>3. vol' \in Nat \ {0}
      BY <3>1, <3>2
    <3> QED
      BY <3>3, <2>4, <2>1, <2>2, Zenon DEF Shape
  <2> QED
    BY <1>5, <2>3, <2>4, Zenon DEF Put
<1>6. CASE StartNodes
  <2>1. /\ pc = "prepare" /\ getting = ""
        /\ pc' = "setup"
        /\ DOMAIN node' = DOMAIN nodes
        /\ \A i \in DOMAIN nodes : \E s \in {"swtpm", "stat"} : node'[i] = [step |-> s, at |-> 1]
        /\ UNCHANGED <<docs, nodes, last, vol, getting, cache, cancelled, panicked, runs>>
    BY <1>6, StartedWith, Zenon DEF StartNodes, disk
  <2>2. ASSUME NEW i \in DOMAIN node' PROVE GoroutineOK(i)'
    <3>1. PICK s \in {"swtpm", "stat"} : node'[i] = [step |-> s, at |-> 1]
      BY <2>1, Zenon
    <3>2. Len(Work(nodes[i])) \in Nat
      BY <2>1, Zenon DEF Shape, FineNode
    <3>3. node'[i].at <= Len(Work(nodes[i])) + 1
      BY <3>1, <3>2
    <3>4. node'[i] \in [step : Steps, at : Nat \ {0}] /\ node'[i].step \in {"swtpm", "stat"}
      BY <3>1 DEF Steps
    <3>5. pc' # "serving" /\ node'[i].step \notin {"absent", "making"}
      BY <2>1, <3>4
    <3> QED
      BY <2>1, <3>3, <3>4, <3>5, Zenon DEF GoroutineOK, Work
  <2> QED
    BY <2>1, <2>2, Zenon DEF Shape
<1> QED
  BY <1>2, <1>3, <1>4, <1>5, <1>6

\* What a step of a goroutine leaves alone.
LEMMA NodeStepFrame ==
  ASSUME NEW i \in DOMAIN node, NodeStep(i)
  PROVE  /\ UNCHANGED <<docs, pc, nodes, last, vol, getting, cache, temps, cancelled, panicked, runs>>
         /\ DOMAIN node' = DOMAIN node
         /\ \A j \in DOMAIN node : j # i => node'[j] = node[j]
PROOF
<1>1. stat(i) => Advance(i) \/ \E s \in Steps : Enter(i, s)
  BY DEF stat, Steps
<1>2. create(i) \/ finish(i) \/ fail(i) \/ startQEMU(i) => Advance(i) \/ \E s \in Steps : Enter(i, s)
  BY Zenon DEF create, finish, fail, startQEMU, Steps
<1>3. await(i) \/ giveUp(i) => \E s \in Steps : Enter(i, s)
  BY DEF await, giveUp, Steps
<1>4. Advance(i) \/ \E s \in Steps : Enter(i, s)
  BY <1>1, <1>2, <1>3 DEF NodeStep, OwnStep
<1> QED
  BY <1>4 DEF Advance, Enter

\* The end of a wait for a socket touches no file.
LEMMA WaitIsOver ==
  ASSUME Shape, NEW i \in DOMAIN node, await(i) \/ giveUp(i)
  PROVE  /\ file' = file /\ torn' = torn
         /\ node[i].step \in {"swtpm", "polling"}
         /\ \E s \in {"stat", "running", "failed", "nil"} :
              /\ node'[i] = [step |-> s, at |-> node[i].at]
              /\ s = "running" => node[i].step = "polling"
PROOF
<1>1. node[i] \in [step : Steps, at : Nat \ {0}]
  BY Zenon DEF Shape, GoroutineOK
<1>2. ASSUME NEW s, Enter(i, s)
      PROVE  node'[i] = [step |-> s, at |-> node[i].at]
  BY <1>1, <1>2 DEF Enter
<1>3. file' = file /\ torn' = torn /\ node[i].step \in {"swtpm", "polling"}
  BY Zenon DEF await, giveUp
<1>4. \E s \in {"stat", "running", "failed", "nil"} :
        Enter(i, s) /\ (s = "running" => node[i].step = "polling")
  BY <1>3 DEF await, giveUp
<1> QED
  BY <1>2, <1>3, <1>4, Zenon

\* Where a step of a goroutine takes it.
LEMMA NodeStepTo ==
  ASSUME Shape, NEW i \in DOMAIN node, NodeStep(i)
  PROVE  \/ /\ node[i].step \in {"stat", "making"}
            /\ node[i].at \in DOMAIN Work(nodes[i])
            /\ node'[i] = [step |-> "stat", at |-> node[i].at + 1]
         \/ /\ node[i].step = "stat"
            /\ node[i].at \in DOMAIN Work(nodes[i])
            /\ Current(i).kind # "hostPath"
            /\ node'[i] = [step |-> "absent", at |-> node[i].at]
         \/ /\ node[i].step = "absent"
            /\ node'[i] = [step |-> "making", at |-> node[i].at]
         \/ /\ node[i].step \in {"stat", "absent", "making"}
            /\ node'[i] = [step |-> "failed", at |-> node[i].at]
         \/ /\ node[i].step = "stat"
            /\ node[i].at \notin DOMAIN Work(nodes[i])
            /\ node'[i] = [step |-> "polling", at |-> node[i].at]
         \/ /\ node[i].step \in {"swtpm", "polling"}
            /\ \E s \in {"stat", "running", "failed", "nil"} : node'[i] = [step |-> s, at |-> node[i].at]
PROOF
<1>1. /\ node[i] \in [step : Steps, at : Nat \ {0}]
      /\ node[i].step \in {"absent", "making"} => node[i].at \in DOMAIN Work(nodes[i])
  BY Zenon DEF Shape, GoroutineOK
<1>2. ASSUME NEW s \in Steps, Enter(i, s)
      PROVE  node'[i] = [step |-> s, at |-> node[i].at]
  BY <1>1, <1>2 DEF Enter
<1>3. ASSUME Advance(i)
      PROVE  node'[i] = [step |-> "stat", at |-> node[i].at + 1]
  BY <1>1, <1>3 DEF Advance
<1>4. CASE stat(i)
  <2>1. node[i].step = "stat" /\ node[i].at \in DOMAIN Work(nodes[i])
    BY <1>4 DEF stat, AtFile
  <2> QED
    BY <1>4, <1>2, <1>3, <2>1 DEF stat, Steps
<1>5. CASE create(i)
  BY <1>5, <1>2, Zenon DEF create, Steps
<1>6. CASE finish(i)
  BY <1>1, <1>6, <1>3 DEF finish
<1>7. CASE fail(i)
  BY <1>7, <1>2 DEF fail, Steps
<1>8. CASE startQEMU(i)
  BY <1>8, <1>2 DEF startQEMU, Steps
<1>9. CASE await(i) \/ giveUp(i)
  BY <1>9, WaitIsOver, Zenon
<1> QED
  BY <1>4, <1>5, <1>6, <1>7, <1>8, <1>9, Zenon DEF NodeStep, OwnStep

\* A step of a goroutine keeps the shape.
LEMMA NodeStepShape ==
  ASSUME Shape, NEW i \in DOMAIN node, NodeStep(i)
  PROVE  Shape'
PROOF
<1>1. /\ UNCHANGED <<docs, pc, nodes, last, vol, getting, cache, temps, cancelled, panicked, runs>>
      /\ DOMAIN node' = DOMAIN node
      /\ \A j \in DOMAIN node : j # i => node'[j] = node[j]
  BY NodeStepFrame
<1>2. pc # "serving" /\ i \in DOMAIN nodes
  <2>1. node[i].step \notin {"running", "nil"}
    BY NodeStepTo, Zenon
  <2> QED
    BY <2>1, Zenon DEF Shape, GoroutineOK
<1>3. /\ Len(Work(nodes[i])) \in Nat
      /\ DOMAIN Work(nodes[i]) = 1..Len(Work(nodes[i]))
      /\ node[i] \in [step : Steps, at : Nat \ {0}]
      /\ node[i].at <= Len(Work(nodes[i])) + 1
      /\ node[i].step \in {"absent", "making"} =>
           node[i].at \in DOMAIN Work(nodes[i]) /\ Current(i).kind # "hostPath"
  BY <1>2, Zenon DEF Shape, GoroutineOK, FineNode
<1>4. ASSUME NEW j \in DOMAIN node, j # i
      PROVE  GoroutineOK(j)'
  BY <1>1, <1>4, Zenon DEF Shape, GoroutineOK, Current, Work
<1>5. GoroutineOK(i)'
  <2> DEFINE w == Work(nodes[i])
             a == node[i].at
  <2>1. Work(nodes[i])' = w
    BY <1>1 DEF Work
  <2>2. ASSUME NEW s \in Steps, node'[i] = [step |-> s, at |-> a],
               s \in {"absent", "making"} => a \in DOMAIN w /\ Current(i).kind # "hostPath"
        PROVE  GoroutineOK(i)'
    <3>1. Current(i)' = Current(i)
      BY <2>1, <2>2 DEF Current
    <3>2. node'[i].at = a /\ node'[i].step = s /\ node'[i] \in [step : Steps, at : Nat \ {0}]
      BY <1>3, <2>2
    <3> QED
      BY <1>1, <1>2, <1>3, <2>1, <2>2, <3>1, <3>2 DEF GoroutineOK
  <2>3. ASSUME a \in DOMAIN w, node'[i] = [step |-> "stat", at |-> a + 1]
        PROVE  GoroutineOK(i)'
    <3>1. a + 1 \in Nat \ {0} /\ a + 1 <= Len(w) + 1
      BY <1>3, <2>3
    <3>2. node'[i].at = a + 1 /\ node'[i].step = "stat" /\ node'[i] \in [step : Steps, at : Nat \ {0}]
      BY <2>3, <3>1 DEF Steps
    <3> QED
      BY <1>1, <1>2, <2>1, <3>1, <3>2 DEF GoroutineOK
  <2> QED
    BY <1>3, <2>2, <2>3, NodeStepTo, Zenon DEF Steps
<1>6. \A j \in DOMAIN node' : GoroutineOK(j)'
  BY <1>1, <1>4, <1>5
<1> QED
  BY <1>1, <1>6, Zenon DEF Shape, Last

\* Every step keeps the shape.
LEMMA NextShape ==
  ASSUME Shape, [Next]_vars
  PROVE  Shape'
PROOF
<1>1. CASE run
  <2>1. /\ pc = "down" /\ runs < MaxRuns /\ ~ParseFails(docs)
        /\ pc' = "networks" /\ nodes' = <<>> /\ last' = 0 /\ vol' = 1
        /\ runs' = runs + 1
        /\ UNCHANGED <<docs, getting, node>>
    BY <1>1 DEF run
  <2> MaxRuns \in Nat
    BY VolumesAssumption
  <2> runs \in 0..MaxRuns
    BY Zenon DEF Shape
  <2>2. runs' \in 0..MaxRuns /\ vol' \in Nat \ {0}
    BY <2>1
  <2>3. DOMAIN nodes' = {} /\ DOMAIN node' = {} /\ getting' = ""
    BY <2>1, NoDomain, Zenon DEF Shape
  <2> QED
    BY <2>1, <2>2, <2>3, Zenon DEF Shape
<1>2. CASE SetupNetworks \/ MakeNode \/ prepare \/ Put \/ StartNodes
  BY <1>2, MainShape
<1>3. CASE waitNodes
  <2>2. CASE Return \/ Panic
    BY <2>2, EndShape, DieEnds DEF Return, Panic
  <2>3. CASE ~(Return \/ Panic)
    <3>1. /\ pc = "setup" /\ pc' = "serving"
          /\ UNCHANGED <<docs, nodes, last, vol, getting, disk, node, cancelled, panicked, runs>>
          /\ \A i \in DOMAIN node : node[i].step \in {"running", "nil"}
      BY <1>3, <2>3, Zenon DEF waitNodes, StartNetNSs
    <3>2. ASSUME NEW i \in DOMAIN node' PROVE GoroutineOK(i)'
      BY <3>1, <3>2, Zenon DEF Shape, GoroutineOK, Current, Work
    <3> QED
      BY <3>1, <3>2, Zenon DEF Shape
  <2> QED
    BY <2>2, <2>3
<1>4. ASSUME NEW i \in DOMAIN node, NodeStep(i)
      PROVE  Shape'
  BY <1>4, NodeStepShape
<1>5. CASE (\E i \in DOMAIN node : GuestWrites(i)) \/ Signal \/ UNCHANGED vars
  <2>1. UNCHANGED <<docs, pc, nodes, last, vol, getting, cache, node, runs>>
    BY <1>5 DEF GuestWrites, Signal, vars, disk
  <2>2. ASSUME NEW i \in DOMAIN node' PROVE GoroutineOK(i)'
    BY <2>1, <2>2, Zenon DEF Shape, GoroutineOK, Current, Work
  <2> QED
    BY <2>1, <2>2, Zenon DEF Shape, Last
<1>6. CASE Shutdown \/ Kill \/ \E i \in DOMAIN node : createTaps(i)
  BY <1>6, EndShape, DieEnds, Zenon DEF Shutdown, Kill, createTaps, Panic, Return
<1> QED
  BY <1>1, <1>2, <1>3, <1>4, <1>5, <1>6 DEF Next, Step

-----------------------------------------------------------------------------
(* Files is inductive.                                                     *)

\* A temporary file of the cache is the download's, or was cut off.
LEMMA NextTemps ==
  ASSUME Shape, Temps, [Next]_vars
  PROVE  Temps'
PROOF
<1>1. ASSUME temps' = temps, torn \subseteq torn', getting = "" \/ getting' = getting
      PROVE  Temps'
  BY <1>1, Zenon DEF Temps
<1>2. getting # "" => pc = "prepare"
  BY Zenon DEF Shape
<1>3. CASE SetupNetworks \/ run \/ Shutdown \/ waitNodes
  <2>1. temps' = temps /\ torn \subseteq torn'
    BY <1>3, DieEnds, Zenon DEF SetupNetworks, run, Shutdown, waitNodes, StartNetNSs, Return, Panic, disk
  <2>2. pc # "prepare"
    BY <1>3, Zenon DEF SetupNetworks, run, Shutdown, waitNodes
  <2> QED
    BY <1>1, <1>2, <2>1, <2>2, Zenon
<1>4. CASE MakeNode \/ StartNodes
  <2>1. temps' = temps /\ torn \subseteq torn' /\ getting = ""
    BY <1>4, DieEnds, Zenon DEF MakeNode, StartNodes, Return, Panic, disk
  <2> QED
    BY <1>1, <2>1, Zenon
<1>5. CASE prepare
  <2> DEFINE url == Last.volumes[vol].image.url
  <2>1. getting = "" /\ torn \subseteq torn'
    BY <1>5, Zenon DEF prepare, Return, disk
  <2>2. temps' = temps \/ (url # "" /\ getting' = url /\ temps' = temps \cup {url})
    BY <1>5, Zenon DEF prepare, Return, disk
  <2> QED
    BY <1>1, <2>1, <2>2, Zenon DEF Temps
<1>6. CASE Put
  BY <1>6, Zenon DEF Temps, Put
<1>7. ASSUME NEW i \in DOMAIN node, NodeStep(i)
      PROVE  Temps'
  <2>1. UNCHANGED <<getting, temps>>
    BY <1>7, NodeStepFrame
  <2>2. torn \subseteq torn'
    BY <1>7, Zenon DEF NodeStep, OwnStep, stat, create, finish, fail, startQEMU, await, giveUp, Advance
  <2> QED
    BY <1>1, <2>1, <2>2
<1>8. CASE (\E i \in DOMAIN node : GuestWrites(i)) \/ Signal \/ UNCHANGED vars
  BY <1>1, <1>8, Zenon DEF GuestWrites, Signal, vars, disk
<1>9. CASE Kill \/ \E i \in DOMAIN node : createTaps(i)
  <2>1. temps' = temps /\ torn \subseteq torn' /\ (getting # "" => <<"temp", getting>> \in torn')
    BY <1>9, DieEnds, Zenon DEF Kill, createTaps, Panic
  <2> QED
    BY <2>1, Zenon DEF Temps
<1> QED
  BY <1>3, <1>4, <1>5, <1>6, <1>7, <1>8, <1>9 DEF Next, Step

\* A path names its node.
LEMMA PathName ==
  ASSUME NEW n, NEW v
  PROVE  PathOf(n, v)[2] = n.name
PROOF
<1>1. \A a, b, c : <<a, b, c>>[2] = b
  OBVIOUS
<1>2. \A a, b : <<a, b>>[2] = b
  OBVIOUS
<1>3. PathOf(n, v) = <<"nvram", n.name>> \/ \E a, c : PathOf(n, v) = <<a, n.name, c>>
  BY Zenon DEF PathOf
<1> QED
  BY <1>1, <1>2, <1>3

\* No process is left, and what was being made counts as cut off.
LEMMA NoGoroutines ==
  ASSUME Files, DOMAIN node' = {}, file' = file, \A p : Tracked(p) => p \in torn'
  PROVE  Files' /\ Own'
PROOF
  BY Zenon DEF Files, Own, Tracked, Making

\* What is said about a goroutine that does not move.
LEMMA OthersStay ==
  ASSUME NEW j \in DOMAIN node, node'[j] = node[j], nodes' = nodes
  PROVE  /\ Work(nodes[j])' = Work(nodes[j])
         /\ Current(j)' = Current(j)
         /\ Target(j)' = Target(j)
         /\ \A k : Passed(j, k)' <=> Passed(j, k)
         /\ \A v : PathOf(nodes[j], v)' = PathOf(nodes[j], v)
PROOF
  BY Zenon DEF Work, Current, Target, Passed, Started, PathOf

\* A step of a goroutine keeps track of the files.
LEMMA NodeStepFiles ==
  ASSUME Shape, Files, NEW i \in DOMAIN node, NodeStep(i)
  PROVE  Files'
PROOF
<1> DEFINE w == Work(nodes[i])
           a == node[i].at
           Has(k) == w[k].kind # "hostPath" => PathOf(nodes[i], w[k]) \in DOMAIN file'
<1>1. /\ nodes' = nodes /\ DOMAIN node' = DOMAIN node
      /\ \A j \in DOMAIN node : j # i => node'[j] = node[j]
  BY NodeStepFrame
<1>2. /\ Work(nodes[i])' = w
      /\ \A v : PathOf(nodes[i], v)' = PathOf(nodes[i], v)
      /\ node'[i].at = a => Target(i)' = Target(i)
  BY <1>1, Zenon DEF Work, PathOf, Target, Current
<1>3. /\ DOMAIN w = 1..Len(w) /\ Len(w) \in Nat /\ a \in Nat \ {0} /\ a <= Len(w) + 1
      /\ node[i].step \in {"absent", "making"} => a \in DOMAIN w
  BY Zenon DEF Shape, GoroutineOK, FineNode
<1>4. ASSUME NEW j \in DOMAIN node, j # i
      PROVE  /\ Work(nodes[j])' = Work(nodes[j])
             /\ Target(j)' = Target(j)
             /\ j \in Making' <=> j \in Making
             /\ \A k : Passed(j, k)' <=> Passed(j, k)
             /\ \A v : PathOf(nodes[j], v)' = PathOf(nodes[j], v)
  BY <1>1, <1>4, OthersStay, Zenon DEF Making
<1> HIDE DEF w, a
\* What goes for the files of the other goroutines.
<1>5. ASSUME DOMAIN file \subseteq DOMAIN file',
             NEW j \in DOMAIN node', j # i
      PROVE  /\ j \in Making' => Target(j)' \in DOMAIN file'
             /\ \A k \in DOMAIN Work(nodes[j])' :
                  (Passed(j, k)' /\ Work(nodes[j])'[k].kind # "hostPath") =>
                    PathOf(nodes[j], Work(nodes[j])[k])' \in DOMAIN file'
  <2>1. j \in DOMAIN node
    BY <1>1
  <2> QED
    BY <1>4, <1>5, <2>1, Zenon DEF Files
\* What goroutine i has passed.
<1>6. ASSUME DOMAIN file \subseteq DOMAIN file',
             \A k \in DOMAIN w : Passed(i, k)' => Passed(i, k) \/ Has(k)
      PROVE  \A k \in DOMAIN Work(nodes[i])' :
               (Passed(i, k)' /\ Work(nodes[i])'[k].kind # "hostPath") =>
                 PathOf(nodes[i], Work(nodes[i])[k])' \in DOMAIN file'
  BY <1>2, <1>6, Zenon DEF Files, w
\* What is left to show of a step of goroutine i.
<1>all. ASSUME DOMAIN file \subseteq DOMAIN file',
               \A p \in DOMAIN file' : /\ file'[p].state \in {"partial", "whole"}
                                       /\ file'[p].written \in BOOLEAN
                                       /\ file'[p].state = "partial" => Tracked(p)',
               i \in Making' => Target(i)' \in DOMAIN file',
               \A k \in DOMAIN w : Passed(i, k)' => Passed(i, k) \/ Has(k)
        PROVE  Files'
  <2>1. ASSUME NEW j \in Making' PROVE Target(j)' \in DOMAIN file'
    <3>1. j \in DOMAIN node'
      BY DEF Making
    <3>2. CASE j = i
      BY <1>all, <3>2, Zenon
    <3>3. CASE j # i
      BY <1>5, <1>all, <3>1, <3>3
    <3> QED
      BY <3>2, <3>3
  <2>2. ASSUME NEW j \in DOMAIN node'
        PROVE  \A k \in DOMAIN Work(nodes[j])' :
                 (Passed(j, k)' /\ Work(nodes[j])'[k].kind # "hostPath") =>
                   PathOf(nodes[j], Work(nodes[j])[k])' \in DOMAIN file'
    <3>1. CASE j = i
      BY <1>6, <1>all, <3>1, Zenon
    <3>2. CASE j # i
      BY <1>5, <1>all, <3>2, Zenon
    <3> QED
      BY <3>1, <3>2, Zenon
  <2> QED
    BY <1>all, <2>1, <2>2, Zenon DEF Files
<1>same. ASSUME file' = file, \A p : Tracked(p) => Tracked(p)'
         PROVE  /\ DOMAIN file \subseteq DOMAIN file'
                /\ \A p \in DOMAIN file' : /\ file'[p].state \in {"partial", "whole"}
                                           /\ file'[p].written \in BOOLEAN
                                           /\ file'[p].state = "partial" => Tracked(p)'
  BY <1>same DEF Files
<1>7. CASE stat(i)
  <2>1. /\ file' = file /\ torn' = torn
        /\ node[i].step = "stat" /\ a \in DOMAIN w
    BY <1>7 DEF stat, Advance, AtFile, w, a
  <2>2. \/ node'[i] = [step |-> "absent", at |-> a]
        \/ /\ node'[i] = [step |-> "stat", at |-> a + 1]
           /\ Has(a)
    <3>1. Current(i) = w[a] /\ Target(i) = PathOf(nodes[i], w[a])
      BY DEF Target, Current, w, a
    <3>2. CASE Advance(i) /\ (Current(i).kind = "hostPath" \/ Target(i) \in DOMAIN file)
      BY <2>1, <3>1, <3>2 DEF Advance, a
    <3>3. CASE Enter(i, "absent")
      BY <3>3, Zenon DEF Enter, Shape, GoroutineOK, a
    <3> QED
      BY <1>7, <3>2, <3>3, Zenon DEF stat
  <2>3. \A k \in DOMAIN w : Passed(i, k)' => Passed(i, k) \/ Has(k)
    <3>1. ASSUME NEW k \in DOMAIN w, k < a + 1 PROVE k < a \/ k = a
      BY <1>3, <3>1
    <3> QED
      BY <2>1, <2>2, <3>1 DEF Passed, Started, a
  <2>4. i \notin Making /\ i \notin Making'
    BY <2>1, <2>2 DEF Making
  <2>5. Making' = Making
    BY <1>1, <1>4, <2>4, Zenon DEF Making
  <2>6. \A p : Tracked(p)' <=> Tracked(p)
    BY <1>4, <2>1, <2>4, <2>5, Zenon DEF Tracked, Making
  <2> QED
    BY <1>all, <1>same, <2>1, <2>3, <2>4, <2>6, Zenon
<1>8. CASE create(i)
  <2>1. /\ file' = With(file, Target(i), Partial) /\ torn' = torn
        /\ node[i].step = "absent"
        /\ node'[i] = [step |-> "making", at |-> a]
    BY <1>8, Zenon DEF create, Enter, Shape, GoroutineOK, a
  <2>2. DOMAIN file' = DOMAIN file \cup {Target(i)} /\ file'[Target(i)] = Partial
    BY <2>1, Zenon DEF With
  <2>3. Target(i)' = Target(i) /\ i \in Making' /\ i \notin Making
    BY <1>1, <1>2, <2>1 DEF Making
  <2>4. \A p : Tracked(p) => Tracked(p)'
    BY <1>4, <2>1, <2>3, Zenon DEF Tracked, Making
  <2>5. \A p : p = Target(i) => Tracked(p)'
    BY <2>3 DEF Tracked
  <2>6. ASSUME NEW p \in DOMAIN file'
        PROVE  /\ file'[p].state \in {"partial", "whole"}
               /\ file'[p].written \in BOOLEAN
               /\ file'[p].state = "partial" => Tracked(p)'
    <3>1. CASE p = Target(i)
      <4>1. Partial.state = "partial" /\ Partial.written = FALSE
        BY DEF Partial
      <4> QED
        BY <2>2, <2>5, <3>1, <4>1, Zenon
    <3>2. CASE p # Target(i)
      <4>1. p \in DOMAIN file /\ file'[p] = file[p]
        BY <2>1, <2>2, <3>2 DEF With
      <4> QED
        BY <2>4, <4>1 DEF Files
    <3> QED
      BY <3>1, <3>2
  <2>7. \A k \in DOMAIN w : Passed(i, k)' => Passed(i, k)
    BY <2>1 DEF Passed, Started, a
  <2> QED
    BY <1>all, <2>2, <2>3, <2>6, <2>7, Zenon
<1>9. CASE finish(i)
  <2> DEFINE f == [Partial EXCEPT !.state = "whole", !.data = Data(Current(i))]
  <2>1. /\ file' = With(file, Target(i), f) /\ torn' = torn
        /\ node[i].step = "making" /\ a \in DOMAIN w
        /\ node'[i] = [step |-> "stat", at |-> a + 1]
    BY <1>3, <1>9 DEF finish, Advance, a
  <2>2. f.state = "whole" /\ f.written = FALSE
    BY DEF Partial
  <2> HIDE DEF f
  <2>3. DOMAIN file' = DOMAIN file \cup {Target(i)} /\ file'[Target(i)] = f
    BY <2>1 DEF With
  <2>4. i \notin Making'
    BY <2>1 DEF Making
  <2>5. ASSUME NEW p, p # Target(i), Tracked(p) PROVE Tracked(p)'
    BY <1>4, <2>1, <2>5, Zenon DEF Tracked, Making
  <2>6. ASSUME NEW p \in DOMAIN file'
        PROVE  /\ file'[p].state \in {"partial", "whole"}
               /\ file'[p].written \in BOOLEAN
               /\ file'[p].state = "partial" => Tracked(p)'
    <3>1. CASE p = Target(i)
      BY <2>2, <2>3, <3>1, Zenon
    <3>2. CASE p # Target(i)
      <4>1. p \in DOMAIN file /\ file'[p] = file[p]
        BY <2>1, <2>3, <3>2 DEF With
      <4> QED
        BY <2>5, <3>2, <4>1, Zenon DEF Files
    <3> QED
      BY <3>1, <3>2
  <2>7. \A k \in DOMAIN w : Passed(i, k)' => Passed(i, k) \/ Has(k)
    <3>1. ASSUME NEW k \in DOMAIN w, k < a + 1 PROVE k < a \/ k = a
      BY <1>3, <3>1
    <3>2. Target(i) = PathOf(nodes[i], w[a])
      BY DEF Target, Current, w, a
    <3>3. Has(a)
      BY <2>3, <3>2
    <3>4. node'[i].at = a + 1 /\ node'[i].step = "stat"
      BY <2>1
    <3>5. ASSUME NEW k \in DOMAIN w, Passed(i, k)' PROVE k < a + 1
      BY <3>4, <3>5 DEF Passed, Started
    <3>6. ASSUME NEW k \in DOMAIN w, k < a PROVE Passed(i, k)
      BY <3>6 DEF Passed, Started, a
    <3> QED
      BY <3>1, <3>3, <3>5, <3>6, Zenon
  <2> QED
    BY <1>all, <2>3, <2>4, <2>6, <2>7, Zenon
<1>10. CASE fail(i)
  <2>1. /\ file' = file
        /\ torn' = IF node[i].step = "making" THEN torn \cup {Target(i)} ELSE torn
        /\ node[i].step \in {"stat", "absent", "making"}
        /\ node'[i] = [step |-> "failed", at |-> a]
    BY <1>10, Zenon DEF fail, Enter, Shape, GoroutineOK, a
  <2>2. i \notin Making'
    BY <2>1 DEF Making
  <2>3. \A p : Tracked(p) => Tracked(p)'
    <3>1. ASSUME NEW p, p \in torn PROVE Tracked(p)'
      BY <2>1, <3>1 DEF Tracked
    <3>2. ASSUME NEW j \in Making, NEW p, p = Target(j) PROVE Tracked(p)'
      <4>1. CASE j = i
        BY <2>1, <3>2, <4>1 DEF Tracked, Making
      <4>2. CASE j # i
        BY <1>4, <3>2, <4>2, Zenon DEF Tracked, Making
      <4> QED
        BY <4>1, <4>2
    <3> QED
      BY <3>1, <3>2 DEF Tracked
  <2>4. \A k \in DOMAIN w : Passed(i, k)' => Passed(i, k)
    BY <2>1 DEF Passed, Started, a
  <2> QED
    BY <1>all, <1>same, <2>1, <2>2, <2>3, <2>4, Zenon
<1>11. CASE startQEMU(i)
  <2>1. /\ file' = file /\ torn' = torn
        /\ node[i].step = "stat" /\ a \notin DOMAIN w
        /\ node'[i] = [step |-> "polling", at |-> a]
    BY <1>11, Zenon DEF startQEMU, Enter, Shape, GoroutineOK, w, a
  <2>2. i \notin Making' /\ i \notin Making
    <3>1. node[i].step # "making" /\ node'[i].step # "making"
      BY <2>1
    <3> QED
      BY <3>1 DEF Making
  <2>3. \A p : Tracked(p) => Tracked(p)'
    BY <1>4, <2>1, <2>2, Zenon DEF Tracked, Making
  <2>4. \A k \in DOMAIN w : Passed(i, k)
    <3>1. a \notin DOMAIN w
      BY <2>1, Zenon
    <3>2. a = Len(w) + 1
      BY <1>3, <3>1
    <3>3. \A k \in DOMAIN w : k < a
      BY <1>3, <3>2
    <3> QED
      BY <3>3 DEF Passed, Started, a
  <2> QED
    BY <1>all, <1>same, <2>1, <2>2, <2>3, <2>4, Zenon
<1>12. CASE await(i) \/ giveUp(i)
  <2>1. file' = file /\ torn' = torn /\ node[i].step \in {"swtpm", "polling"}
    BY <1>12, WaitIsOver, Zenon
  <2>2. PICK s \in {"stat", "running", "failed", "nil"} :
          node'[i] = [step |-> s, at |-> a] /\ (s = "running" => node[i].step = "polling")
    BY <1>12, WaitIsOver, Zenon DEF a
  <2>3. node'[i].step = s /\ node'[i].at = a
    BY <2>2
  <2>4. i \notin Making' /\ i \notin Making
    BY <2>1, <2>3 DEF Making
  <2>5. \A p : Tracked(p) => Tracked(p)'
    BY <1>4, <2>1, <2>4, Zenon DEF Tracked, Making
  <2>6. \A k \in DOMAIN w : Passed(i, k)' => Passed(i, k)
    BY <2>2, <2>3 DEF Passed, Started, a
  <2> QED
    BY <1>all, <1>same, <2>1, <2>4, <2>5, <2>6, Zenon
<1> QED
  BY <1>7, <1>8, <1>9, <1>10, <1>11, <1>12 DEF NodeStep, OwnStep

\* What a guest writes to exists, and stays what it was but for that.
LEMMA GuestWritesTo ==
  ASSUME Files, NEW i \in DOMAIN node, GuestWrites(i)
  PROVE  /\ UNCHANGED <<nodes, torn, node>>
         /\ DOMAIN file' = DOMAIN file
         /\ \E p \in Given(i) :
              /\ p \in DOMAIN file /\ ~file[p].written
              /\ file'[p].state = file[p].state /\ file'[p].written = TRUE
              /\ \A q \in DOMAIN file : q # p => file'[q] = file[q]
PROOF
<1>1. UNCHANGED <<nodes, torn, node>> /\ Started(i)
  BY DEF GuestWrites
<1>2. PICK p \in Given(i) :
        /\ ~file[p].written
        /\ file' = With(file, p, [state |-> file[p].state, data |-> file[p].data, written |-> TRUE])
  BY Zenon DEF GuestWrites
<1>3. p \in DOMAIN file
  BY <1>1, Zenon DEF Files, Given, Passed
<1> QED
  BY <1>1, <1>2, <1>3 DEF With

\* Nothing that Files and Own speak of changes.
LEMMA FilesStay ==
  ASSUME UNCHANGED <<nodes, file, torn, node>>
  PROVE  (Files => Files') /\ (Own => Own')
PROOF
<1>1. /\ \A j \in DOMAIN node : /\ Work(nodes[j])' = Work(nodes[j])
                                /\ Target(j)' = Target(j)
                                /\ \A k : Passed(j, k)' <=> Passed(j, k)
                                /\ \A v : PathOf(nodes[j], v)' = PathOf(nodes[j], v)
      /\ Making' = Making
  BY OthersStay, Zenon DEF Making
<1>2. \A p : Tracked(p)' <=> Tracked(p)
  BY <1>1 DEF Tracked, Making
<1>3. Files => Files'
  BY <1>1, <1>2, Zenon DEF Files, Making
<1>4. Own => Own'
  BY <1>1, Zenon DEF Own
<1> QED
  BY <1>3, <1>4

\* Nothing is left behind that is not known to be incomplete.
LEMMA NextFiles ==
  ASSUME Shape, Files, [Next]_vars
  PROVE  Files'
PROOF
<1>1. /\ pc \notin {"setup", "serving"} => DOMAIN node = {}
      /\ pc = "serving" => \A i \in DOMAIN node : node[i].step \in {"running", "nil"}
  BY Zenon DEF Shape, GoroutineOK
<1>2. End => DOMAIN node' = {} /\ file' = file
  BY NoDomain, Zenon DEF End
<1>3. CASE run \/ SetupNetworks \/ MakeNode \/ prepare \/ Put
  <2>1. DOMAIN node = {} /\ file' = file /\ torn \subseteq torn'
    BY <1>1, <1>2, <1>3, DieEnds, Zenon DEF run, SetupNetworks, MakeNode, prepare, Put, Return, Panic, disk
  <2>2. node' = node \/ End
    BY <1>3, DieEnds, Zenon DEF run, SetupNetworks, MakeNode, prepare, Put, Return, Panic
  <2>3. DOMAIN node' = {}
    BY <1>2, <2>1, <2>2
  <2> QED
    BY <2>1, <2>3, NoGoroutines, Zenon DEF Tracked, Making
<1>4. CASE StartNodes
  <2>1. /\ nodes' = nodes /\ file' = file /\ torn' = torn
        /\ DOMAIN node' = DOMAIN nodes
        /\ \A i \in DOMAIN nodes : \E s \in {"swtpm", "stat"} : node'[i] = [step |-> s, at |-> 1]
    BY <1>4, StartedWith, Zenon DEF StartNodes, disk
  <2>2. DOMAIN node = {}
    BY <1>1, <1>4, Zenon DEF StartNodes
  <2>3. Making = {} /\ Making' = {}
    BY <2>1, <2>2 DEF Making
  <2>4. ASSUME NEW i \in DOMAIN node', NEW j \in DOMAIN Work(nodes[i])'
        PROVE  ~Passed(i, j)'
    <3>1. j \in 1..Len(Work(nodes[i])) /\ Len(Work(nodes[i])) \in Nat
      BY <2>1, <2>4, Zenon DEF Shape, FineNode, Work
    <3>2. node'[i].step \in {"swtpm", "stat"} /\ node'[i].at = 1
      BY <2>1, <2>4
    <3> QED
      BY <3>1, <3>2 DEF Passed, Started
  <2> QED
    BY <2>1, <2>3, <2>4, Zenon DEF Files, Tracked
<1>5. CASE waitNodes
  <2>1. CASE pc' = "serving" /\ UNCHANGED <<nodes, disk, node>>
    BY <2>1, FilesStay DEF disk
  <2>2. CASE Return
    <3>1. Making = {}
      BY <1>5 DEF waitNodes, Making
    <3> QED
      BY <1>2, <2>2, <3>1, NoGoroutines DEF Return, Tracked
  <2>3. CASE Panic
    BY <1>2, <2>3, DieEnds, NoGoroutines DEF Panic
  <2> QED
    BY <1>5, <2>1, <2>2, <2>3 DEF waitNodes, StartNetNSs
<1>6. ASSUME NEW i \in DOMAIN node, NodeStep(i)
      PROVE  Files'
  BY <1>6, NodeStepFiles
<1>7. ASSUME NEW i \in DOMAIN node, GuestWrites(i)
      PROVE  Files'
  <2>1. PICK p \in Given(i) :
          /\ UNCHANGED <<nodes, torn, node>>
          /\ DOMAIN file' = DOMAIN file
          /\ p \in DOMAIN file
          /\ file'[p].state = file[p].state /\ file'[p].written = TRUE
          /\ \A q \in DOMAIN file : q # p => file'[q] = file[q]
    BY <1>7, GuestWritesTo, Zenon
  <2>2. /\ Making' = Making
        /\ \A j \in DOMAIN node : Target(j)' = Target(j)
        /\ \A q : Tracked(q)' <=> Tracked(q)
    <3>1. Making' = Making
      BY <2>1 DEF Making
    <3>2. ASSUME NEW j \in DOMAIN node PROVE Target(j)' = Target(j)
      BY <2>1, OthersStay, Zenon
    <3>3. ASSUME NEW q PROVE Tracked(q)' <=> Tracked(q)
      <4>1. \A j \in Making : j \in DOMAIN node /\ Target(j)' = Target(j)
        BY <3>2 DEF Making
      <4> QED
        BY <2>1, <3>1, <4>1 DEF Tracked
    <3> QED
      BY <3>1, <3>2, <3>3
  <2>3. ASSUME NEW q \in DOMAIN file'
        PROVE  /\ file'[q].state \in {"partial", "whole"}
               /\ file'[q].written \in BOOLEAN
               /\ file'[q].state = "partial" => Tracked(q)'
    BY <2>1, <2>2, Zenon DEF Files
  <2> QED
    BY <2>1, <2>2, <2>3, OthersStay, Zenon DEF Files, Making
<1>8. CASE Shutdown
  <2>1. Making = {}
    BY <1>1, <1>8 DEF Shutdown, Making
  <2> QED
    BY <1>2, <1>8, <2>1, NoGoroutines DEF Shutdown, Return, Tracked
<1>9. CASE Kill \/ \E i \in DOMAIN node : createTaps(i)
  <2>1. End /\ \A p : Tracked(p) => p \in torn'
    BY <1>9, DieEnds, Zenon DEF Kill, createTaps, Panic
  <2> QED
    BY <1>2, <2>1, NoGoroutines
<1>10. CASE Signal \/ UNCHANGED vars
  BY <1>10, FilesStay DEF Signal, vars, disk
<1> QED
  BY <1>3, <1>4, <1>5, <1>6, <1>7, <1>8, <1>9, <1>10 DEF Next, Step

=============================================================================
