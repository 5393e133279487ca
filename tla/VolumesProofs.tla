---------------------------- MODULE VolumesProofs ----------------------------
(***************************************************************************)
(* Proofs about Volumes, for any set of definitions and any number of      *)
(* processes that run, fail, are killed and run again.                     *)
(***************************************************************************)
EXTENDS VolumesLemmas, WellFoundedInduction

-----------------------------------------------------------------------------
(* Own is inductive where the nodes have names of their own.               *)

\* Nodes of different names have no path in common.
LEMMA Apart ==
  ASSUME DistinctNodes, NEW i \in DOMAIN nodes, NEW j \in DOMAIN nodes, i # j, NEW v, NEW w
  PROVE  PathOf(nodes[i], v) # PathOf(nodes[j], w)
PROOF
  BY PathName DEF DistinctNodes

\* A goroutine of its own name takes and makes files of its own.
LEMMA NodeStepOwn ==
  ASSUME Shape, Files, DistinctNodes, Own, NEW i \in DOMAIN node, NodeStep(i)
  PROVE  Own'
PROOF
<1> DEFINE w == Work(nodes[i])
           a == node[i].at
           Path(k) == PathOf(nodes[i], w[k])
           Good(k) == w[k].kind # "hostPath" =>
                        file'[Path(k)].state = "whole" \/ Path(k) \in torn'
<1>1. /\ nodes' = nodes /\ DOMAIN node' = DOMAIN node /\ DOMAIN node \subseteq DOMAIN nodes
      /\ \A j \in DOMAIN node : j # i => node'[j] = node[j]
  BY NodeStepFrame, Zenon DEF Shape
<1>2. /\ Work(nodes[i])' = w
      /\ \A v : PathOf(nodes[i], v)' = PathOf(nodes[i], v)
      /\ node'[i].at = a => Target(i)' = Target(i)
      /\ Target(i) = Path(a) /\ Current(i) = w[a]
  BY <1>1, Zenon DEF Work, PathOf, Target, Current
<1>3. /\ DOMAIN w = 1..Len(w) /\ Len(w) \in Nat /\ a \in Nat \ {0} /\ a <= Len(w) + 1
      /\ node[i].step \in {"absent", "making"} => a \in DOMAIN w
  BY Zenon DEF Shape, GoroutineOK, FineNode
<1>4. ASSUME NEW j \in DOMAIN node, j # i
      PROVE  /\ Work(nodes[j])' = Work(nodes[j])
             /\ Target(j)' = Target(j)
             /\ \A k : Passed(j, k)' <=> Passed(j, k)
             /\ \A v : PathOf(nodes[j], v)' = PathOf(nodes[j], v)
             /\ Target(j) # Target(i)
             /\ \A v : PathOf(nodes[j], v) # Target(i)
  <2>1. node'[j] = node[j] /\ i \in DOMAIN nodes /\ j \in DOMAIN nodes
    BY <1>1, <1>4
  <2>2. /\ Work(nodes[j])' = Work(nodes[j])
        /\ Target(j)' = Target(j)
        /\ \A k : Passed(j, k)' <=> Passed(j, k)
        /\ \A v : PathOf(nodes[j], v)' = PathOf(nodes[j], v)
    BY <1>1, <2>1, OthersStay
  <2>3. \A u, v : PathOf(nodes[j], u) # PathOf(nodes[i], v)
    BY <1>4, <2>1, Apart
  <2>4. Target(j) # Target(i) /\ \A v : PathOf(nodes[j], v) # Target(i)
    BY <2>3 DEF Target
  <2> QED  BY <2>2, <2>4
\* Nothing but the file that goroutine i is at changes.
<1>5. /\ \A q \in DOMAIN file : q # Target(i) => q \in DOMAIN file' /\ file'[q] = file[q]
      /\ DOMAIN file' \subseteq DOMAIN file \cup {Target(i)}
      /\ torn \subseteq torn'
  BY Zenon DEF NodeStep, OwnStep, stat, create, finish, fail, startQEMU, await, giveUp, Advance, With
<1> HIDE DEF w, a
<1>6. ASSUME NEW j \in DOMAIN node', j # i
      PROVE  /\ node'[j].step = "absent" => Target(j)' \notin DOMAIN file'
             /\ node'[j].step = "making" => ~file'[Target(j)'].written
             /\ \A k \in DOMAIN Work(nodes[j])' :
                  (Passed(j, k)' /\ Work(nodes[j])'[k].kind # "hostPath") =>
                    LET p == PathOf(nodes[j], Work(nodes[j])[k])'
                    IN  file'[p].state = "whole" \/ p \in torn'
  <2>1. j \in DOMAIN node
    BY <1>1
  <2>2. node'[j].step = "absent" => Target(j)' \notin DOMAIN file'
    BY <1>1, <1>4, <1>5, <1>6, <2>1 DEF Own
  <2>3. node'[j].step = "making" => ~file'[Target(j)'].written
    <3>1. node[j].step = "making" => Target(j) \in DOMAIN file
      BY <2>1 DEF Files, Making
    <3> QED
      BY <1>1, <1>4, <1>5, <1>6, <2>1, <3>1 DEF Own
  <2>4. ASSUME NEW k \in DOMAIN Work(nodes[j]), Passed(j, k), Work(nodes[j])[k].kind # "hostPath",
               NEW p, p = PathOf(nodes[j], Work(nodes[j])[k])
        PROVE  file'[p].state = "whole" \/ p \in torn'
    <3>1. p \in DOMAIN file /\ (file[p].state = "whole" \/ p \in torn)
      BY <2>1, <2>4 DEF Files, Own
    <3>2. file'[p] = file[p]
      BY <1>4, <1>5, <1>6, <2>1, <2>4, <3>1
    <3> QED
      BY <1>5, <3>1, <3>2
  <2> QED
    BY <1>4, <1>6, <2>1, <2>2, <2>3, <2>4
\* It remains to look at goroutine i.
<1>7. SUFFICES ASSUME TRUE
               PROVE  /\ node'[i].step = "absent" => Target(i)' \notin DOMAIN file'
                      /\ node'[i].step = "making" => ~file'[Target(i)'].written
                      /\ \A k \in DOMAIN w : Passed(i, k)' => Good(k)
  BY <1>1, <1>2, <1>6 DEF Own, w
<1>8. ASSUME NEW k \in DOMAIN w, Passed(i, k)
      PROVE  /\ w[k].kind # "hostPath" => Path(k) \in DOMAIN file
             /\ file' = file => Good(k)
             /\ Path(k) # Target(i) => Good(k)
  <2>1. w[k].kind # "hostPath" =>
          Path(k) \in DOMAIN file /\ (file[Path(k)].state = "whole" \/ Path(k) \in torn)
    BY <1>8 DEF Files, Own, w
  <2> QED
    BY <1>5, <2>1
<1>9. ASSUME NEW k \in DOMAIN w, k < a + 1 PROVE k < a \/ k = a
  BY <1>3, <1>9
<1>10. CASE stat(i)
  <2>1. file' = file /\ torn' = torn /\ node[i].step = "stat"
    BY <1>10 DEF stat, Advance, AtFile
  <2>2. CASE Advance(i) /\ (Current(i).kind = "hostPath" \/ Target(i) \in DOMAIN file)
    <3>1. node'[i].step = "stat" /\ node'[i].at = a + 1
      BY <2>2 DEF Advance, a
    <3>2. Good(a)
      <4>1. CASE Current(i).kind = "hostPath"
        BY <1>2, <4>1
      <4>2. CASE Target(i) \in DOMAIN file
        <5>1. file[Target(i)].state = "partial" => Tracked(Target(i))
          BY <4>2 DEF Files
        <5>2. Tracked(Target(i)) => Target(i) \in torn
          BY <1>4, <2>1 DEF Tracked, Making
        <5>3. file[Target(i)].state \in {"partial", "whole"}
          BY <4>2 DEF Files
        <5> QED
          BY <1>2, <2>1, <5>1, <5>2, <5>3
      <4> QED
        BY <2>2, <4>1, <4>2
    <3>3. \A k \in DOMAIN w : Passed(i, k)' => Passed(i, k) \/ k = a
      BY <1>9, <2>1, <3>1 DEF Passed, Started, a
    <3> QED
      BY <1>8, <2>1, <3>1, <3>2, <3>3
  <2>3. CASE Enter(i, "absent") /\ Target(i) \notin DOMAIN file
    <3>1. node'[i].step = "absent" /\ node'[i].at = a
      BY <2>3, Zenon DEF Enter, a, Shape, GoroutineOK
    <3>2. \A k \in DOMAIN w : Passed(i, k)' => Passed(i, k)
      BY <3>1 DEF Passed, Started, a
    <3> QED
      BY <1>2, <1>8, <2>1, <2>3, <3>1, <3>2
  <2> QED
    BY <1>10, <2>2, <2>3 DEF stat
<1>11. CASE create(i)
  <2>1. /\ file' = With(file, Target(i), Partial)
        /\ Target(i) \notin DOMAIN file
        /\ node'[i].step = "making" /\ node'[i].at = a
    BY <1>11, Zenon DEF create, Enter, a, Shape, GoroutineOK, Own
  <2>2. file'[Target(i)] = Partial /\ ~Partial.written
    BY <2>1 DEF With, Partial
  <2>3. \A k \in DOMAIN w : Passed(i, k)' => Passed(i, k)
    BY <2>1 DEF Passed, Started, a
  <2>4. \A k \in DOMAIN w : Passed(i, k)' => Good(k)
    BY <1>8, <2>1, <2>3
  <2> QED
    BY <1>2, <2>1, <2>2, <2>4
<1>12. CASE finish(i)
  <2> DEFINE f == [Partial EXCEPT !.state = "whole", !.data = Data(Current(i))]
  <2>1. /\ file' = With(file, Target(i), f)
        /\ node[i].step = "making"
        /\ node'[i].step = "stat" /\ node'[i].at = a + 1
    BY <1>12 DEF finish, Advance, a
  <2>2. f.state = "whole"
    BY DEF Partial
  <2> HIDE DEF f
  <2>3. file'[Target(i)].state = "whole"
    BY <2>1, <2>2 DEF With
  <2>4. \A k \in DOMAIN w : Passed(i, k)' => Passed(i, k) \/ k = a
    BY <1>9, <2>1 DEF Passed, Started, a
  <2> QED
    BY <1>2, <1>8, <2>1, <2>3, <2>4
<1>13. CASE fail(i) \/ startQEMU(i)
  <2>1. /\ file' = file
        /\ node'[i].step \in {"failed", "polling"} /\ node'[i].at = a
    <3>1. node[i] \in [step : Steps, at : Nat \ {0}]
      BY Zenon DEF Shape, GoroutineOK
    <3>2. file' = file /\ \E s \in {"failed", "polling"} : Enter(i, s)
      BY <1>13, Zenon DEF fail, startQEMU
    <3> QED
      BY <3>1, <3>2 DEF Enter, a
  <2>2. \A k \in DOMAIN w : Passed(i, k)' => Passed(i, k)
    <3>1. CASE fail(i)
      <4>1. node'[i].step = "failed"
        BY <3>1, Zenon DEF fail, Enter, Shape, GoroutineOK
      <4> QED
        BY <2>1, <4>1 DEF Passed, Started, a
    <3>2. CASE startQEMU(i)
      <4>1. \A k \in DOMAIN w : k < a
        <5>1. a \notin DOMAIN w
          BY <3>2 DEF startQEMU, w, a
        <5> QED
          BY <1>3, <5>1
      <4> QED
        BY <4>1 DEF Passed, Started, a
    <3> QED
      BY <1>13, <3>1, <3>2
  <2> QED
    BY <1>8, <2>1, <2>2
<1>14. CASE await(i) \/ giveUp(i)
  <2>1. PICK s \in {"stat", "running", "failed", "nil"} :
          node'[i] = [step |-> s, at |-> a] /\ (s = "running" => node[i].step = "polling")
    BY <1>14, WaitIsOver, Zenon DEF a
  <2>2. node'[i].step = s /\ node'[i].at = a
    BY <2>1
  <2>3. \A k \in DOMAIN w : Passed(i, k)' => Passed(i, k)
    BY <2>1, <2>2 DEF Passed, Started, a
  <2>4. file' = file
    BY <1>14, WaitIsOver, Zenon
  <2> QED
    BY <1>8, <2>2, <2>3, <2>4
<1> QED
  BY <1>10, <1>11, <1>12, <1>13, <1>14 DEF NodeStep, OwnStep

\* Every step keeps the goroutines apart.
LEMMA NextOwn ==
  ASSUME Shape, Files, DistinctNodes => Own, [Next]_vars, DistinctNodes'
  PROVE  Own'
PROOF
<1>1. DOMAIN node' = {} => Own'
  BY DEF Own
<1>2. End => DOMAIN node' = {}
  BY NoDomain, Zenon DEF End
<1>3. nodes' = nodes => DistinctNodes
  BY DEF DistinctNodes
<1>4. CASE run \/ SetupNetworks \/ MakeNode \/ prepare \/ Put
  <2>1. DOMAIN node = {}
    BY <1>4, Zenon DEF Shape, run, SetupNetworks, MakeNode, prepare, Put
  <2>2. node' = node \/ End
    BY <1>4, DieEnds, Zenon DEF run, SetupNetworks, MakeNode, prepare, Put, Return, Panic
  <2> QED
    BY <1>1, <1>2, <2>1, <2>2
<1>5. CASE StartNodes
  <2>1. /\ nodes' = nodes /\ DOMAIN node' = DOMAIN nodes
        /\ \A i \in DOMAIN nodes : \E s \in {"swtpm", "stat"} : node'[i] = [step |-> s, at |-> 1]
    BY <1>5, StartedWith, Zenon DEF StartNodes
  <2>2. ASSUME NEW i \in DOMAIN node'
        PROVE  /\ node'[i].step \notin {"absent", "making"}
               /\ \A j \in DOMAIN Work(nodes[i])' : ~Passed(i, j)'
    <3>1. Len(Work(nodes[i])) \in Nat /\ DOMAIN Work(nodes[i])' = 1..Len(Work(nodes[i]))
      BY <2>1, <2>2, Zenon DEF Shape, FineNode, Work
    <3>2. node'[i].step \in {"swtpm", "stat"} /\ node'[i].at = 1
      BY <2>1, <2>2
    <3> QED
      BY <3>1, <3>2 DEF Passed, Started
  <2> QED
    BY <2>2, Zenon DEF Own
<1>6. CASE waitNodes \/ Signal \/ UNCHANGED vars
  <2>1. End \/ UNCHANGED <<nodes, file, torn, node>>
    BY <1>6, DieEnds DEF waitNodes, StartNetNSs, Signal, vars, disk, Return, Panic
  <2> QED
    BY <1>1, <1>2, <1>3, <2>1, FilesStay
<1>7. CASE Shutdown \/ Kill \/ \E i \in DOMAIN node : createTaps(i)
  BY <1>1, <1>2, <1>7, DieEnds, Zenon DEF Shutdown, Kill, createTaps, Panic, Return
<1>8. ASSUME NEW i \in DOMAIN node, NodeStep(i)
      PROVE  Own'
  BY <1>3, <1>8, NodeStepFrame, NodeStepOwn
<1>9. ASSUME NEW i \in DOMAIN node, GuestWrites(i)
      PROVE  Own'
  <2>1. PICK p \in Given(i) :
          /\ UNCHANGED <<nodes, torn, node>>
          /\ DOMAIN file' = DOMAIN file
          /\ p \in DOMAIN file
          /\ file'[p].state = file[p].state
          /\ \A q \in DOMAIN file : q # p => file'[q] = file[q]
    BY <1>9, GuestWritesTo, Zenon
  <2>2. Started(i) /\ Own /\ DistinctNodes /\ DOMAIN node \subseteq DOMAIN nodes
    BY <1>3, <1>9, <2>1, Zenon DEF GuestWrites, Shape
  <2>3. ASSUME NEW j \in DOMAIN node
        PROVE  /\ Work(nodes[j])' = Work(nodes[j])
               /\ Target(j)' = Target(j)
               /\ \A k : Passed(j, k)' <=> Passed(j, k)
               /\ \A v : PathOf(nodes[j], v)' = PathOf(nodes[j], v)
    BY <2>1, OthersStay, Zenon
  <2>4. ASSUME NEW j \in DOMAIN node, node[j].step = "making"
        PROVE  ~file'[Target(j)].written
    <3>1. j # i
      BY <2>2, <2>4 DEF Started
    <3>2. p # Target(j)
      BY <2>2, <3>1, Apart DEF Given, Target
    <3>3. Target(j) \in DOMAIN file /\ ~file[Target(j)].written
      BY <2>2, <2>4, Zenon DEF Files, Own, Making
    <3> QED
      BY <2>1, <3>2, <3>3
  <2>5. \A q \in DOMAIN file : file'[q].state = file[q].state
    BY <2>1
  <2>6. ASSUME NEW j \in DOMAIN node, NEW k \in DOMAIN Work(nodes[j]),
               Passed(j, k), Work(nodes[j])[k].kind # "hostPath",
               NEW q, q = PathOf(nodes[j], Work(nodes[j])[k])
        PROVE  file'[q].state = "whole" \/ q \in torn'
    BY <2>1, <2>2, <2>5, <2>6, Zenon DEF Files, Own
  <2>7. ASSUME NEW j \in DOMAIN node, node[j].step = "absent"
        PROVE  Target(j) \notin DOMAIN file'
    BY <2>1, <2>2, <2>7 DEF Own
  <2>8. ASSUME NEW j \in DOMAIN node'
        PROVE  /\ node'[j].step = "absent" => Target(j)' \notin DOMAIN file'
               /\ node'[j].step = "making" => ~file'[Target(j)'].written
    BY <2>1, <2>3, <2>4, <2>7
  <2>9. ASSUME NEW j \in DOMAIN node', NEW k \in DOMAIN Work(nodes'[j]),
               Passed(j, k)', Work(nodes'[j])[k].kind # "hostPath",
               NEW q, q = PathOf(nodes'[j], Work(nodes'[j])[k])
        PROVE  file'[q].state = "whole" \/ q \in torn'
    <3>1. j \in DOMAIN node /\ nodes' = nodes /\ Passed(j, k)
      BY <2>1, <2>3, <2>9
    <3> QED
      BY <2>6, <2>9, <3>1
  <2> QED
    BY <2>8, <2>9 DEF Own
<1> QED
  BY <1>4, <1>5, <1>6, <1>7, <1>8, <1>9 DEF Next, Step

-----------------------------------------------------------------------------
(* What the whole files hold.                                              *)

\* The node that NewNode makes of the i-th document.
NodeOf(i) == NewNode(NodeSpec_validated(docs[i]), docs)

HasURL(v) == v.image.url # ""

IsCopy(v) == v.kind = "image" /\ ~v.cow

\* d is a download of that URL, decompressed as some image says that has it.
Download(url, d) ==
  \E k \in OfKind(docs, "Image") : docs[k].url = url /\ d = <<url, docs[k].compression>>

\* d is what Setup makes of volume v, at whatever time.
Holds(v, d) ==
  /\ v.kind = "raw" => d[2] = v.format
  /\ v.kind = "localds" /\ v.netConfig => d[2] = "qcow2"
  /\ IsCopy(v) => \/ d = <<"copy", v.image.file, v.image.decomp>>
                  \/ /\ HasURL(v)
                     /\ \E k \in OfKind(docs, "Image") :
                          docs[k].url = v.image.url /\ d = <<"copy", docs[k].url, docs[k].compression>>

\* Some node of the definition makes a file of that path and those data.
AsMade(p, d) ==
  \E i \in OfKind(docs, "Node") :
    /\ NodeOf(i) # Failed
    /\ \E j \in DOMAIN Work(NodeOf(i)) :
         p = PathOf(NodeOf(i), Work(NodeOf(i))[j]) /\ Holds(Work(NodeOf(i))[j], d)

\* The nodes are those of the definition, the cache holds its images, and a
\* file that is being made has its image there.
Defined ==
  /\ \A i \in DOMAIN nodes : NodeOf(i) # Failed /\ nodes[i] = NodeOf(i)
  /\ pc \in {"setup", "serving"} => DOMAIN nodes = OfKind(docs, "Node")
  /\ \A u \in DOMAIN cache : Download(u, cache[u])
  /\ \A i \in Making : HasURL(Current(i)) => Contains(Current(i).image.url)
  /\ \A p \in DOMAIN file : file[p].state = "whole" => AsMade(p, file[p].data)

\* A set of places has a first one.
LEMMA FirstPlace ==
  ASSUME NEW T \in SUBSET Nat, T # {}
  PROVE  \E x \in T : \A y \in T : x <= y
PROOF
<1> DEFINE R == OpToRel(<, Nat)
<1>1. \E x \in T : \A y \in T : ~(<<y, x>> \in R)
  <2> HIDE DEF R
  <2>1. IsWellFoundedOn(R, Nat)
    BY NatLessThanWellFounded, Zenon DEF R
  <2> QED
    BY <2>1, WFMin, Zenon
<1>2. \A x, y \in T : ~(<<y, x>> \in R) => x <= y
  BY DEF OpToRel
<1> QED
  BY <1>1, <1>2, Zenon

\* findImage returns an image of the definition that has the volume's name for it.
LEMMA FoundImage ==
  ASSUME NEW d \in Definitions, NEW v, findImage(v, d) # Failed
  PROVE  \E k \in OfKind(d, "Image") :
           /\ d[k].name = v.image
           /\ findImage(v, d) = [url |-> d[k].url, file |-> d[k].file, decomp |-> d[k].compression]
PROOF
<1> DEFINE is == {i \in OfKind(d, "Image") : d[i].name = v.image}
           k == CHOOSE i \in is : \A j \in is : i <= j
<1>1. is # {} /\ findImage(v, d) = newImage(d[k])
  BY DEF findImage
<1>2. is \in SUBSET Nat
  BY VolumesAssumption DEF OfKind
<1>3. k \in is
  <2> HIDE DEF is
  <2> QED
    BY <1>1, <1>2, FirstPlace, Zenon
<1> HIDE DEF k
<1>4. newImage(d[k]) # Failed
  BY <1>1
<1>5. newImage(d[k]) = [url |-> d[k].url, file |-> d[k].file, decomp |-> d[k].compression]
  BY <1>4 DEF newImage
<1> QED
  BY <1>1, <1>3, <1>5

\* The image of a volume, which only one of kind image has, is the definition's.
LEMMA VolumeMade ==
  ASSUME NEW d \in Definitions, NEW v, newNodeVolume(v, d) # Failed
  PROVE  LET w == newNodeVolume(v, d)
         IN  /\ w.kind # "nvram"
             /\ w.kind # "image" => w.image = NoImage
             /\ w.kind = "image" =>
                  \E k \in OfKind(d, "Image") :
                    /\ d[k].name = v.image
                    /\ w.image = [url |-> d[k].url, file |-> d[k].file, decomp |-> d[k].compression]
PROOF
<1> DEFINE image == IF v.kind = "image" THEN findImage(v, d) ELSE NoImage
           w == newNodeVolume(v, d)
<1>1. /\ image # Failed
      /\ v.kind \in {"image", "localds", "raw", "hostPath"}
      /\ w.kind = v.kind
      /\ w.image = image
  BY Zenon DEF newNodeVolume
<1>2. w.kind # "image" => w.image = NoImage
  BY <1>1
<1>3. w.kind = "image" => findImage(v, d) # Failed /\ w.image = findImage(v, d)
  BY <1>1
<1> HIDE DEF w, image
<1>4. w.kind = "image" =>
        \E k \in OfKind(d, "Image") :
          /\ d[k].name = v.image
          /\ w.image = [url |-> d[k].url, file |-> d[k].file, decomp |-> d[k].compression]
  BY <1>3, FoundImage
<1>5. w.kind # "nvram"
  BY <1>1
<1> QED
  BY <1>2, <1>4, <1>5 DEF w

\* NewNode makes the taps and the volumes of the document, in their order.
LEMMA NodeMade ==
  ASSUME docs \in Definitions, NEW i \in OfKind(docs, "Node"), NodeOf(i) # Failed
  PROVE  /\ NodeOf(i).taps = docs[i].interfaces
         /\ DOMAIN NodeOf(i).volumes = DOMAIN docs[i].volumes
         /\ \A j \in DOMAIN docs[i].volumes :
              /\ newNodeVolume(docs[i].volumes[j], docs) # Failed
              /\ NodeOf(i).volumes[j] = newNodeVolume(docs[i].volumes[j], docs)
PROOF
<1> DEFINE s == NodeSpec_validated(docs[i])
           vols == [j \in DOMAIN s.volumes |-> newNodeVolume(s.volumes[j], docs)]
<1>1. s.volumes = docs[i].volumes /\ s.interfaces = docs[i].interfaces
  BY VolumesAssumption DEF NodeSpec_validated
<1>2. /\ NodeOf(i).taps = s.interfaces
      /\ NodeOf(i).volumes = vols /\ \A j \in DOMAIN vols : vols[j] # Failed
  BY Zenon DEF NewNode, NodeOf
<1> HIDE DEF s
<1> QED
  BY <1>1, <1>2

\* Setup makes the volumes of a node, and its NVRAM after them.
LEMMA WorkOf ==
  ASSUME docs \in Definitions, NEW i \in OfKind(docs, "Node"), NodeOf(i) # Failed
  PROVE  /\ \A j \in DOMAIN NodeOf(i).volumes :
              j \in DOMAIN Work(NodeOf(i)) /\ Work(NodeOf(i))[j] = NodeOf(i).volumes[j]
         /\ \A j \in DOMAIN Work(NodeOf(i)) :
              j \in DOMAIN NodeOf(i).volumes \/ Work(NodeOf(i))[j] = NVRAM
PROOF
<1> DEFINE k == Len(docs[i].volumes)
<1>1. PICK vols : vols = NodeOf(i).volumes
  OBVIOUS
<1>2. k \in Nat /\ DOMAIN vols = 1..k
  BY <1>1, NodeMade, VolumesAssumption
<1>3. \E f : vols = [j \in DOMAIN vols |-> f[j]]
  <2>1. \E f : vols = [j \in DOMAIN docs[i].volumes |-> f[j]]
    <3> DEFINE s == NodeSpec_validated(docs[i])
               f == [j \in DOMAIN s.volumes |-> newNodeVolume(s.volumes[j], docs)]
    <3>1. s.volumes = docs[i].volumes
      BY VolumesAssumption DEF NodeSpec_validated
    <3>2. vols = f
      BY <1>1, Zenon DEF NewNode, NodeOf
    <3>3. f = [j \in DOMAIN docs[i].volumes |-> f[j]]
      BY <3>1
    <3> QED
      BY <3>2, <3>3
  <2> QED
    BY <2>1, <1>1, NodeMade
<1> HIDE DEF k
<1>4. vols \in Seq({vols[j] : j \in 1..k}) /\ Len(vols) = k
  BY <1>2, <1>3
<1>5. CASE NodeOf(i).uefi
  <2> DEFINE S == {vols[j] : j \in 1..k}
             T == S \cup {NVRAM}
  <2>1. Work(NodeOf(i)) = Append(vols, NVRAM)
    BY <1>1, <1>5 DEF Work
  <2>2. vols \in Seq(T) /\ NVRAM \in T
    <3> HIDE DEF NVRAM
    <3> QED
      BY <1>4
  <2> HIDE DEF T
  <2>3. PICK x \in T : x = NVRAM
    BY <2>2
  <2>4. /\ DOMAIN Append(vols, x) = 1..(k + 1)
        /\ \A j \in 1..k : Append(vols, x)[j] = vols[j]
        /\ Append(vols, x)[k + 1] = x
    BY <1>2, <1>4, <2>2
  <2>5. \A j \in 1..(k + 1) : j \in 1..k \/ j = k + 1
    BY <1>2
  <2>6. \A j \in 1..k : j \in 1..(k + 1)
    BY <1>2
  <2> HIDE DEF S, NVRAM
  <2> QED
    BY <1>1, <1>2, <2>1, <2>3, <2>4, <2>5, <2>6
<1>6. CASE ~NodeOf(i).uefi
  BY <1>6 DEF Work
<1> QED
  BY <1>5, <1>6

\* Triples.
LEMMA Triples ==
  ASSUME NEW a, NEW b, NEW c
  PROVE  <<a, b, c>>[2] = b /\ <<a>> \o <<b, c>> = <<a, b, c>>
PROOF
<1>1. <<a>> \o <<b, c>> = <<a, b, c>>
  <2> DEFINE S == {a, b, c}
             s == <<a>> \o <<b, c>>
  <2>1. <<a>> \in Seq(S) /\ <<b, c>> \in Seq(S) /\ <<a, b, c>> \in Seq(S)
    OBVIOUS
  <2>2. Len(s) = 3 /\ s[1] = a /\ s[2] = b /\ s[3] = c
    OBVIOUS
  <2>3. s \in Seq(S)
    BY <2>1
  <2> HIDE DEF s
  <2>4. PICK t \in Seq(S) : t = <<a, b, c>> /\ Len(t) = 3 /\ t[1] = a /\ t[2] = b /\ t[3] = c
    BY <2>1, Zenon
  <2> HIDE DEF S
  <2>5. \A j \in 1..3 : s[j] = t[j]
    BY <2>2, <2>4
  <2>6. s = t
    BY <2>2, <2>3, <2>4, <2>5
  <2> QED
    BY <2>4, <2>6 DEF s
<1>2. <<a, b, c>>[2] = b
  OBVIOUS
<1> QED
  BY <1>1, <1>2

\* What Data says of the kinds of volumes that the properties tell apart.
LEMMA DataOf ==
  ASSUME NEW v
  PROVE  /\ v.kind = "raw" => Data(v)[2] = v.format
         /\ v.kind = "localds" /\ v.netConfig => Data(v)[2] = "qcow2"
         /\ IsCopy(v) /\ v.image.file # "" => Data(v) = <<"copy", v.image.file, v.image.decomp>>
         /\ IsCopy(v) /\ v.image.file = "" => Data(v) = <<"copy">> \o cache[v.image.url]
PROOF
<1>1. v.kind = "raw" => \E x : Data(v) = <<v.kind, v.format, x>>
  BY Zenon DEF Data
<1>2. v.kind = "raw" => Data(v)[2] = v.format
  BY <1>1, Triples
<1>3. IsCopy(v) /\ v.image.file # "" => Data(v) = <<"copy", v.image.file, v.image.decomp>>
  BY Zenon DEF Data, IsCopy
<1>4. IsCopy(v) /\ v.image.file = "" => Data(v) = <<"copy">> \o cache[v.image.url]
  BY Zenon DEF Data, IsCopy
<1>5. v.kind = "localds" /\ v.netConfig => \E x : Data(v) = <<"localds", "qcow2", x>>
  BY Zenon DEF Data
<1>6. v.kind = "localds" /\ v.netConfig => Data(v)[2] = "qcow2"
  BY <1>5, Triples
<1> QED
  BY <1>2, <1>3, <1>4, <1>6, Zenon

\* An image of an accepted definition has a URL or a file.
LEMMA ImageIsSomewhere ==
  ASSUME ~ParseFails(docs), NEW k \in OfKind(docs, "Image"), docs[k].file = ""
  PROVE  docs[k].url # ""
PROOF
<1>1. k \in DOMAIN docs /\ docs[k].kind = "Image"
  BY Zenon DEF OfKind
<1>2. Valid(docs[k])
  BY <1>1, Zenon DEF ParseFails
<1>3. ImageSpec_validate(docs[k])
  BY <1>1, <1>2, Zenon DEF Valid
<1> QED
  BY <1>3, Zenon DEF ImageSpec_validate

\* Where a goroutine is making a file.
LEMMA AtWork ==
  ASSUME Shape, Defined, NEW i \in Making
  PROVE  /\ docs \in Definitions /\ ~ParseFails(docs)
         /\ i \in OfKind(docs, "Node") /\ NodeOf(i) # Failed /\ nodes[i] = NodeOf(i)
         /\ node[i].at \in DOMAIN Work(NodeOf(i)) /\ Current(i) = Work(NodeOf(i))[node[i].at]
         /\ HasURL(Current(i)) => Contains(Current(i).image.url)
PROOF
<1>1. i \in DOMAIN node /\ node[i].step = "making"
  BY DEF Making
<1>2. pc # "down" /\ i \in DOMAIN nodes
  BY <1>1, Zenon DEF Shape
<1>3. node[i].at \in DOMAIN Work(nodes[i])
  BY <1>1, Zenon DEF Shape, GoroutineOK
<1>4. docs \in Definitions /\ ~ParseFails(docs) /\ i \in OfKind(docs, "Node")
  BY <1>2, Zenon DEF Shape
<1>5. NodeOf(i) # Failed /\ nodes[i] = NodeOf(i)
  BY <1>2 DEF Defined
<1>6. HasURL(Current(i)) => Contains(Current(i).image.url)
  BY DEF Defined
<1>7. Current(i) = Work(NodeOf(i))[node[i].at]
  BY <1>5 DEF Current
<1> QED
  BY <1>3, <1>4, <1>5, <1>6, <1>7

\* What Setup makes is what the definition says.
LEMMA DataHolds ==
  ASSUME Shape, Defined, NEW i \in Making
  PROVE  Holds(Current(i), Data(Current(i)))
PROOF
<1>1. PICK v, j : v = Current(i) /\ j = node[i].at
  OBVIOUS
<1>2. /\ docs \in Definitions /\ ~ParseFails(docs)
      /\ i \in OfKind(docs, "Node") /\ NodeOf(i) # Failed
      /\ j \in DOMAIN Work(NodeOf(i)) /\ v = Work(NodeOf(i))[j]
      /\ HasURL(v) => Contains(v.image.url)
  BY <1>1, AtWork
<1>3. CASE v = NVRAM
  <2>1. v.kind = "nvram"
    BY <1>3, Zenon DEF NVRAM
  <2> QED
    BY <1>1, <2>1 DEF Holds, IsCopy
<1>4. CASE v # NVRAM
  <2>1. j \in DOMAIN NodeOf(i).volumes /\ v = NodeOf(i).volumes[j]
    BY <1>2, <1>4, WorkOf
  <2>2. /\ newNodeVolume(docs[i].volumes[j], docs) # Failed
        /\ v = newNodeVolume(docs[i].volumes[j], docs)
    BY <1>2, <2>1, NodeMade
  <2>3. /\ v.kind = "raw" => Data(v)[2] = v.format
        /\ v.kind = "localds" /\ v.netConfig => Data(v)[2] = "qcow2"
    BY DataOf, Zenon
  <2>4. ASSUME IsCopy(v)
        PROVE  \/ Data(v) = <<"copy", v.image.file, v.image.decomp>>
               \/ HasURL(v) /\ \E k \in OfKind(docs, "Image") :
                                 docs[k].url = v.image.url /\ Data(v) = <<"copy", docs[k].url, docs[k].compression>>
    <3>1. PICK k \in OfKind(docs, "Image") :
            v.image = [url |-> docs[k].url, file |-> docs[k].file, decomp |-> docs[k].compression]
      BY <1>2, <2>2, <2>4, VolumeMade DEF IsCopy
    <3>2. v.image.url = docs[k].url /\ v.image.file = docs[k].file
      BY <3>1
    <3>3. CASE v.image.file # ""
      BY <2>4, <3>3, DataOf, Zenon
    <3>4. CASE v.image.file = ""
      <4>1. HasURL(v)
        BY <1>2, <3>2, <3>4, ImageIsSomewhere, Zenon DEF HasURL
      <4>2. PICK e \in OfKind(docs, "Image") :
              docs[e].url = v.image.url /\ cache[v.image.url] = <<v.image.url, docs[e].compression>>
        BY <1>2, <4>1, Zenon DEF Contains, Defined, Download
      <4>3. Data(v) = <<"copy">> \o <<docs[e].url, docs[e].compression>>
        BY <2>4, <3>4, <4>2, DataOf, Zenon
      <4>4. Data(v) = <<"copy", docs[e].url, docs[e].compression>>
        BY <4>3, Triples
      <4> QED
        BY <4>1, <4>2, <4>4
    <3> QED
      BY <3>3, <3>4, Zenon
  <2> QED
    BY <1>1, <2>3, <2>4 DEF Holds
<1> QED
  BY <1>3, <1>4

\* A file is made where the definition has it.
LEMMA FinishedAsMade ==
  ASSUME Shape, Defined, NEW i \in Making
  PROVE  AsMade(Target(i), Data(Current(i)))
PROOF
<1>1. /\ i \in OfKind(docs, "Node") /\ NodeOf(i) # Failed /\ nodes[i] = NodeOf(i)
      /\ node[i].at \in DOMAIN Work(NodeOf(i)) /\ Current(i) = Work(NodeOf(i))[node[i].at]
  BY AtWork
<1>2. Holds(Current(i), Data(Current(i)))
  BY DataHolds
<1>3. Target(i) = PathOf(NodeOf(i), Current(i))
  BY <1>1 DEF Target
<1> QED
  BY <1>1, <1>2, <1>3 DEF AsMade

\* What is said of the definition alone stays.
LEMMA DocsStay ==
  ASSUME docs' = docs
  PROVE  /\ \A i : NodeOf(i)' = NodeOf(i)
         /\ \A u, d : Download(u, d)' <=> Download(u, d)
         /\ \A p, d : AsMade(p, d)' <=> AsMade(p, d)
PROOF
<1>1. ASSUME NEW i PROVE NodeOf(i)' = NodeOf(i)
  BY DEF NodeOf
<1>2. ASSUME NEW u, NEW d PROVE Download(u, d)' <=> Download(u, d)
  BY DEF Download
<1>3. ASSUME NEW v, NEW d PROVE Holds(v, d)' <=> Holds(v, d)
  BY DEF Holds, IsCopy, HasURL
<1>4. ASSUME NEW p, NEW d PROVE AsMade(p, d)' <=> AsMade(p, d)
  BY <1>1, <1>3, Zenon DEF AsMade
<1> QED
  BY <1>1, <1>2, <1>4

\* Nothing that Defined speaks of changes, or no goroutine is left.
LEMMA DefinedStays ==
  ASSUME Defined, UNCHANGED <<docs, nodes, cache, file>>,
         pc' \in {"setup", "serving"} => pc \in {"setup", "serving"},
         node' = node \/ DOMAIN node' = {}
  PROVE  Defined'
PROOF
<1>1. ASSUME NEW i \in Making'
      PROVE  i \in Making /\ Current(i)' = Current(i)
  BY <1>1, Zenon DEF Making, Current, Work
<1>2. \A i \in Making' : HasURL(Current(i))' => Contains(Current(i).image.url)'
  BY <1>1, Zenon DEF Defined, HasURL, Contains
<1>3. \A i \in DOMAIN nodes' : NodeOf(i)' # Failed /\ nodes'[i] = NodeOf(i)'
  BY DocsStay DEF Defined
<1>4. pc' \in {"setup", "serving"} => DOMAIN nodes' = OfKind(docs', "Node")
  BY DEF Defined
<1>5. \A u \in DOMAIN cache' : Download(u, cache[u])'
  BY DocsStay DEF Defined
<1>6. \A p \in DOMAIN file' : file'[p].state = "whole" => AsMade(p, file[p].data)'
  BY DocsStay DEF Defined
<1> QED
  BY <1>2, <1>3, <1>4, <1>5, <1>6, Zenon DEF Defined

\* The nodes are made as the definition says.
LEMMA DefinedMakeNode ==
  ASSUME Shape, Defined, MakeNode
  PROVE  Defined'
PROOF
<1>1. pc = "prepare" /\ DOMAIN node = {}
  BY Zenon DEF MakeNode, Shape
<1>2. PICK i \in Left :
        \/ Panic \/ Return
        \/ /\ NodeOf(i) # Failed
           /\ nodes' = With(nodes, i, NodeOf(i))
           /\ UNCHANGED <<docs, pc, getting, disk, node, cancelled, panicked, runs>>
  BY Zenon DEF MakeNode, NodeOf
<1>3. CASE Panic \/ Return
  <2>1. End
    BY <1>3, DieEnds DEF Panic, Return
  <2> QED
    BY <2>1, NoDomain, DefinedStays, Zenon DEF End
<1>4. CASE /\ NodeOf(i) # Failed
           /\ nodes' = With(nodes, i, NodeOf(i))
           /\ UNCHANGED <<docs, pc, getting, disk, node, cancelled, panicked, runs>>
  <2>1. docs' = docs /\ pc' = pc /\ node' = node /\ cache' = cache /\ file' = file
    BY <1>4 DEF disk
  <2>2. \A j \in DOMAIN nodes' : NodeOf(j)' # Failed /\ nodes'[j] = NodeOf(j)'
    BY <1>4, <2>1, DocsStay, Zenon DEF Defined, With
  <2>3. Making' = {}
    BY <1>1, <2>1 DEF Making
  <2>4. \A u \in DOMAIN cache' : Download(u, cache[u])'
    BY <2>1, DocsStay, Zenon DEF Defined
  <2>5. \A p \in DOMAIN file' : file'[p].state = "whole" => AsMade(p, file[p].data)'
    BY <2>1, DocsStay DEF Defined
  <2>6. pc' \notin {"setup", "serving"}
    BY <1>1, <2>1
  <2> QED
    BY <2>2, <2>3, <2>4, <2>5, <2>6 DEF Defined
<1> QED
  BY <1>2, <1>3, <1>4

\* A download is one of the definition's images.
LEMMA DefinedPut ==
  ASSUME Shape, Defined, Put
  PROVE  Defined'
PROOF
<1>1. pc = "prepare" /\ DOMAIN node = {} /\ getting # ""
  BY Zenon DEF Put, Shape
<1>2. CASE End
  BY <1>2, NoDomain, DefinedStays, Zenon DEF End
<1>3. CASE ~End
  <2> DEFINE w == Last.volumes[vol]
  <2>1. /\ cache' = With(cache, getting, <<getting, w.image.decomp>>)
        /\ UNCHANGED <<docs, pc, nodes, file, node>>
    BY <1>3, Zenon DEF Put
  <2>2. /\ docs \in Definitions
        /\ last \in DOMAIN nodes /\ last \in OfKind(docs, "Node")
        /\ vol \in DOMAIN Last.volumes /\ getting = w.image.url
    BY <1>1, Zenon DEF Shape
  <2>3. NodeOf(last) # Failed /\ Last = NodeOf(last)
    BY <2>2 DEF Defined, Last
  <2>4. /\ newNodeVolume(docs[last].volumes[vol], docs) # Failed
        /\ w = newNodeVolume(docs[last].volumes[vol], docs)
    BY <2>2, <2>3, NodeMade
  <2> HIDE DEF w
  <2>5. w.kind = "image"
    <3>1. NoImage.url = ""
      BY DEF NoImage
    <3>2. w.kind # "image" => w.image = NoImage
      BY <2>2, <2>4, VolumeMade
    <3> QED
      BY <1>1, <2>2, <3>1, <3>2, Zenon
  <2>6. PICK k \in OfKind(docs, "Image") :
          w.image = [url |-> docs[k].url, file |-> docs[k].file, decomp |-> docs[k].compression]
    BY <2>2, <2>4, <2>5, VolumeMade, Zenon
  <2>7. getting = docs[k].url /\ w.image.decomp = docs[k].compression
    BY <2>2, <2>6
  <2>8. Download(getting, <<getting, w.image.decomp>>)
    BY <2>7 DEF Download
  <2>9. \A u \in DOMAIN cache' : Download(u, cache'[u])
    BY <2>1, <2>8 DEF Defined, With
  <2>10. \A u \in DOMAIN cache' : Download(u, cache[u])'
    BY <2>1, <2>9, DocsStay
  <2>11. Making' = {}
    BY <1>1, <2>1, Zenon DEF Making
  <2>12. \A j \in DOMAIN nodes' : NodeOf(j)' # Failed /\ nodes'[j] = NodeOf(j)'
    BY <2>1, DocsStay, Zenon DEF Defined
  <2>13. \A p \in DOMAIN file' : file'[p].state = "whole" => AsMade(p, file[p].data)'
    BY <2>1, DocsStay DEF Defined
  <2>14. pc' \notin {"setup", "serving"}
    BY <1>1, <2>1, Zenon
  <2> QED
    BY <2>10, <2>11, <2>12, <2>13, <2>14, Zenon DEF Defined
<1> QED
  BY <1>2, <1>3

\* A goroutine makes the files that the definition has, and only of images
\* that are there.
LEMMA DefinedNodeStep ==
  ASSUME Shape, Defined, NEW i \in DOMAIN node, NodeStep(i)
  PROVE  Defined'
PROOF
<1>1. /\ UNCHANGED <<docs, pc, nodes, cache>>
      /\ DOMAIN node' = DOMAIN node
      /\ \A j \in DOMAIN node : j # i => node'[j] = node[j]
  BY NodeStepFrame
<1>2. ASSUME NEW j \in Making', j # i
      PROVE  HasURL(Current(j))' => Contains(Current(j).image.url)'
  <2>1. j \in DOMAIN node /\ node'[j] = node[j]
    BY <1>1, <1>2 DEF Making
  <2>2. j \in Making /\ Current(j)' = Current(j)
    BY <1>1, <1>2, <2>1 DEF Making, Current, Work
  <2> QED
    BY <1>1, <2>2, Zenon DEF Defined, HasURL, Contains
<1>3. ASSUME i \in Making'
      PROVE  HasURL(Current(i))' => Contains(Current(i).image.url)'
  <2>1. node'[i].step = "making"
    BY <1>3 DEF Making
  <2>2. node[i].step = "absent" /\ node'[i].at = node[i].at
    <3>1. \A s, a : node'[i] = [step |-> s, at |-> a] => node'[i].step = s /\ node'[i].at = a
      OBVIOUS
    <3>2. \A s \in {"stat", "running", "failed", "nil"} : s # "making"
      OBVIOUS
    <3>3. \/ \E s, a : s # "making" /\ node'[i] = [step |-> s, at |-> a]
          \/ node[i].step = "absent" /\ node'[i] = [step |-> "making", at |-> node[i].at]
      <4>1. PICK new : new = node'[i]
        OBVIOUS
      <4>2. \/ \E s, a : s # "making" /\ new = [step |-> s, at |-> a]
            \/ node[i].step = "absent" /\ new = [step |-> "making", at |-> node[i].at]
        BY <3>2, <4>1, NodeStepTo, Zenon
      <4> QED
        BY <4>1, <4>2, Zenon
    <3> QED
      BY <2>1, <3>1, <3>3, Zenon
  <2>3. create(i)
    BY <2>1, <2>2, NodeStepTo, Zenon DEF NodeStep, OwnStep, stat, finish, fail, startQEMU, await, giveUp, AtFile, Enter
  <2>4. HasURL(Current(i)) => Contains(Current(i).image.url)
    BY <2>3, Zenon DEF create, HasURL
  <2>5. Current(i)' = Current(i)
    BY <1>1, <2>2 DEF Current, Work
  <2> QED
    BY <1>1, <2>4, <2>5, Zenon DEF HasURL, Contains
<1>4. \A j \in Making' : HasURL(Current(j))' => Contains(Current(j).image.url)'
  BY <1>2, <1>3
<1>5. ASSUME NEW p \in DOMAIN file', file'[p].state = "whole"
      PROVE  AsMade(p, file'[p].data)
  <2>1. CASE stat(i) \/ fail(i) \/ startQEMU(i) \/ await(i) \/ giveUp(i)
    BY <1>5, <2>1, Zenon DEF stat, fail, startQEMU, await, giveUp, Defined
  <2>2. CASE create(i)
    <3>1. file' = With(file, Target(i), Partial)
      BY <2>2, Zenon DEF create
    <3>2. Partial.state # "whole"
      BY DEF Partial
    <3>3. p # Target(i)
      BY <1>5, <3>1, <3>2 DEF With
    <3>4. p \in DOMAIN file /\ file'[p] = file[p]
      BY <1>5, <3>1, <3>3 DEF With
    <3> QED
      BY <1>5, <3>4 DEF Defined
  <2>3. CASE finish(i)
    <3> DEFINE done == [Partial EXCEPT !.state = "whole", !.data = Data(Current(i))]
    <3>1. file' = With(file, Target(i), done) /\ i \in Making
      BY <2>3 DEF finish, Making
    <3>2. done.data = Data(Current(i))
      BY DEF Partial
    <3> HIDE DEF done
    <3>3. CASE p = Target(i)
      BY <3>1, <3>2, <3>3, FinishedAsMade DEF With
    <3>4. CASE p # Target(i)
      <4>1. p \in DOMAIN file /\ file'[p] = file[p]
        BY <1>5, <3>1, <3>4 DEF With
      <4> QED
        BY <1>5, <4>1 DEF Defined
    <3> QED
      BY <3>3, <3>4
  <2> QED
    BY <2>1, <2>2, <2>3 DEF NodeStep, OwnStep
<1>6. \A p \in DOMAIN file' : file'[p].state = "whole" => AsMade(p, file[p].data)'
  BY <1>1, <1>5, DocsStay
<1>7. \A j \in DOMAIN nodes' : NodeOf(j)' # Failed /\ nodes'[j] = NodeOf(j)'
  BY <1>1, DocsStay, Zenon DEF Defined
<1>8. \A u \in DOMAIN cache' : Download(u, cache[u])'
  BY <1>1, DocsStay, Zenon DEF Defined
<1>9. pc' \in {"setup", "serving"} => DOMAIN nodes' = OfKind(docs', "Node")
  BY <1>1, Zenon DEF Defined
<1> QED
  BY <1>4, <1>6, <1>7, <1>8, <1>9, Zenon DEF Defined

\* A guest's data are not what the file was made of.
LEMMA DefinedGuestWrites ==
  ASSUME Shape, Files, Defined, NEW i \in DOMAIN node, GuestWrites(i)
  PROVE  Defined'
PROOF
<1>1. UNCHANGED <<docs, pc, nodes, cache, node>>
  BY Zenon DEF GuestWrites
<1>2. PICK p \in Given(i) :
        file' = With(file, p, [state |-> file[p].state, data |-> file[p].data, written |-> TRUE])
  BY Zenon DEF GuestWrites
<1>3. p \in DOMAIN file
  BY GuestWritesTo, Zenon DEF GuestWrites, Files, Given, Passed
<1>4. \A q \in DOMAIN file' : q \in DOMAIN file /\ file'[q].state = file[q].state /\ file'[q].data = file[q].data
  BY <1>2, <1>3, Zenon DEF With
<1>5. \A q \in DOMAIN file' : file'[q].state = "whole" => AsMade(q, file'[q].data)
  BY <1>4, Zenon DEF Defined
<1>6. \A q \in DOMAIN file' : file'[q].state = "whole" => AsMade(q, file[q].data)'
  BY <1>1, <1>5, DocsStay, Zenon
<1>7. \A j \in DOMAIN nodes' : NodeOf(j)' # Failed /\ nodes'[j] = NodeOf(j)'
  BY <1>1, DocsStay DEF Defined
<1>8. \A u \in DOMAIN cache' : Download(u, cache[u])'
  BY <1>1, DocsStay DEF Defined
<1>9. pc' \in {"setup", "serving"} => DOMAIN nodes' = OfKind(docs', "Node")
  BY <1>1, Zenon DEF Defined
<1>10. \A j \in Making' : HasURL(Current(j))' => Contains(Current(j).image.url)'
  <2>1. ASSUME NEW j \in Making' PROVE j \in Making /\ Current(j)' = Current(j)
    BY <1>1, <2>1 DEF Making, Current, Work
  <2> QED
    BY <1>1, <2>1, Zenon DEF Defined, HasURL, Contains
<1> QED
  BY <1>6, <1>7, <1>8, <1>9, <1>10, Zenon DEF Defined

\* Every step keeps the files as the definition says.
LEMMA NextDefined ==
  ASSUME Shape, Files, Defined, [Next]_vars
  PROVE  Defined'
PROOF
<1>1. End => Defined'
  BY NoDomain, DefinedStays, Zenon DEF End
<1>2. CASE run
  <2>1. docs' = docs /\ cache' = cache /\ file' = file /\ node' = node
    BY <1>2 DEF run, disk
  <2>2. DOMAIN nodes' = {} /\ pc' \notin {"setup", "serving"}
    BY <1>2, NoDomain DEF run
  <2>3. Making' = {}
    BY <1>2, <2>1, Zenon DEF run, Shape, Making
  <2>4. \A u \in DOMAIN cache' : Download(u, cache[u])'
    BY <2>1, DocsStay, Zenon DEF Defined
  <2>5. \A p \in DOMAIN file' : file'[p].state = "whole" => AsMade(p, file[p].data)'
    BY <2>1, DocsStay DEF Defined
  <2> QED
    BY <2>2, <2>3, <2>4, <2>5, Zenon DEF Defined
<1>3. CASE SetupNetworks \/ prepare
  <2>1. \/ End
        \/ UNCHANGED <<docs, nodes, cache, file, node>> /\ pc' \notin {"setup", "serving"}
    BY <1>3, DieEnds, Zenon DEF SetupNetworks, prepare, Panic, Return, disk
  <2> QED
    BY <1>1, <2>1, DefinedStays
<1>4. CASE MakeNode \/ Put
  BY <1>4, DefinedMakeNode, DefinedPut
<1>5. CASE StartNodes
  <2>1. /\ UNCHANGED <<docs, nodes, cache, file>> /\ Left = {} /\ pc = "prepare"
        /\ DOMAIN node' = DOMAIN nodes
        /\ \A i \in DOMAIN nodes : \E s \in {"swtpm", "stat"} : node'[i] = [step |-> s, at |-> 1]
    BY <1>5, StartedWith, Zenon DEF StartNodes, disk
  <2>2. DOMAIN nodes' = OfKind(docs', "Node")
    BY <2>1, Zenon DEF Left, Shape
  <2>3. Making' = {}
    BY <2>1 DEF Making
  <2>4. \A j \in DOMAIN nodes' : NodeOf(j)' # Failed /\ nodes'[j] = NodeOf(j)'
    BY <2>1, DocsStay, Zenon DEF Defined
  <2>5. \A u \in DOMAIN cache' : Download(u, cache[u])'
    BY <2>1, DocsStay, Zenon DEF Defined
  <2>6. \A p \in DOMAIN file' : file'[p].state = "whole" => AsMade(p, file[p].data)'
    BY <2>1, DocsStay, Zenon DEF Defined
  <2> QED
    BY <2>2, <2>3, <2>4, <2>5, <2>6, Zenon DEF Defined
<1>6. CASE waitNodes
  <2>1. \/ End
        \/ pc \in {"setup", "serving"} /\ UNCHANGED <<docs, nodes, cache, file, node>>
    BY <1>6, DieEnds, Zenon DEF waitNodes, StartNetNSs, Panic, Return, disk
  <2> QED
    BY <1>1, <2>1, DefinedStays
<1>7. ASSUME NEW i \in DOMAIN node, NodeStep(i) \/ GuestWrites(i)
      PROVE  Defined'
  BY <1>7, DefinedNodeStep, DefinedGuestWrites
<1>8. CASE Shutdown \/ Kill \/ \E i \in DOMAIN node : createTaps(i)
  BY <1>1, <1>8, DieEnds, Zenon DEF Shutdown, Kill, createTaps, Panic, Return
<1>9. CASE Signal \/ UNCHANGED vars
  <2>1. UNCHANGED <<docs, pc, nodes, cache, file, node>>
    BY <1>9 DEF Signal, vars, disk
  <2> QED
    BY <2>1, DefinedStays
<1> QED
  BY <1>2, <1>3, <1>4, <1>5, <1>6, <1>7, <1>8, <1>9 DEF Next, Step

\* A path of a volume names the node and is never that of an NVRAM.
LEMMA VolumePath ==
  ASSUME NEW n, NEW m, NEW v, NEW w, v.kind # "nvram", PathOf(n, v) = PathOf(m, w)
  PROVE  n.name = m.name /\ w.kind # "nvram"
PROOF
<1>1. \E a, c : PathOf(n, v) = <<a, n.name, c>>
  BY Zenon DEF PathOf
<1>2. w.kind = "nvram" => PathOf(m, w) = <<"nvram", m.name>>
  BY Zenon DEF PathOf
<1>3. \A a, b, c, x, y : <<a, b, c>> # <<x, y>>
  OBVIOUS
<1>4. w.kind # "nvram"
  BY <1>1, <1>2, <1>3
<1>5. n.name = m.name
  BY PathName
<1> QED
  BY <1>4, <1>5

\* The whole file of a volume is the one that this volume was made to.
LEMMA FileOfVolume ==
  ASSUME Shape, Defined, Unambiguous, NEW i \in DOMAIN node, NEW j \in DOMAIN nodes[i].volumes,
         PathOf(nodes[i], nodes[i].volumes[j]) \in DOMAIN file,
         file[PathOf(nodes[i], nodes[i].volumes[j])].state = "whole"
  PROVE  Holds(nodes[i].volumes[j], file[PathOf(nodes[i], nodes[i].volumes[j])].data)
PROOF
<1>1. PICK v, p, d : /\ v = nodes[i].volumes[j]
                     /\ p = PathOf(nodes[i], v)
                     /\ d = file[p].data
  OBVIOUS
<1>2. /\ docs \in Definitions
      /\ i \in DOMAIN nodes /\ i \in OfKind(docs, "Node") /\ DOMAIN nodes = OfKind(docs, "Node")
      /\ NodeOf(i) # Failed /\ nodes[i] = NodeOf(i)
  BY Zenon DEF Shape, Defined
<1>3. PICK k \in OfKind(docs, "Node") :
        /\ NodeOf(k) # Failed
        /\ \E l \in DOMAIN Work(NodeOf(k)) :
             p = PathOf(NodeOf(k), Work(NodeOf(k))[l]) /\ Holds(Work(NodeOf(k))[l], d)
  BY <1>1, Zenon DEF Defined, AsMade
<1>4. PICK l \in DOMAIN Work(NodeOf(k)) :
        p = PathOf(NodeOf(k), Work(NodeOf(k))[l]) /\ Holds(Work(NodeOf(k))[l], d)
  BY <1>3, Zenon
<1>5. v.kind # "nvram"
  <2>1. newNodeVolume(docs[i].volumes[j], docs) # Failed /\ v = newNodeVolume(docs[i].volumes[j], docs)
    BY <1>1, <1>2, NodeMade, Zenon
  <2> QED
    BY <1>2, <2>1, VolumeMade, Zenon
<1>6. NodeOf(i).name = NodeOf(k).name /\ Work(NodeOf(k))[l].kind # "nvram"
  <2>1. PICK n, m, w : n = NodeOf(i) /\ m = NodeOf(k) /\ w = Work(NodeOf(k))[l]
    OBVIOUS
  <2>2. PathOf(n, v) = PathOf(m, w)
    BY <1>1, <1>2, <1>4, <2>1, Zenon
  <2>3. n.name = m.name /\ w.kind # "nvram"
    BY <1>5, <2>2, VolumePath, Zenon
  <2> QED
    BY <2>1, <2>3, Zenon
<1>7. k = i
  <2>1. k \in DOMAIN nodes /\ nodes[k] = NodeOf(k)
    BY <1>2, Zenon DEF Defined
  <2> QED
    BY <1>2, <1>6, <2>1, Zenon DEF Unambiguous, DistinctNodes
<1>8. NVRAM.kind = "nvram"
  BY Zenon DEF NVRAM
<1>9. l \in DOMAIN NodeOf(i).volumes /\ Work(NodeOf(i))[l] = NodeOf(i).volumes[l]
  BY <1>2, <1>6, <1>7, <1>8, WorkOf, Zenon
<1>10. PathOf(nodes[i], nodes[i].volumes[j]) = PathOf(nodes[i], nodes[i].volumes[l])
  BY <1>1, <1>2, <1>4, <1>7, <1>9, Zenon
<1>11. l = j
  BY <1>2, <1>9, <1>10, Zenon DEF Unambiguous
<1>12. Work(NodeOf(k))[l] = v
  BY <1>1, <1>2, <1>7, <1>9, <1>11, Zenon
<1> QED
  BY <1>1, <1>4, <1>12, Zenon

\* What a copy holds, where no two images share a URL.
LEMMA CopyOfImage ==
  ASSUME docs \in Definitions, Unambiguous, NEW i \in OfKind(docs, "Node"), NodeOf(i) # Failed,
         NEW j \in DOMAIN NodeOf(i).volumes, NEW v, v = NodeOf(i).volumes[j], IsCopy(v),
         NEW d, Holds(v, d)
  PROVE  \E k \in OfKind(docs, "Image") :
           /\ docs[k].name = docs[i].volumes[j].image
           /\ d \in {<<"copy", docs[k].url, docs[k].compression>>,
                     <<"copy", docs[k].file, docs[k].compression>>}
PROOF
<1>1. newNodeVolume(docs[i].volumes[j], docs) # Failed /\ v = newNodeVolume(docs[i].volumes[j], docs)
  BY NodeMade
<1>2. v.kind = "image"
  BY Zenon DEF IsCopy
<1>3. PICK k \in OfKind(docs, "Image") :
        /\ docs[k].name = docs[i].volumes[j].image
        /\ v.image = [url |-> docs[k].url, file |-> docs[k].file, decomp |-> docs[k].compression]
  <2>1. PICK u : u = docs[i].volumes[j]
    OBVIOUS
  <2>2. newNodeVolume(u, docs) # Failed /\ newNodeVolume(u, docs).kind = "image"
    BY <1>1, <1>2, <2>1, Zenon
  <2>3. \E k \in OfKind(docs, "Image") :
          /\ docs[k].name = u.image
          /\ newNodeVolume(u, docs).image
               = [url |-> docs[k].url, file |-> docs[k].file, decomp |-> docs[k].compression]
    BY <2>2, VolumeMade, Zenon
  <2> QED
    BY <1>1, <2>1, <2>3, Zenon
<1>4. v.image.url = docs[k].url /\ v.image.file = docs[k].file /\ v.image.decomp = docs[k].compression
  <2>1. \A a, b, c : LET image == [url |-> a, file |-> b, decomp |-> c]
                     IN  image.url = a /\ image.file = b /\ image.decomp = c
    OBVIOUS
  <2> QED
    <3>1. PICK image : image = v.image
      OBVIOUS
    <3>2. PICK a, b, c : a = docs[k].url /\ b = docs[k].file /\ c = docs[k].compression
      OBVIOUS
    <3>3. image = [url |-> a, file |-> b, decomp |-> c]
      BY <1>3, <3>1, <3>2, Zenon
    <3>4. image.url = a /\ image.file = b /\ image.decomp = c
      BY <3>3
    <3> QED
      BY <3>1, <3>2, <3>4, Zenon
<1>5. CASE d = <<"copy", v.image.file, v.image.decomp>>
  BY <1>3, <1>4, <1>5, Zenon
<1>6. CASE HasURL(v) /\ \E e \in OfKind(docs, "Image") :
             docs[e].url = v.image.url /\ d = <<"copy", docs[e].url, docs[e].compression>>
  <2>1. PICK e \in OfKind(docs, "Image") :
          docs[e].url = v.image.url /\ d = <<"copy", docs[e].url, docs[e].compression>>
    BY <1>6, Zenon
  <2>2. docs[e].url = docs[k].url /\ docs[e].url # ""
    BY <1>4, <1>6, <2>1, Zenon DEF HasURL
  <2>3. e = k
    BY <2>2, Zenon DEF Unambiguous
  <2> QED
    BY <1>3, <2>1, <2>3, Zenon
<1> QED
  BY <1>5, <1>6, Zenon DEF Holds

-----------------------------------------------------------------------------
(* The theorems.                                                           *)

Inv ==
  /\ Shape
  /\ Temps
  /\ Files
  /\ DistinctNodes => Own
  /\ cancelled \in BOOLEAN
  /\ panicked \in BOOLEAN

\* The flags stay flags.
LEMMA NextFlags ==
  ASSUME cancelled \in BOOLEAN, panicked \in BOOLEAN, [Next]_vars
  PROVE  cancelled' \in BOOLEAN /\ panicked' \in BOOLEAN
PROOF
<1>1. Die => cancelled' = cancelled
  BY DieEnds, Zenon DEF End
<1>2. Return => UNCHANGED <<cancelled, panicked>>
  BY Zenon DEF Return, End
<1>3. Panic => cancelled' = cancelled /\ panicked' = TRUE
  BY <1>1 DEF Panic
<1>4. Step \/ Put => cancelled' = cancelled /\ panicked' \in {panicked, TRUE}
  BY <1>2, <1>3, Zenon DEF Step, SetupNetworks, MakeNode, prepare, Put, End, StartNodes, waitNodes, StartNetNSs
<1>5. ASSUME NEW i \in DOMAIN node, NodeStep(i) \/ createTaps(i) \/ GuestWrites(i)
      PROVE  cancelled' = cancelled /\ panicked' \in {panicked, TRUE}
  BY <1>3, <1>5, NodeStepFrame, Zenon DEF createTaps, GuestWrites
<1>6. CASE run \/ Shutdown \/ Signal \/ Kill \/ UNCHANGED vars
  BY <1>1, <1>2, <1>6, Zenon DEF run, Shutdown, Signal, Kill, vars
<1> QED
  BY <1>4, <1>5, <1>6, Zenon DEF Next

\* Inv is an invariant.
LEMMA Invariance ==
  Spec => []Inv
PROOF
<1>1. Init => Inv
  <2> SUFFICES ASSUME Init PROVE Inv
    OBVIOUS
  <2>1. Shape
    BY InitShape
  <2>2. DOMAIN node = {} /\ DOMAIN file = {} /\ temps = {}
    BY NoDomain, Zenon DEF Init
  <2>3. Temps /\ Files /\ Own
    BY <2>2, Zenon DEF Temps, Files, Own, Making
  <2>4. cancelled \in BOOLEAN /\ panicked \in BOOLEAN
    BY Zenon DEF Init
  <2> QED
    BY <2>1, <2>3, <2>4 DEF Inv
<1>2. Inv /\ [Next]_vars => Inv'
  <2> SUFFICES ASSUME Inv, [Next]_vars PROVE Inv'
    OBVIOUS
  <2> QED
    BY NextShape, NextTemps, NextFiles, NextOwn, NextFlags, Zenon DEF Inv
<1> QED
  BY <1>1, <1>2, PTL DEF Spec

\* TypeOK holds, for every definition and any number of runs.
THEOREM TypeCorrect ==
  Spec => []TypeOK
PROOF
<1>1. Inv => TypeOK
  <2> SUFFICES ASSUME Inv PROVE TypeOK
    OBVIOUS
  <2>1. ASSUME NEW i \in DOMAIN node
        PROVE  /\ node[i].step \in Steps
               /\ node[i].at \in 1..(Len(Work(nodes[i])) + 1)
               /\ node[i].step = "making" => Target(i) \in DOMAIN file
    <3>1. /\ node[i] \in [step : Steps, at : Nat \ {0}] /\ Len(Work(nodes[i])) \in Nat
          /\ node[i].at <= Len(Work(nodes[i])) + 1
      BY Zenon DEF Inv, Shape, GoroutineOK, FineNode
    <3>2. node[i].step = "making" => Target(i) \in DOMAIN file
      BY Zenon DEF Inv, Files, Making
    <3> QED
      <4>1. PICK g, n : g = node[i] /\ n = Len(Work(nodes[i]))
        BY Zenon
      <4>2. g \in [step : Steps, at : Nat \ {0}] /\ n \in Nat /\ g.at <= n + 1
        BY <3>1, <4>1, Zenon
      <4>3. g.step \in Steps /\ g.at \in 1..(n + 1)
        BY <4>2
      <4> QED
        BY <3>2, <4>1, <4>3, Zenon
  <2>2. panicked \in BOOLEAN
    BY Zenon DEF Inv
  <2> QED
    BY <2>1, <2>2, Zenon DEF Inv, Shape, Files, TypeOK
<1> QED
  BY <1>1, Invariance, PTL

\* IncompleteIsCutOff holds: cacher.Put, copyImage and the commands that make
\* volumes leave no unfinished file but where they are cut off.
THEOREM IncompleteIsKnown ==
  Spec => []IncompleteIsCutOff
PROOF
<1>1. Inv => IncompleteIsCutOff
  BY Zenon DEF Inv, Temps, Files, Tracked, IncompleteIsCutOff
<1> QED
  BY <1>1, Invariance, PTL

\* RunsOnWholeFiles holds: QEMU of a node never starts on a file that another
\* goroutine is still making.
THEOREM StartsOnWholeFiles ==
  Spec => []RunsOnWholeFiles
PROOF
<1>1. Inv => RunsOnWholeFiles
  BY Zenon DEF Inv, Files, Own, Passed, Given, RunsOnWholeFiles
<1> QED
  BY <1>1, Invariance, PTL

\* ArgumentsAreKnown holds: newNodeVolume makes up for the defaults that
\* NodeSpec.validate loses.
THEOREM ArgumentsKnown ==
  Spec => []ArgumentsAreKnown
PROOF
<1>1. Inv => ArgumentsAreKnown
  BY Zenon DEF Inv, Shape, FineNode, FineVolume, ArgumentsAreKnown
<1> QED
  BY <1>1, Invariance, PTL

\* Defined is an invariant.
LEMMA AlwaysDefined ==
  Spec => []Defined
PROOF
<1>1. Init => Defined
  <2> SUFFICES ASSUME Init PROVE Defined
    OBVIOUS
  <2>1. DOMAIN nodes = {} /\ DOMAIN node = {} /\ DOMAIN cache = {} /\ DOMAIN file = {}
    BY NoDomain, Zenon DEF Init
  <2>2. Making = {} /\ pc \notin {"setup", "serving"}
    BY <2>1, Zenon DEF Making, Init
  <2> QED
    BY <2>1, <2>2, Zenon DEF Defined
<1>2. Inv /\ Defined /\ [Next]_vars => Defined'
  BY NextDefined DEF Inv
<1> QED
  BY <1>1, <1>2, Invariance, PTL DEF Spec

\* KnownPanics holds: what Parse accepts has all that the constructors and
\* Setup of networks, namespaces and nodes read without a check, but for the
\* interfaces; waitNodes alone panics for another reason, a VM that is nil.
THEOREM PanicsAreKnown ==
  Spec => KnownPanics
PROOF
<1> DEFINE Known == panicked' /\ ~panicked => ~Connected(docs) \/ NoVM # {}
<1>1. Inv /\ Defined /\ [Next]_vars => Known
  <2> SUFFICES ASSUME Inv, Defined, [Next]_vars, panicked' # panicked, panicked', Connected(docs)
               PROVE  NoVM # {}
    BY Zenon
  <2>1. docs \in Definitions /\ (pc # "down" => ~ParseFails(docs))
    BY Zenon DEF Inv, Shape
  <2>2. ~SetupNetworks
    BY <2>1, ValidNeverPanics, Zenon DEF SetupNetworks, Return
  <2>3. ~MakeNode
    BY <2>1, ValidNeverPanics, Zenon DEF MakeNode, Return, Left
  <2>4. ~prepare /\ ~Put /\ ~StartNodes /\ ~Shutdown /\ ~Signal /\ ~Kill /\ ~UNCHANGED vars /\ ~run
    BY Zenon DEF prepare, Put, StartNodes, Shutdown, Signal, Kill, Return, run, vars
  <2>5. ASSUME NEW i \in DOMAIN node PROVE ~NodeStep(i) /\ ~GuestWrites(i)
    BY NodeStepFrame, Zenon DEF GuestWrites
  <2>6. ASSUME NEW i \in DOMAIN node PROVE ~createTaps(i)
    <3>1. i \in OfKind(docs, "Node") /\ NodeOf(i) # Failed /\ nodes[i] = NodeOf(i)
      BY Zenon DEF Inv, Shape, Defined
    <3>2. nodes[i].taps = docs[i].interfaces
      BY <2>1, <3>1, NodeMade, Zenon
    <3> QED
      BY <3>1, <3>2, Zenon DEF createTaps, TapsPanic, createPanics, Connected
  <2>7. ASSUME waitNodes, NoVM = {} PROVE FALSE
    <3>1. StartNetNSs
      BY <2>7, Zenon DEF waitNodes, Return
    <3>2. ~\E i \in OfKind(docs, "NetworkNamespace") : NewNetNSPanics(docs[i]) \/ NetNSSetupPanics(docs[i])
      BY <2>1, <2>7, ValidNeverPanics, Zenon DEF waitNodes, Connected
    <3> QED
      BY <3>1, <3>2, Zenon DEF StartNetNSs, Return
  <2> QED
    BY <2>2, <2>3, <2>4, <2>5, <2>6, <2>7, Zenon DEF Next, Step
<1>2. Spec => [][Next]_vars
  BY PTL DEF Spec
<1>3. Inv /\ Defined /\ [Next]_vars => [Known]_vars
  BY <1>1, Zenon
<1> QED
  BY <1>2, <1>3, Invariance, AlwaysDefined, PTL DEF KnownPanics

\* FilesAreAsDefined holds: however the runs of placemat share the making of
\* the files, what a node runs on is what newNodeVolume read in its definition.
THEOREM RunsOnWhatIsDefined ==
  Spec => []FilesAreAsDefined
PROOF
<1>1. Inv /\ Defined => FilesAreAsDefined
  <2> SUFFICES ASSUME Inv, Defined, Unambiguous, NEW i \in DOMAIN node, Started(i),
                      NEW j \in DOMAIN nodes[i].volumes
               PROVE  LET v == nodes[i].volumes[j]
                          f == file[PathOf(nodes[i], v)]
                      IN  /\ (v.kind = "image" /\ ~v.cow /\ f.state = "whole") =>
                               \E k \in OfKind(docs, "Image") :
                                 /\ docs[k].name = docs[i].volumes[j].image
                                 /\ f.data \in {<<"copy", docs[k].url, docs[k].compression>>,
                                                <<"copy", docs[k].file, docs[k].compression>>}
                          /\ ((v.kind = "raw" \/ (v.kind = "localds" /\ v.netConfig)) /\ f.state = "whole") =>
                               f.data[2] = toldFormat(v)
    BY Zenon DEF FilesAreAsDefined
  <2> DEFINE v == nodes[i].volumes[j]
             f == file[PathOf(nodes[i], v)]
  <2>1. /\ docs \in Definitions /\ i \in OfKind(docs, "Node")
        /\ NodeOf(i) # Failed /\ nodes[i] = NodeOf(i)
    BY Zenon DEF Inv, Shape, Defined
  <2>2. v.kind \in {"image", "raw", "localds"} => PathOf(nodes[i], v) \in DOMAIN file
    <3>1. j \in DOMAIN Work(nodes[i]) /\ Work(nodes[i])[j] = v
      BY <2>1, WorkOf, Zenon
    <3> QED
      BY <3>1, Zenon DEF Inv, Files, Passed
  <2>3. v.kind \in {"image", "raw", "localds"} /\ f.state = "whole" => Holds(v, f.data)
    BY <2>2, FileOfVolume, Zenon DEF Inv
  <2>4. ASSUME v.kind = "image", ~v.cow, f.state = "whole"
        PROVE  \E k \in OfKind(docs, "Image") :
                 /\ docs[k].name = docs[i].volumes[j].image
                 /\ f.data \in {<<"copy", docs[k].url, docs[k].compression>>,
                                <<"copy", docs[k].file, docs[k].compression>>}
    <3>1. IsCopy(v) /\ Holds(v, f.data)
      BY <2>3, <2>4, Zenon DEF IsCopy
    <3>2. j \in DOMAIN NodeOf(i).volumes /\ v = NodeOf(i).volumes[j]
      BY <2>1, Zenon
    <3> QED
      BY <2>1, <3>1, <3>2, CopyOfImage, Zenon
  <2>5. ASSUME v.kind = "raw", f.state = "whole"
        PROVE  f.data[2] = toldFormat(v)
    <3>1. f.data[2] = v.format
      BY <2>3, <2>5, Zenon DEF Holds
    <3>2. toldFormat(v) = v.format
      BY <2>5 DEF toldFormat
    <3> QED
      BY <3>1, <3>2, Zenon
  <2>6. ASSUME v.kind = "localds", v.netConfig, f.state = "whole"
        PROVE  f.data[2] = toldFormat(v)
    <3>1. f.data[2] = "qcow2"
      BY <2>3, <2>6, Zenon DEF Holds
    <3>2. toldFormat(v) = "qcow2"
      BY <2>6 DEF toldFormat
    <3> QED
      BY <3>1, <3>2, Zenon
  <2> QED
    BY <2>4, <2>5, <2>6, Zenon
<1> QED
  BY <1>1, Invariance, AlwaysDefined, PTL

\* KeepsGuestData holds: a goroutine makes only a file that it has found
\* missing, and no other goroutine makes that file meanwhile.
THEOREM GuestDataKept ==
  Spec => KeepsGuestData
PROOF
<1> DEFINE Keeps == DistinctNodes => \A p \in DOMAIN file : file[p].written => p \in DOMAIN file' /\ file'[p] = file[p]
<1>1. Inv /\ [Next]_vars => Keeps
  <2> SUFFICES ASSUME Inv, [Next]_vars, DistinctNodes,
                      NEW p \in DOMAIN file, file[p].written
               PROVE  p \in DOMAIN file' /\ file'[p] = file[p]
    OBVIOUS
  <2>1. ASSUME NEW i \in DOMAIN node, NodeStep(i)
        PROVE  p \in DOMAIN file' /\ file'[p] = file[p]
    <3>1. CASE stat(i) \/ fail(i) \/ startQEMU(i) \/ await(i) \/ giveUp(i)
      BY <3>1, Zenon DEF stat, fail, startQEMU, await, giveUp
    <3>2. CASE create(i)
      <4>1. Target(i) \notin DOMAIN file
        BY <3>2, Zenon DEF create, Inv, Own
      <4> QED
        BY <3>2, <4>1, Zenon DEF create, With
    <3>3. CASE finish(i)
      <4>1. p # Target(i)
        BY <3>3 DEF finish, Inv, Own
      <4> QED
        BY <3>3, <4>1 DEF finish, With
    <3> QED
      BY <2>1, <3>1, <3>2, <3>3, Zenon DEF NodeStep, OwnStep
  <2>2. ASSUME NEW i \in DOMAIN node, GuestWrites(i)
        PROVE  p \in DOMAIN file' /\ file'[p] = file[p]
    BY <2>2, GuestWritesTo, Zenon DEF Inv
  <2>3. CASE ~\E i \in DOMAIN node : NodeStep(i) \/ GuestWrites(i)
    <3>1. Step \/ Put => file' = file
      BY DieEnds, Zenon DEF Step, SetupNetworks, MakeNode, prepare, Put, StartNodes, waitNodes, StartNetNSs,
                            Return, Panic, End, disk
    <3>2. run \/ Shutdown \/ Signal \/ Kill \/ (\E i \in DOMAIN node : createTaps(i)) \/ UNCHANGED vars
            => file' = file
      BY DieEnds, Zenon DEF run, Shutdown, Signal, Kill, createTaps, Return, Panic, End, vars, disk
    <3> QED
      BY <2>3, <3>1, <3>2 DEF Next
  <2> QED
    BY <2>1, <2>2, <2>3
<1>2. Spec => [][Next]_vars
  BY PTL DEF Spec
<1>3. Inv /\ [Next]_vars => [Keeps]_vars
  BY <1>1, Zenon
<1> QED
  BY <1>2, <1>3, Invariance, PTL DEF KeepsGuestData

\* ImplementsCache holds: seen from outside, cacher.Put adds a whole entry in
\* one step, and nothing else touches the cache.
THEOREM CacheImplemented ==
  Spec => ImplementsCache
PROOF
<1>1. Init => Cache!Init
  BY Zenon DEF Init, Cache!Init
<1>2. Inv /\ [Next]_vars => [Cache!Next]_cache
  <2> SUFFICES ASSUME Inv, [Next]_vars, cache' # cache
               PROVE  Cache!Next
    OBVIOUS
  <2>1. Put
    <3>1. SetupNetworks \/ MakeNode \/ prepare \/ StartNodes \/ waitNodes => cache' = cache
      BY DieEnds, Zenon DEF SetupNetworks, MakeNode, prepare, StartNodes, waitNodes, StartNetNSs,
                            Return, Panic, End, disk
    <3>2. run \/ Shutdown \/ Signal \/ Kill \/ (\E i \in DOMAIN node : createTaps(i)) \/ UNCHANGED vars
            => cache' = cache
      BY DieEnds, Zenon DEF run, Shutdown, Signal, Kill, createTaps, Return, Panic, End, vars, disk
    <3>3. \A i \in DOMAIN node : NodeStep(i) \/ GuestWrites(i) => cache' = cache
      BY NodeStepFrame, Zenon DEF GuestWrites
    <3> QED
      BY <3>1, <3>2, <3>3 DEF Next, Step
  <2> DEFINE d == Last.volumes[vol].image.decomp
             data == <<getting, d>>
  <2>2. cache' = With(cache, getting, data) /\ getting # ""
    BY <2>1, Zenon DEF Put, End
  <2>3. getting \notin DOMAIN cache /\ last \in DOMAIN nodes /\ vol \in DOMAIN Last.volumes
    BY <2>2, Zenon DEF Inv, Shape
  <2>4. d \in Decompressors
    BY <2>3, Zenon DEF Inv, Shape, FineNode, FineVolume, Last
  <2> HIDE DEF d
  <2>5. data \in Cache!Whole(getting)
    BY <2>4 DEF Cache!Whole
  <2>6. Cache!Put(getting, data)
    BY <2>2, <2>3, <2>5, Zenon DEF Cache!Put, With
  <2>7. getting \in DOMAIN cache'
    BY <2>2, Zenon DEF With
  <2> QED
    BY <2>5, <2>6, <2>7 DEF Cache!Next
<1> QED
  BY <1>1, <1>2, Invariance, PTL DEF Spec, ImplementsCache, Cache!Spec

=============================================================================
