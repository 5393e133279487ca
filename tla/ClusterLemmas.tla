---------------------------- MODULE ClusterLemmas ----------------------------
(* What the proofs about Cluster have in common: the resources are different *)
(* from each other, what a sequence of removals removes and in which order,  *)
(* the types, and which resources a step leaves alone.                       *)
EXTENDS Cluster, TLAPS

Rules == Chains \cup Jumps

-----------------------------------------------------------------------------
(* The resources are different from each other.                              *)

LEMMA Apart ==
  /\ \A k, f, n : Rule(k, f) # Bridge(n) /\ Rule(k, f) # NS(n) /\ Rule(k, f) # Socks(n)
  /\ \A k, f, n : Rule(k, f) # SWTPMDir(n)
  /\ \A k, f, n, r : Rule(k, f) # Tap(n, r)
  /\ \A m, n : Bridge(m) # NS(n) /\ Bridge(m) # Socks(n) /\ Bridge(m) # SWTPMDir(n)
  /\ \A m, n, r : Bridge(m) # Tap(n, r) /\ NS(m) # Tap(n, r)
  /\ \A m, n : NS(m) # Socks(n) /\ NS(m) # SWTPMDir(n) /\ Socks(m) # SWTPMDir(n)
  /\ \A m, n, r : Socks(m) # Tap(n, r) /\ SWTPMDir(m) # Tap(n, r)
BY DEF Rule, Bridge, NS, Tap, Socks, SWTPMDir

LEMMA Named ==
  /\ \A m, n : Bridge(m) = Bridge(n) => m = n
  /\ \A m, n : NS(m) = NS(n) => m = n
  /\ \A m, n, q, r : Tap(m, q) = Tap(n, r) => m = n /\ q = r
  /\ \A k, l, f, g : Rule(k, f) = Rule(l, g) => k = l /\ f = g
BY DEF Rule, Bridge, NS, Tap

LEMMA SetsApart ==
  /\ Rules \cap (Bridges \cup NSs \cup Links \cup NodeFiles) = {}
  /\ Bridges \cap (NSs \cup Links \cup NodeFiles) = {}
  /\ NSs \cap (Links \cup NodeFiles) = {}
  /\ Links \cap NodeFiles = {}
BY Apart DEF Rules, Chains, Jumps, Bridges, NSs, Links, NodeFiles

-----------------------------------------------------------------------------
(* The sequences of removals.                                                *)

\* What a sequence of removals removes.
All(s) == UNION Range(s)

LEMMA TailFacts ==
  ASSUME NEW S, NEW s \in Seq(S), s # <<>>
  PROVE  /\ Head(s) \in S /\ Head(s) = s[1] /\ Tail(s) \in Seq(S)
         /\ 1 \in DOMAIN s
         /\ \A i \in DOMAIN s : i # 1 => i - 1 \in DOMAIN Tail(s) /\ Tail(s)[i - 1] = s[i]
         /\ \A i \in DOMAIN Tail(s) : i + 1 \in DOMAIN s /\ Tail(s)[i] = s[i + 1] /\ i \in Nat
<1>1. Len(s) \in Nat \ {0} /\ DOMAIN s = 1..Len(s)
  OBVIOUS
<1>2. /\ Head(s) \in S /\ Head(s) = s[1] /\ Tail(s) \in Seq(S)
      /\ Len(Tail(s)) = Len(s) - 1
      /\ DOMAIN Tail(s) = 1..Len(Tail(s))
  OBVIOUS
<1>3. \A i \in 1..(Len(s) - 1) : Tail(s)[i] = s[i + 1]
  OBVIOUS
<1> QED  BY <1>1, <1>2, <1>3

LEMMA TailRange ==
  ASSUME NEW S, NEW s \in Seq(S), s # <<>>
  PROVE  All(s) = Head(s) \cup All(Tail(s))
<1>1. ASSUME NEW x PROVE x \in All(s) => x \in Head(s) \cup All(Tail(s))
  BY TailFacts DEF All, Range
<1>2. ASSUME NEW x PROVE x \in Head(s) \cup All(Tail(s)) => x \in All(s)
  BY TailFacts DEF All, Range
<1> QED  BY <1>1, <1>2

Both == {"v4", "v6"}

\* The sets of a sequence of removals are sets of resources, and cover rs.
Covers(s, rs) == s \in Seq(SUBSET Resource) /\ rs \subseteq All(s)

LEMMA Appended ==
  ASSUME NEW S, NEW s \in Seq(S), NEW t \in Seq(S)
  PROVE  /\ s \o t \in Seq(S)
         /\ \A i \in DOMAIN (s \o t) :
              \/ i \in DOMAIN s /\ (s \o t)[i] = s[i]
              \/ i - Len(s) \in DOMAIN t /\ (s \o t)[i] = t[i - Len(s)] /\ i > Len(s)
         /\ \A i \in DOMAIN s : i \in DOMAIN (s \o t) /\ (s \o t)[i] = s[i]
         /\ \A i \in DOMAIN t : i + Len(s) \in DOMAIN (s \o t) /\ (s \o t)[i + Len(s)] = t[i]
         /\ Len(s) \in Nat /\ DOMAIN s = 1..Len(s) /\ DOMAIN t \subseteq Nat \ {0}
OBVIOUS

LEMMA AppendedRange ==
  ASSUME NEW S, NEW s \in Seq(S), NEW t \in Seq(S)
  PROVE  /\ s \o t \in Seq(S)
         /\ All(s \o t) = All(s) \cup All(t)
<1> DEFINE u == s \o t
<1>1. /\ u \in Seq(S)
      /\ \A i \in DOMAIN u : (\E j \in DOMAIN s : u[i] = s[j]) \/ (\E j \in DOMAIN t : u[i] = t[j])
      /\ \A i \in DOMAIN s : \E j \in DOMAIN u : u[j] = s[i]
      /\ \A i \in DOMAIN t : \E j \in DOMAIN u : u[j] = t[i]
  <2>1. u \in Seq(S)
    BY Appended
  <2>2. \A i \in DOMAIN u : (\E j \in DOMAIN s : u[i] = s[j]) \/ (\E j \in DOMAIN t : u[i] = t[j])
    BY Appended
  <2>3. ASSUME NEW i \in DOMAIN s PROVE \E j \in DOMAIN u : u[j] = s[i]
    <3>1. i \in DOMAIN u /\ u[i] = s[i]
      BY Appended
    <3> QED  BY <3>1
  <2>4. ASSUME NEW i \in DOMAIN t PROVE \E j \in DOMAIN u : u[j] = t[i]
    <3>1. i + Len(s) \in DOMAIN u /\ u[i + Len(s)] = t[i]
      BY Appended
    <3> QED  BY <3>1
  <2> QED  BY <2>1, <2>2, <2>3, <2>4, Zenon
<1> HIDE DEF u
<1>2. All(u) = All(s) \cup All(t)
  BY <1>1 DEF All, Range
<1> QED  BY <1>1, <1>2 DEF u

LEMMA RuleTypes ==
  /\ \A f \in Both : /\ Rule("filterChain", f) \in Chains /\ Rule("natChain", f) \in Chains
                     /\ Rule("filterJump", f) \in Jumps /\ Rule("natJump", f) \in Jumps
  /\ Chains \subseteq Resource /\ Jumps \subseteq Resource
  /\ \A x \in Chains : \E f \in Both : x = Rule("filterChain", f) \/ x = Rule("natChain", f)
  /\ \A x \in Jumps : \E f \in Both : x = Rule("filterJump", f) \/ x = Rule("natJump", f)
BY DEF Both, Families, Chains, Jumps, Resource

LEMMA FamilyRemovals ==
  ASSUME NEW f \in Both
  PROVE  /\ NatRemovals(f) \in Seq(SUBSET Resource)
         /\ NatRules(f) \in Seq(SUBSET Resource)
         /\ \A x \in {Rule("filterChain", f), Rule("natChain", f),
                      Rule("filterJump", f), Rule("natJump", f)} : x \in All(NatRemovals(f))
         /\ All(NatRules(f)) \subseteq Rules
<1> DEFINE a == {Rule("filterJump", f)}
           b == {Rule("natJump", f)}
           c == {Rule("filterChain", f)}
           d == {Rule("natChain", f)}
<1>1. a \in SUBSET Resource /\ b \in SUBSET Resource /\ c \in SUBSET Resource /\ d \in SUBSET Resource
  BY RuleTypes
<1>2. NatRemovals(f) = <<a, b, c, d>> /\ NatRules(f) = <<c, d, b, a>>
  BY DEF NatRemovals, NatRules
<1>3. a \subseteq Rules /\ b \subseteq Rules /\ c \subseteq Rules /\ d \subseteq Rules
  BY RuleTypes DEF Rules
<1>4. /\ Rule("filterJump", f) \in a /\ Rule("natJump", f) \in b
      /\ Rule("filterChain", f) \in c /\ Rule("natChain", f) \in d
  OBVIOUS
<1> HIDE DEF a, b, c, d
<1>5. /\ <<a, b, c, d>> \in Seq(SUBSET Resource) /\ <<c, d, b, a>> \in Seq(SUBSET Resource)
      /\ Range(<<a, b, c, d>>) = {a, b, c, d}
      /\ Range(<<c, d, b, a>>) = {a, b, c, d}
  BY <1>1 DEF Range
<1> QED  BY <1>2, <1>3, <1>4, <1>5 DEF All

LEMMA RemovesRules == Covers(CleanupNatRules, Rules)
<1>1. /\ NatRemovals("v4") \in Seq(SUBSET Resource) /\ NatRemovals("v6") \in Seq(SUBSET Resource)
      /\ \A f \in Both : \A x \in {Rule("filterChain", f), Rule("natChain", f),
                      Rule("filterJump", f), Rule("natJump", f)} : x \in All(NatRemovals(f))
  BY FamilyRemovals DEF Both
<1>2. All(CleanupNatRules) = All(NatRemovals("v4")) \cup All(NatRemovals("v6"))
  BY <1>1, AppendedRange DEF CleanupNatRules
<1>3. CleanupNatRules \in Seq(SUBSET Resource)
  BY <1>1, AppendedRange DEF CleanupNatRules
<1>4. ASSUME NEW x \in Rules PROVE \E f \in Both : x \in All(NatRemovals(f))
  BY <1>1, RuleTypes DEF Rules
<1> QED  BY <1>2, <1>3, <1>4 DEF Covers, Both

LEMMA MakesRules ==
  /\ NatRules("v4") \o NatRules("v6") \in Seq(SUBSET Resource)
  /\ All(NatRules("v4") \o NatRules("v6")) \subseteq Rules
<1>1. /\ NatRules("v4") \in Seq(SUBSET Resource) /\ NatRules("v6") \in Seq(SUBSET Resource)
      /\ All(NatRules("v4")) \subseteq Rules /\ All(NatRules("v6")) \subseteq Rules
  BY FamilyRemovals DEF Both
<1>2. /\ NatRules("v4") \o NatRules("v6") \in Seq(SUBSET Resource)
      /\ All(NatRules("v4") \o NatRules("v6"))
           = All(NatRules("v4")) \cup All(NatRules("v6"))
  BY <1>1, AppendedRange
<1> QED  BY <1>1, <1>2

-----------------------------------------------------------------------------
(* Types.                                                                    *)

LEMMA FileTypes ==
  /\ \A n \in Nodes : FilesOf(n) \subseteq Resource
  /\ \A n \in Nodes : Socks(n) \in Resource /\ SWTPMDir(n) \in Resource
  /\ \A n \in Networks : Bridge(n) \in Resource
  /\ \A s \in NetNSs : NS(s) \in Resource
  /\ \A n \in Nodes, r \in 1..MaxRuns : Tap(n, r) \in Resource
  /\ Links \subseteq Resource
BY DEF FilesOf, NodeFiles, Bridges, NSs, Links, Resource

\* What the last loops of cleanup remove.
Rest(nets, vs) ==
  <<{Bridge(n) : n \in nets}, {Tap(n, runs) : n \in named}, {NS(s) : s \in netNss},
    UNION {FilesOf(n) : n \in vs}>>

LEMMA RestTypes ==
  ASSUME TypeOK, runs # 0, NEW nets \in SUBSET Networks, NEW vs \in SUBSET Nodes
  PROVE  /\ Rest(nets, vs) \in Seq(SUBSET Resource)
         /\ All(Rest(nets, vs)) = {Bridge(n) : n \in nets} \cup {Tap(n, runs) : n \in named}
                                   \cup {NS(s) : s \in netNss} \cup (UNION {FilesOf(n) : n \in vs})
<1> DEFINE a == {Bridge(n) : n \in nets}
           b == {Tap(n, runs) : n \in named}
           c == {NS(s) : s \in netNss}
           d == UNION {FilesOf(n) : n \in vs}
<1>1. a \in SUBSET Resource
  BY FileTypes
<1>2. b \in SUBSET Resource
  BY FileTypes DEF TypeOK
<1>3. c \in SUBSET Resource
  BY FileTypes DEF TypeOK
<1>4. d \in SUBSET Resource
  BY FileTypes
<1>5. Rest(nets, vs) = <<a, b, c, d>>
  BY DEF Rest
<1> HIDE DEF a, b, c, d
<1>6. /\ <<a, b, c, d>> \in Seq(SUBSET Resource)
      /\ Range(<<a, b, c, d>>) = {a, b, c, d}
  BY <1>1, <1>2, <1>3, <1>4 DEF Range
<1>7. UNION {a, b, c, d} = a \cup b \cup c \cup d
  OBVIOUS
<1> QED  BY <1>5, <1>6, <1>7, Zenon DEF All, a, b, c, d

\* cleanup begins with what it has to remove.
LEMMA CleanupBegins ==
  ASSUME TypeOK, runs # 0, NEW nets \in SUBSET Networks, NEW vs \in SUBSET Nodes, cleanup(nets, vs)
  PROVE  /\ pc' = "cleanup"
         /\ todo' \in Seq(SUBSET Resource)
         /\ Rules \subseteq All(todo')
         /\ {Bridge(n) : n \in nets} \subseteq All(todo')
         /\ {Tap(n, runs) : n \in named} \subseteq All(todo')
         /\ {NS(s) : s \in netNss} \subseteq All(todo')
         /\ UNION {FilesOf(n) : n \in vs} \subseteq All(todo')
<1>1. pc' = "cleanup" /\ todo' = CleanupNatRules \o Rest(nets, vs)
  BY DEF cleanup, Rest
<1>2. CleanupNatRules \in Seq(SUBSET Resource) /\ Rules \subseteq All(CleanupNatRules)
  BY RemovesRules DEF Covers
<1>3. Rest(nets, vs) \in Seq(SUBSET Resource)
  BY RestTypes, Zenon
<1>4. /\ CleanupNatRules \o Rest(nets, vs) \in Seq(SUBSET Resource)
      /\ All(CleanupNatRules \o Rest(nets, vs)) = All(CleanupNatRules) \cup All(Rest(nets, vs))
  BY <1>2, <1>3, AppendedRange
<1>5. Rules \subseteq All(todo') /\ All(Rest(nets, vs)) \subseteq All(todo')
  BY <1>1, <1>2, <1>4
<1>6. All(Rest(nets, vs)) = {Bridge(n) : n \in nets} \cup {Tap(n, runs) : n \in named}
                             \cup {NS(s) : s \in netNss} \cup (UNION {FilesOf(n) : n \in vs})
  BY RestTypes, Zenon
<1>7. /\ {Bridge(n) : n \in nets} \subseteq All(Rest(nets, vs))
      /\ {Tap(n, runs) : n \in named} \subseteq All(Rest(nets, vs))
      /\ {NS(s) : s \in netNss} \subseteq All(Rest(nets, vs))
      /\ UNION {FilesOf(n) : n \in vs} \subseteq All(Rest(nets, vs))
  BY ONLY <1>6
<1> QED  BY <1>1, <1>4, <1>5, <1>7


\* A process that is running has been started.
TypeInv == TypeOK /\ (pc # "off" => runs # 0)

HostOK == host \subseteq Resource /\ made \subseteq Resource /\ met \subseteq Resource

LEMMA HostTypes ==
  ASSUME TypeOK, NEW old, NEW new \in SUBSET Resource,
         Make(old, new) \/ Meet(old, new) \/ Drop(old) \/ Keep
  PROVE  HostOK'
BY DEF TypeOK, HostOK, Make, Meet, Drop, Keep

LEMMA VMTypes ==
  ASSUME TypeOK
  PROVE  /\ VMs \subseteq Nodes \cup {"nil"}
         /\ \A vs \in Visited : vs \in SUBSET Nodes
<1>1. ASSUME NEW v \in VMs PROVE v \in Nodes \cup {"nil"}
  BY DEF VMs, TypeOK
<1> QED  BY <1>1 DEF Visited

LEMMA SerialTypes == NoSerial \in Serials /\ \A n \in Nodes : Serial[n] \in Serials
BY ClusterAssumption DEF Serials, Range

\* The parts of TypeOK one action changes a few of.
MainOK == /\ runs \in 0..MaxRuns /\ force \in BOOLEAN /\ pc \in PC /\ (pc # "off" => runs # 0)
          /\ networks \subseteq Networks /\ cancelled \in BOOLEAN /\ served \in BOOLEAN
          /\ ended \in Ends
NodesOK == /\ node \in [Nodes -> NodePC] /\ named \subseteq Nodes
           /\ vms \in [Serials -> Nodes \cup {"nil", "none"}]
           /\ qemu \in [Nodes -> QEMUState]
ServeOK == /\ netns \in [NetNSs -> NetNSPC] /\ netNss \subseteq NetNSs
           /\ waits \subseteq Nodes \cup {"nil"} /\ envCancelled \in BOOLEAN
TodoOK == todo \in Seq(SUBSET Resource)

LEMMA TypeParts == TypeInv <=> HostOK /\ MainOK /\ NodesOK /\ ServeOK /\ TodoOK
<1>1. TypeInv => HostOK /\ MainOK /\ NodesOK /\ ServeOK /\ TodoOK
  BY DEF TypeInv, TypeOK, HostOK, MainOK, NodesOK, ServeOK, TodoOK
<1>2. HostOK /\ MainOK /\ NodesOK /\ ServeOK /\ TodoOK => TypeInv
  BY DEF TypeInv, TypeOK, HostOK, MainOK, NodesOK, ServeOK, TodoOK
<1> QED  BY <1>1, <1>2

LEMMA TypeBack == HostOK' /\ MainOK' /\ NodesOK' /\ ServeOK' /\ TodoOK' => TypeInv'
BY DEF TypeInv, TypeOK, HostOK, MainOK, NodesOK, ServeOK, TodoOK

LEMMA TypeInit == Init => TypeInv
<1> SUFFICES ASSUME Init PROVE TypeInv
  OBVIOUS
<1>1. HostOK
  BY DEF Init, HostOK
<1>2. MainOK
  <2>1. runs \in 0..MaxRuns
    BY ClusterAssumption DEF Init
  <2>2. force \in BOOLEAN /\ cancelled \in BOOLEAN /\ served \in BOOLEAN
    BY Zenon DEF Init
  <2>3. pc = "off" /\ pc \in PC /\ networks \subseteq Networks /\ ended \in Ends
    BY DEF Init, PC, Ends
  <2> QED  BY <2>1, <2>2, <2>3 DEF MainOK
<1>3. NodesOK
  BY DEF Init, NodesOK, NodePC, QEMUState
<1>4. ServeOK
  BY Zenon DEF Init, ServeOK, NetNSPC
<1>5. TodoOK
  <2>1. <<>> \in Seq(SUBSET Resource)
    OBVIOUS
  <2> QED  BY <2>1 DEF Init, TodoOK
<1> QED  BY <1>1, <1>2, <1>3, <1>4, <1>5, TypeParts

LEMMA Frames ==
  ASSUME TypeInv
  PROVE  /\ UNCHANGED <<host, made, met>> => HostOK'
         /\ UNCHANGED <<runs, force, pc, networks, cancelled, served, ended>> => MainOK'
         /\ UNCHANGED <<nodeVars, qemu>> => NodesOK'
         /\ UNCHANGED serveVars => ServeOK'
         /\ UNCHANGED todo => TodoOK'
<1>1. HostOK /\ MainOK /\ NodesOK /\ ServeOK /\ TodoOK
  BY TypeParts
<1>2. UNCHANGED <<host, made, met>> => HostOK'
  BY <1>1 DEF HostOK
<1>3. UNCHANGED <<runs, force, pc, networks, cancelled, served, ended>> => MainOK'
  BY <1>1 DEF MainOK
<1>4. UNCHANGED <<nodeVars, qemu>> => NodesOK'
  BY <1>1 DEF NodesOK, nodeVars
<1>5. UNCHANGED serveVars => ServeOK'
  BY <1>1 DEF ServeOK, serveVars
<1>6. UNCHANGED todo => TodoOK'
  BY <1>1 DEF TodoOK
<1> QED  BY <1>2, <1>3, <1>4, <1>5, <1>6

\* The beginning and the NAT rules.
LEMMA TypeHead ==
  ASSUME TypeInv,
         (\E f \in BOOLEAN : NewCluster(f)) \/ Removal \/ Forced \/ CreateNatRules
  PROVE  TypeInv'
<1>1. TypeOK /\ (pc # "off" => runs # 0) /\ MainOK
  BY TypeParts DEF TypeInv
<1>2. NatRules("v4") \o NatRules("v6") \in Seq(SUBSET Resource)
  BY MakesRules
<1>3. CleanupNatRules \o CleanupAllLinks \in Seq(SUBSET Resource)
  <2>1. CleanupNatRules \in Seq(SUBSET Resource)
    BY RemovesRules DEF Covers
  <2>2. CleanupAllLinks \in Seq(SUBSET Resource)
    BY FileTypes DEF CleanupAllLinks
  <2> QED  BY <2>1, <2>2, AppendedRange
<1>4. ASSUME NEW f \in BOOLEAN, NewCluster(f) PROVE TypeInv'
  <2>1. HostOK'
    BY <1>1, <1>4 DEF NewCluster, TypeOK, HostOK
  <2>2. MainOK'
    <3>1. runs' \in 0..MaxRuns /\ runs' # 0
      BY <1>1, <1>4, ClusterAssumption DEF NewCluster, TypeOK
    <3>2. force' \in BOOLEAN /\ cancelled' \in BOOLEAN /\ served' \in BOOLEAN
      BY <1>4, Zenon DEF NewCluster
    <3>3. pc' \in PC /\ networks' \subseteq Networks /\ ended' \in Ends
      BY <1>4 DEF NewCluster, PC, Ends
    <3> QED  BY <3>1, <3>2, <3>3 DEF MainOK
  <2>3. NodesOK'
    BY <1>4 DEF NewCluster, NodesOK, NodePC, QEMUState
  <2>4. ServeOK'
    BY <1>4, Zenon DEF NewCluster, ServeOK, NetNSPC
  <2>5. TodoOK'
    BY <1>2, <1>3, <1>4 DEF NewCluster, TodoOK
  <2> QED  BY <2>1, <2>2, <2>3, <2>4, <2>5, TypeBack
<1>5. ASSUME Removal PROVE TypeInv'
  <2>1. HostOK'
    BY <1>1, <1>5 DEF Removal, Drop, TypeOK, HostOK
  <2>2. UNCHANGED <<runs, force, pc, networks, cancelled, served, ended, nodeVars, qemu, serveVars>>
    BY <1>5 DEF Removal, nodeVars, serveVars, runVars
  <2>3. todo \in Seq(SUBSET Resource) /\ todo # <<>> /\ todo' = Tail(todo)
    BY <1>1, <1>5 DEF Removal, TypeOK
  <2>4. TodoOK'
    BY <2>3, TailFacts DEF TodoOK
  <2> QED  BY <2>1, <2>2, <2>4, Frames, TypeBack
<1>6. ASSUME Forced PROVE TypeInv'
  <2>1. UNCHANGED <<host, made, met, runs, force, networks, cancelled, served, ended, nodeVars, qemu,
                    serveVars>> /\ pc = "force" /\ pc' = "nat"
    BY <1>6 DEF Forced, Keep, nodeVars, serveVars, runVars
  <2>2. MainOK'
    BY <1>1, <2>1 DEF MainOK, PC
  <2>3. TodoOK'
    BY <1>2, <1>6 DEF Forced, TodoOK
  <2> QED  BY <2>1, <2>2, <2>3, Frames, TypeBack
<1>7. ASSUME CreateNatRules PROVE TypeInv'
  <2>1. UNCHANGED <<runs, force, networks, cancelled, served, ended, nodeVars, qemu, serveVars>> /\ pc = "nat"
    BY <1>7 DEF CreateNatRules, nodeVars, serveVars, runVars
  <2>2. CASE todo # <<>> /\ Make({}, Head(todo)) /\ todo' = Tail(todo) /\ UNCHANGED pc
    <3>1. Head(todo) \in SUBSET Resource /\ TodoOK'
      BY <1>1, <2>2, TailFacts DEF TypeOK, TodoOK
    <3>2. HostOK'
      BY <1>1, <2>2, <3>1, HostTypes
    <3> QED  BY <2>1, <2>2, <3>1, <3>2, Frames, TypeBack
  <2>3. CASE ((todo # <<>> /\ Meet({}, Head(todo))) \/ Keep) /\ cleanup({}, {})
    <3>1. HostOK'
      BY <1>1, <2>3, TailFacts, HostTypes DEF TypeOK, Meet, Keep, HostOK
    <3>2. pc' = "cleanup" /\ TodoOK'
      <4>1. {} \in SUBSET Networks /\ {} \in SUBSET Nodes /\ runs # 0
        BY <1>1, <2>1
      <4> QED  BY <1>1, <2>3, <4>1, CleanupBegins, Zenon DEF TodoOK
    <3>3. MainOK'
      BY <1>1, <2>1, <3>2 DEF MainOK, PC
    <3> QED  BY <2>1, <3>1, <3>2, <3>3, Frames, TypeBack
  <2>4. CASE pc' = "networks" /\ Keep /\ UNCHANGED todo
    <3>1. MainOK'
      BY <1>1, <2>1, <2>4 DEF MainOK, PC
    <3> QED  BY <2>1, <2>4, <3>1, Frames, TypeBack DEF Keep
  <2> QED  BY <1>7, <2>2, <2>3, <2>4 DEF CreateNatRules
<1> QED  BY <1>4, <1>5, <1>6, <1>7


\* The networks and the images.
LEMMA TypeNetworks ==
  ASSUME TypeInv, (\E n \in Networks : SetupNetwork(n)) \/ PrepareNodes
  PROVE  TypeInv'
<1>1. TypeOK /\ (pc # "off" => runs # 0) /\ MainOK
  BY TypeParts DEF TypeInv
<1>2. ASSUME NEW n \in Networks, SetupNetwork(n) PROVE TypeInv'
  <2> DEFINE old == Garbage({Bridge(n)})
  <2>1. /\ UNCHANGED <<runs, force, cancelled, served, ended, nodeVars, qemu, serveVars>>
        /\ pc = "networks" /\ networks' = networks \cup {n} /\ networks' \in SUBSET Networks
        /\ networks \in SUBSET Networks
    BY <1>1, <1>2, Zenon DEF SetupNetwork, nodeVars, serveVars, runVars, TypeOK
  <2>2. HostOK'
    <3>1. Make(old, {Bridge(n)}) \/ Meet(old, {Bridge(n)}) \/ Drop(old) \/ Keep
      BY <1>2 DEF SetupNetwork
    <3>2. {Bridge(n)} \in SUBSET Resource
      BY FileTypes
    <3> QED  BY <1>1, <3>1, <3>2, HostTypes
  <2>3. \/ UNCHANGED <<pc, todo>>
        \/ \E nets \in SUBSET Networks : cleanup(nets, {})
    BY <1>2, <2>1 DEF SetupNetwork
  <2>4. UNCHANGED <<pc, todo>> \/ (pc' = "cleanup" /\ TodoOK')
    <3>1. ASSUME NEW nets \in SUBSET Networks, cleanup(nets, {}) PROVE pc' = "cleanup" /\ TodoOK'
      <4>1. {} \in SUBSET Nodes /\ runs # 0
        BY <1>1, <2>1
      <4> QED  BY <1>1, <3>1, <4>1, CleanupBegins, Zenon DEF TodoOK
    <3> QED  BY <2>3, <3>1
  <2>5. MainOK'
    BY <1>1, <2>1, <2>4 DEF MainOK, PC
  <2> QED  BY <2>1, <2>2, <2>4, <2>5, Frames, TypeBack
<1>3. ASSUME PrepareNodes PROVE TypeInv'
  <2>1. /\ UNCHANGED <<host, made, met, runs, force, networks, cancelled, served, ended, nodeVars, qemu,
                       serveVars>>
        /\ pc = "networks" /\ networks \in SUBSET Networks
    BY <1>1, <1>3 DEF PrepareNodes, Keep, nodeVars, serveVars, runVars, TypeOK
  <2>2. (pc' = "nodes" /\ UNCHANGED todo) \/ (pc' = "cleanup" /\ TodoOK')
    <3>1. {} \in SUBSET Nodes /\ runs # 0
      BY <1>1, <2>1
    <3>2. cleanup(networks, {}) => pc' = "cleanup" /\ TodoOK'
      BY <1>1, <2>1, <3>1, CleanupBegins, Zenon DEF TodoOK
    <3> QED  BY <1>3, <3>2 DEF PrepareNodes
  <2>3. MainOK'
    BY <1>1, <2>1, <2>2 DEF MainOK, PC
  <2> QED  BY <2>1, <2>2, <2>3, Frames, TypeBack
<1> QED  BY <1>2, <1>3

\* The goroutines of the nodes, and QEMU.
NodeStep(n) ==
  startSWTPM(n) \/ createTaps(n) \/ startQEMU(n) \/ pollSockets(n) \/ QEMUListens(n) \/ QEMUExits(n)

LEMMA TypeNodes ==
  ASSUME TypeInv, NEW n \in Nodes, NodeStep(n)
  PROVE  TypeInv'
<1>1. TypeOK /\ (pc # "off" => runs # 0) /\ MainOK /\ NodesOK
  BY TypeParts DEF TypeInv
<1>2. UNCHANGED setupVars
  BY Zenon DEF NodeStep, startSWTPM, createTaps, startQEMU, pollSockets, QEMUListens, QEMUExits
<1>3. UNCHANGED <<runs, force, pc, networks, cancelled, served, ended, serveVars, todo>>
  BY <1>2 DEF setupVars, runVars, serveVars
<1>4. HostOK'
  <2>1. {SWTPMDir(n)} \in SUBSET Resource /\ {Socks(n)} \in SUBSET Resource
    BY FileTypes
  <2>2. CASE startSWTPM(n)
    BY <1>1, <2>1, <2>2, HostTypes DEF startSWTPM
  <2>3. CASE createTaps(n)
    <3>1. pc # "off"
      BY <2>3 DEF createTaps
    <3>2. runs \in 1..MaxRuns
      BY <1>1, <3>1 DEF TypeOK
    <3>3. {Tap(n, runs)} \in SUBSET Resource
      BY <3>2, FileTypes
    <3> QED  BY <1>1, <2>3, <3>3, HostTypes DEF createTaps
  <2>4. CASE startQEMU(n) \/ pollSockets(n)
    BY <1>1, <2>1, <2>4, HostTypes DEF startQEMU, pollSockets
  <2>5. CASE QEMUListens(n)
    BY <1>1, <2>1, <2>5 DEF QEMUListens, HostOK, TypeOK
  <2>6. CASE QEMUExits(n)
    BY <1>1, <2>1, <2>6, HostTypes DEF QEMUExits
  <2> QED  BY <2>2, <2>3, <2>4, <2>5, <2>6 DEF NodeStep
<1>5. NodesOK'
  <2>1. CASE startSWTPM(n)
    BY <1>1, <2>1 DEF startSWTPM, NodesOK, Goto, NodePC
  <2>2. CASE createTaps(n)
    BY <1>1, <2>2 DEF createTaps, NodesOK, Goto, NodePC
  <2>3. CASE startQEMU(n)
    BY <1>1, <2>3 DEF startQEMU, NodesOK, Goto, NodePC, QEMUState
  <2>4. CASE pollSockets(n)
    BY <1>1, <2>4, SerialTypes DEF pollSockets, NodesOK, Goto, NodePC, Register
  <2>5. CASE QEMUListens(n)
    BY <1>1, <2>5 DEF QEMUListens, NodesOK, nodeVars, QEMUState
  <2>6. CASE QEMUExits(n)
    BY <1>1, <2>6 DEF QEMUExits, NodesOK, nodeVars, QEMUState
  <2> QED  BY <2>1, <2>2, <2>3, <2>4, <2>5, <2>6 DEF NodeStep
<1> QED  BY <1>3, <1>4, <1>5, Frames, TypeBack

\* The goroutines of the second Environment.
ServeStep ==
  (\E n \in Nodes : VMEnds(n)) \/ (\E s \in NetNSs : NewNetNS(s) \/ SetupNetNS(s) \/ NetNSEnds(s))

LEMMA TypeServe == ASSUME TypeInv, ServeStep PROVE TypeInv'
<1>1. TypeOK /\ (pc # "off" => runs # 0) /\ MainOK /\ ServeOK
  BY TypeParts DEF TypeInv
<1>2. ASSUME NEW n \in Nodes, VMEnds(n) PROVE TypeInv'
  <2>1. UNCHANGED <<host, made, met, runs, force, pc, networks, cancelled, served, ended, nodeVars, qemu, todo>>
    BY <1>2 DEF VMEnds, Keep, mainVars, nodeVars, runVars
  <2>2. ServeOK'
    BY <1>1, <1>2, Zenon DEF VMEnds, ServeOK
  <2> QED  BY <2>1, <2>2, Frames, TypeBack
<1>3. ASSUME NEW s \in NetNSs, NewNetNS(s) PROVE TypeInv'
  <2>1. UNCHANGED <<host, made, met, runs, force, networks, cancelled, served, ended, nodeVars, qemu, todo>>
    BY <1>3 DEF NewNetNS, Keep, nodeVars, runVars
  <2>2. ServeOK'
    BY <1>1, <1>3 DEF NewNetNS, ServeOK, NetNSPC
  <2>3. MainOK'
    BY <1>1, <1>3, <2>1 DEF NewNetNS, MainOK, PC
  <2> QED  BY <2>1, <2>2, <2>3, Frames, TypeBack
<1>4. ASSUME NEW s \in NetNSs, SetupNetNS(s) PROVE TypeInv'
  <2>1. UNCHANGED <<runs, force, pc, networks, cancelled, served, ended, nodeVars, qemu, todo>>
    BY <1>4 DEF SetupNetNS, mainVars, nodeVars, runVars
  <2>2. ServeOK'
    BY <1>1, <1>4, Zenon DEF SetupNetNS, ServeOK, NetNSPC
  <2>3. HostOK'
    <3>1. {NS(s)} \in SUBSET Resource
      BY FileTypes
    <3> QED  BY <1>1, <1>4, <3>1, HostTypes DEF SetupNetNS
  <2> QED  BY <2>1, <2>2, <2>3, Frames, TypeBack
<1>5. ASSUME NEW s \in NetNSs, NetNSEnds(s) PROVE TypeInv'
  <2>1. UNCHANGED <<host, made, met, runs, force, pc, networks, cancelled, served, ended, nodeVars, qemu, todo>>
    BY <1>5 DEF NetNSEnds, Keep, mainVars, nodeVars, runVars
  <2>2. ServeOK'
    BY <1>1, <1>5, Zenon DEF NetNSEnds, ServeOK, NetNSPC
  <2> QED  BY <2>1, <2>2, Frames, TypeBack
<1> QED  BY <1>2, <1>3, <1>4, <1>5 DEF ServeStep


\* The steps of Setup that change nothing on the host, and the end.
MainStep == waitNodes \/ waitVMs \/ startAPIServer \/ waitServers \/ Signal
EndStep == NilVMPanics \/ Return \/ Kill

LEMMA TypeMain ==
  ASSUME TypeInv, MainStep \/ EndStep \/ cleanupVMs \/ UNCHANGED vars
  PROVE  TypeInv'
<1>1. TypeOK /\ (pc # "off" => runs # 0) /\ MainOK /\ ServeOK
  BY TypeParts DEF TypeInv
<1>2. CASE MainStep
  <2>1. UNCHANGED <<host, made, met, nodeVars, qemu, todo>>
    BY <1>2, Zenon DEF MainStep, waitNodes, waitVMs, startAPIServer, waitServers, Signal, Keep, nodeVars
  <2>2. MainOK'
    BY <1>1, <1>2, Zenon
    DEF MainStep, waitNodes, waitVMs, startAPIServer, waitServers, Signal, MainOK, PC, Ends, runVars
  <2>3. ServeOK'
    BY <1>1, <1>2, VMTypes, Zenon
    DEF MainStep, waitNodes, waitVMs, startAPIServer, waitServers, Signal, ServeOK, serveVars
  <2> QED  BY <2>1, <2>2, <2>3, Frames, TypeBack
<1>3. CASE EndStep
  <2>1. UNCHANGED <<host, made, met, nodeVars, qemu, serveVars>>
    BY <1>3, Zenon DEF EndStep, NilVMPanics, Return, Kill, Keep, nodeVars, serveVars
  <2>2. MainOK'
    BY <1>1, <1>3 DEF EndStep, NilVMPanics, Return, Kill, MainOK, PC, Ends, runVars
  <2>3. TodoOK'
    <3>1. <<>> \in Seq(SUBSET Resource)
      OBVIOUS
    <3> QED  BY <1>1, <1>3, <3>1, Zenon DEF EndStep, NilVMPanics, Return, Kill, TodoOK, TypeOK
  <2> QED  BY <2>1, <2>2, <2>3, Frames, TypeBack
<1>4. CASE cleanupVMs
  <2>1. UNCHANGED <<runs, force, networks, cancelled, served, nodeVars, qemu, serveVars>> /\ pc = "vms"
    BY <1>4 DEF cleanupVMs, nodeVars, serveVars, runVars
  <2>2. PICK first \in Visited, second \in Visited :
            Drop(UNION {FilesOf(n) : n \in first}) /\ cleanup(networks, second)
    BY <1>4, Zenon DEF cleanupVMs
  <2>3. pc' = "cleanup" /\ TodoOK'
    <3>1. networks \in SUBSET Networks /\ second \in SUBSET Nodes /\ runs # 0
      BY <1>1, <2>1, VMTypes DEF TypeOK
    <3> QED  BY <1>1, <2>2, <3>1, CleanupBegins, Zenon DEF TodoOK
  <2>4. HostOK'
    BY <1>1, <2>2 DEF Drop, HostOK, TypeOK
  <2>5. ended' \in Ends
    BY <1>1, <1>4 DEF cleanupVMs, MainOK, Ends
  <2>6. MainOK'
    BY <1>1, <2>1, <2>3, <2>5 DEF MainOK, PC
  <2> QED  BY <2>1, <2>3, <2>4, <2>6, Frames, TypeBack
<1>5. CASE UNCHANGED vars
  BY <1>5, Frames, TypeBack DEF vars, nodeVars, serveVars
<1> QED  BY <1>2, <1>3, <1>4, <1>5

\* Every step is one of these.
LEMMA StepCases ==
  ASSUME [Next]_vars
  PROVE  \/ \E f \in BOOLEAN : NewCluster(f)
         \/ Removal
         \/ Forced
         \/ CreateNatRules
         \/ \E n \in Networks : SetupNetwork(n)
         \/ PrepareNodes
         \/ \E n \in Nodes : NodeStep(n)
         \/ ServeStep
         \/ MainStep
         \/ EndStep
         \/ cleanupVMs
         \/ UNCHANGED vars
BY DEF Next, Setup, NodeSetup, NodeStep, ServeStep, MainStep, EndStep

LEMMA TypeStep == ASSUME TypeInv, [Next]_vars PROVE TypeInv'
BY StepCases, TypeHead, TypeNetworks, TypeNodes, TypeServe, TypeMain

LEMMA TypesHold == Spec => []TypeInv
<1>1. TypeInv /\ [Next]_vars => TypeInv'
  BY TypeStep
<1> QED  BY TypeInit, <1>1, PTL DEF Spec

\* Every variable holds what the code can hold: what --force and c.cleanup have
\* still to remove is a list of sets of host resources, whatever the names of the
\* nodes, networks and namespaces and however many processes were started.
THEOREM TypeCorrect == Spec => []TypeOK
<1>1. TypeInv => TypeOK
  BY DEF TypeInv
<1> QED  BY TypesHold, <1>1, PTL

-----------------------------------------------------------------------------
(* The order of the iptables calls.                                          *)

\* Every set of s that holds y comes after one that holds x.
Before(x, y, s) == \A i \in DOMAIN s : y \in s[i] => \E j \in DOMAIN s : j < i /\ x \in s[j]

\* No two sets of s share a resource.
Once(s) == \A i, j \in DOMAIN s : i # j => s[i] \cap s[j] = {}

LEMMA BeforeTail ==
  ASSUME NEW S, NEW s \in Seq(S), s # <<>>, NEW x, NEW y, Before(x, y, s)
  PROVE  /\ y \notin Head(s)
         /\ x \notin Head(s) => Before(x, y, Tail(s))
<1>1. y \notin Head(s)
  <2>1. Head(s) = s[1] /\ 1 \in DOMAIN s /\ DOMAIN s = 1..Len(s) /\ Len(s) \in Nat
    BY TailFacts
  <2> QED  BY <2>1 DEF Before
<1>2. ASSUME x \notin Head(s), NEW i \in DOMAIN Tail(s), y \in Tail(s)[i]
      PROVE  \E j \in DOMAIN Tail(s) : j < i /\ x \in Tail(s)[j]
  <2>1. i + 1 \in DOMAIN s /\ y \in s[i + 1] /\ i \in Nat
    BY <1>2, TailFacts, Zenon
  <2>2. PICK j \in DOMAIN s : j < i + 1 /\ x \in s[j]
    BY <2>1 DEF Before
  <2>3. j # 1 /\ j \in Nat
    BY <1>2, <2>2, TailFacts
  <2>4. j - 1 \in DOMAIN Tail(s) /\ Tail(s)[j - 1] = s[j]
    BY <2>3, TailFacts
  <2> QED  BY <2>1, <2>2, <2>3, <2>4
<1> QED  BY <1>1, <1>2 DEF Before

LEMMA BeforeAppend ==
  ASSUME NEW S, NEW s \in Seq(S), NEW t \in Seq(S), NEW x, NEW y
  PROVE  /\ Before(x, y, s) /\ y \notin All(t) => Before(x, y, s \o t)
         /\ Before(x, y, t) /\ y \notin All(s) => Before(x, y, s \o t)
<1> DEFINE u == s \o t
<1>1. /\ \A i \in DOMAIN u : \/ i \in DOMAIN s /\ u[i] = s[i]
                             \/ i - Len(s) \in DOMAIN t /\ u[i] = t[i - Len(s)] /\ i > Len(s)
      /\ \A i \in DOMAIN s : i \in DOMAIN u /\ u[i] = s[i]
      /\ \A i \in DOMAIN t : i + Len(s) \in DOMAIN u /\ u[i + Len(s)] = t[i]
      /\ Len(s) \in Nat /\ DOMAIN u \subseteq Nat /\ DOMAIN s = 1..Len(s) /\ DOMAIN t \subseteq Nat
  BY Appended, Zenon
<1>2. /\ y \notin All(t) => \A i \in DOMAIN t : y \notin t[i]
      /\ y \notin All(s) => \A i \in DOMAIN s : y \notin s[i]
  BY Zenon DEF All, Range
<1> HIDE DEF u
<1>3. ASSUME Before(x, y, s), y \notin All(t), NEW i \in DOMAIN u, y \in u[i]
      PROVE  \E j \in DOMAIN u : j < i /\ x \in u[j]
  <2>1. i \in DOMAIN s /\ y \in s[i]
    BY <1>1, <1>2, <1>3, Zenon
  <2>2. PICK j \in DOMAIN s : j < i /\ x \in s[j]
    BY <1>3, <2>1 DEF Before
  <2> QED  BY <1>1, <2>2
<1>4. ASSUME Before(x, y, t), y \notin All(s), NEW i \in DOMAIN u, y \in u[i]
      PROVE  \E j \in DOMAIN u : j < i /\ x \in u[j]
  <2>1. i - Len(s) \in DOMAIN t /\ y \in t[i - Len(s)]
    BY <1>1, <1>2, <1>4, Zenon
  <2>2. PICK j \in DOMAIN t : j < i - Len(s) /\ x \in t[j]
    BY <1>4, <2>1, Zenon DEF Before
  <2>3. j + Len(s) \in DOMAIN u /\ x \in u[j + Len(s)] /\ j \in Nat /\ i \in Nat
    BY <1>1, <2>2, Zenon
  <2> QED  BY <1>1, <2>2, <2>3
<1> QED  BY <1>3, <1>4, Zenon DEF Before, u

LEMMA OnceTail ==
  ASSUME NEW S, NEW s \in Seq(S), s # <<>>, Once(s)
  PROVE  Once(Tail(s)) /\ Head(s) \cap All(Tail(s)) = {}
<1>1. ASSUME NEW i \in DOMAIN Tail(s), NEW j \in DOMAIN Tail(s), i # j
      PROVE  Tail(s)[i] \cap Tail(s)[j] = {}
  <2>1. /\ i + 1 \in DOMAIN s /\ Tail(s)[i] = s[i + 1] /\ i \in Nat
        /\ j + 1 \in DOMAIN s /\ Tail(s)[j] = s[j + 1] /\ j \in Nat
    BY TailFacts
  <2> QED  BY <1>1, <2>1 DEF Once
<1>2. ASSUME NEW i \in DOMAIN Tail(s) PROVE Head(s) \cap Tail(s)[i] = {}
  <2>1. /\ i + 1 \in DOMAIN s /\ Tail(s)[i] = s[i + 1] /\ i \in Nat
        /\ Head(s) = s[1] /\ 1 \in DOMAIN s /\ i # 0
    BY TailFacts
  <2> QED  BY <2>1 DEF Once
<1> QED  BY <1>1, <1>2 DEF Once, All, Range

LEMMA OnceAppend ==
  ASSUME NEW S, NEW s \in Seq(S), NEW t \in Seq(S), Once(s), Once(t), All(s) \cap All(t) = {}
  PROVE  Once(s \o t)
<1> DEFINE u == s \o t
<1>1. /\ \A i \in DOMAIN u : \/ i \in DOMAIN s /\ u[i] = s[i]
                             \/ i - Len(s) \in DOMAIN t /\ u[i] = t[i - Len(s)] /\ i > Len(s)
      /\ Len(s) \in Nat /\ DOMAIN u \subseteq Nat /\ DOMAIN s = 1..Len(s)
  BY Appended
<1>2. \A i \in DOMAIN s, j \in DOMAIN t : s[i] \cap t[j] = {}
  BY DEF All, Range
<1> HIDE DEF u
<1>3. ASSUME NEW i \in DOMAIN u, NEW j \in DOMAIN u, i # j PROVE u[i] \cap u[j] = {}
  <2>1. CASE i \in DOMAIN s /\ u[i] = s[i] /\ j \in DOMAIN s /\ u[j] = s[j]
    BY <1>3, <2>1, Zenon DEF Once
  <2>2. CASE /\ i - Len(s) \in DOMAIN t /\ u[i] = t[i - Len(s)]
             /\ j - Len(s) \in DOMAIN t /\ u[j] = t[j - Len(s)]
    <3>1. i - Len(s) # j - Len(s)
      BY <1>1, <1>3
    <3> QED  BY <2>2, <3>1 DEF Once
  <2>3. CASE i \in DOMAIN s /\ u[i] = s[i] /\ j - Len(s) \in DOMAIN t /\ u[j] = t[j - Len(s)]
    BY <1>2, <2>3
  <2>4. CASE j \in DOMAIN s /\ u[j] = s[j] /\ i - Len(s) \in DOMAIN t /\ u[i] = t[i - Len(s)]
    BY <1>2, <2>4
  <2> QED  BY <1>1, <2>1, <2>2, <2>3, <2>4, Zenon
<1> QED  BY <1>3 DEF Once, u


\* The rules of one protocol, and the chain that is made first and removed
\* after the jumps.
JumpNames == {"filterJump", "natJump"}
RulesOf(f) == {Rule("filterChain", f), Rule("natChain", f), Rule("filterJump", f), Rule("natJump", f)}
FilterChain(f) == Rule("filterChain", f)

LEMMA FamilyOrder ==
  ASSUME NEW f \in Both
  PROVE  /\ All(NatRemovals(f)) = RulesOf(f) /\ All(NatRules(f)) = RulesOf(f)
         /\ Once(NatRules(f))
         /\ \A k \in JumpNames : /\ Before(Rule(k, f), FilterChain(f), NatRemovals(f))
                                 /\ Before(FilterChain(f), Rule(k, f), NatRules(f))
<1> DEFINE j1 == Rule("filterJump", f)
           j2 == Rule("natJump", f)
           c1 == Rule("filterChain", f)
           c2 == Rule("natChain", f)
<1>1. j1 # j2 /\ j1 # c1 /\ j1 # c2 /\ j2 # c1 /\ j2 # c2 /\ c1 # c2
  BY Named
<1>2. /\ NatRemovals(f) = <<{j1}, {j2}, {c1}, {c2}>> /\ NatRules(f) = <<{c1}, {c2}, {j2}, {j1}>>
      /\ RulesOf(f) = {c1, c2, j1, j2} /\ FilterChain(f) = c1
      /\ \A k \in JumpNames : Rule(k, f) = j1 \/ Rule(k, f) = j2
  BY DEF NatRemovals, NatRules, RulesOf, FilterChain, JumpNames
<1> HIDE DEF j1, j2, c1, c2
<1>3. DOMAIN <<{j1}, {j2}, {c1}, {c2}>> = 1..4 /\ DOMAIN <<{c1}, {c2}, {j2}, {j1}>> = 1..4
  OBVIOUS
<1>4. All(NatRemovals(f)) = RulesOf(f) /\ All(NatRules(f)) = RulesOf(f)
  <2>1. /\ Range(<<{j1}, {j2}, {c1}, {c2}>>) = {{j1}, {j2}, {c1}, {c2}}
        /\ Range(<<{c1}, {c2}, {j2}, {j1}>>) = {{j1}, {j2}, {c1}, {c2}}
    BY DEF Range
  <2>2. UNION {{j1}, {j2}, {c1}, {c2}} = {c1, c2, j1, j2}
    OBVIOUS
  <2>3. /\ All(<<{j1}, {j2}, {c1}, {c2}>>) = {c1, c2, j1, j2}
        /\ All(<<{c1}, {c2}, {j2}, {j1}>>) = {c1, c2, j1, j2}
    BY <2>1, <2>2, Zenon DEF All
  <2> QED  BY <1>2, <2>3, Zenon
<1>5. Once(<<{c1}, {c2}, {j2}, {j1}>>)
  BY <1>1, <1>3 DEF Once
<1>6. /\ Before(j1, c1, <<{j1}, {j2}, {c1}, {c2}>>) /\ Before(j2, c1, <<{j1}, {j2}, {c1}, {c2}>>)
  BY <1>1, <1>3 DEF Before
<1>7. /\ Before(c1, j1, <<{c1}, {c2}, {j2}, {j1}>>) /\ Before(c1, j2, <<{c1}, {c2}, {j2}, {j1}>>)
  BY <1>1, <1>3 DEF Before
<1> QED  BY <1>2, <1>4, <1>5, <1>6, <1>7, Zenon

LEMMA NatOrder ==
  /\ Once(NatRules("v4") \o NatRules("v6"))
  /\ \A f \in Both, k \in JumpNames :
       /\ Before(Rule(k, f), FilterChain(f), CleanupNatRules)
       /\ Before(FilterChain(f), Rule(k, f), NatRules("v4") \o NatRules("v6"))
<1>1. /\ NatRules("v4") \in Seq(SUBSET Resource) /\ NatRules("v6") \in Seq(SUBSET Resource)
      /\ NatRemovals("v4") \in Seq(SUBSET Resource) /\ NatRemovals("v6") \in Seq(SUBSET Resource)
  BY FamilyRemovals DEF Both
<1>2. RulesOf("v4") \cap RulesOf("v6") = {}
  BY Named DEF RulesOf
<1>3. \A f \in Both, k \in JumpNames : FilterChain(f) \in RulesOf(f) /\ Rule(k, f) \in RulesOf(f)
  BY DEF FilterChain, RulesOf, JumpNames
<1>4. /\ All(NatRemovals("v4")) = RulesOf("v4") /\ All(NatRemovals("v6")) = RulesOf("v6")
      /\ All(NatRules("v4")) = RulesOf("v4") /\ All(NatRules("v6")) = RulesOf("v6")
      /\ Once(NatRules("v4")) /\ Once(NatRules("v6"))
  BY FamilyOrder DEF Both
<1>5. Once(NatRules("v4") \o NatRules("v6"))
  BY <1>1, <1>2, <1>4, OnceAppend
<1>6. ASSUME NEW f \in Both, NEW k \in JumpNames
      PROVE  /\ Before(Rule(k, f), FilterChain(f), CleanupNatRules)
             /\ Before(FilterChain(f), Rule(k, f), NatRules("v4") \o NatRules("v6"))
  <2>1. /\ Before(Rule(k, f), FilterChain(f), NatRemovals(f))
        /\ Before(FilterChain(f), Rule(k, f), NatRules(f))
    BY FamilyOrder
  <2>2. CASE f = "v4"
    <3>1. FilterChain(f) \notin All(NatRemovals("v6")) /\ Rule(k, f) \notin All(NatRules("v6"))
      BY <1>2, <1>3, <1>4, <2>2
    <3> QED  BY <1>1, <2>1, <2>2, <3>1, BeforeAppend DEF CleanupNatRules
  <2>3. CASE f = "v6"
    <3>1. FilterChain(f) \notin All(NatRemovals("v4")) /\ Rule(k, f) \notin All(NatRules("v4"))
      BY <1>2, <1>3, <1>4, <2>3
    <3> QED  BY <1>1, <2>1, <2>3, <3>1, BeforeAppend DEF CleanupNatRules
  <2> QED  BY <2>2, <2>3 DEF Both
<1> QED  BY <1>5, <1>6

\* cleanup removes the jumps before their chains.
LEMMA CleanupOrder ==
  ASSUME TypeOK, runs # 0, NEW nets \in SUBSET Networks, NEW vs \in SUBSET Nodes, cleanup(nets, vs)
  PROVE  \A f \in Both, k \in JumpNames : Before(Rule(k, f), FilterChain(f), todo')
<1> SUFFICES ASSUME NEW f \in Both, NEW k \in JumpNames
             PROVE  Before(Rule(k, f), FilterChain(f), todo')
  OBVIOUS
<1>1. todo' = CleanupNatRules \o Rest(nets, vs)
  BY DEF cleanup, Rest
<1>2. CleanupNatRules \in Seq(SUBSET Resource) /\ Rest(nets, vs) \in Seq(SUBSET Resource)
  BY RemovesRules, RestTypes, Zenon DEF Covers
<1>3. FilterChain(f) \notin All(Rest(nets, vs))
  <2>1. /\ \A n : FilterChain(f) # Bridge(n) /\ FilterChain(f) # Tap(n, runs) /\ FilterChain(f) # NS(n)
        /\ \A n : FilterChain(f) # Socks(n) /\ FilterChain(f) # SWTPMDir(n)
    BY Apart DEF FilterChain
  <2>2. \A n : FilterChain(f) \notin FilesOf(n)
    BY <2>1 DEF FilesOf
  <2>3. All(Rest(nets, vs)) = {Bridge(n) : n \in nets} \cup {Tap(n, runs) : n \in named}
                               \cup {NS(s) : s \in netNss} \cup (UNION {FilesOf(n) : n \in vs})
    BY RestTypes, Zenon
  <2> QED  BY <2>1, <2>2, <2>3
<1>4. Before(Rule(k, f), FilterChain(f), CleanupNatRules \o Rest(nets, vs))
  BY <1>2, <1>3, NatOrder, BeforeAppend
<1> QED  BY <1>1, <1>4

\* The steps that make and remove no rule.
Other ==
  \/ \E n \in Networks : SetupNetwork(n)
  \/ PrepareNodes
  \/ \E n \in Nodes : NodeStep(n)
  \/ ServeStep \/ MainStep \/ EndStep \/ cleanupVMs \/ UNCHANGED vars

KeepsIn(R) == /\ \A x \in R : x \in host' <=> x \in host
              /\ \A x \in R : x \in made' <=> x \in made
              /\ \A x \in R : x \in met' <=> x \in met

LEMMA KeepsApart ==
  ASSUME NEW R, NEW old, NEW new, old \cap R = {}, new \cap R = {},
         Make(old, new) \/ Meet(old, new) \/ Drop(old) \/ Keep
  PROVE  KeepsIn(R)
BY DEF KeepsIn, Make, Meet, Drop, Keep

LEMMA OneApart ==
  ASSUME NEW R
  PROVE  /\ \A n : Bridge(n) \notin R => {Bridge(n)} \cap R = {} /\ Garbage({Bridge(n)}) \cap R = {}
         /\ \A s : NS(s) \notin R => {NS(s)} \cap R = {} /\ Garbage({NS(s)}) \cap R = {}
         /\ \A n : Socks(n) \notin R /\ SWTPMDir(n) \notin R
                     => Garbage(FilesOf(n)) \cap R = {} /\ {SWTPMDir(n)} \cap R = {} /\ {Socks(n)} \cap R = {}
         /\ \A n, r : Tap(n, r) \notin R => {Tap(n, r)} \cap R = {}
BY DEF Garbage, FilesOf


LEMMA KindsApart ==
  /\ \A n : Bridge(n) \notin Rules \cup NSs \cup Links \cup NodeFiles
  /\ \A s : NS(s) \notin Rules \cup Bridges \cup Links \cup NodeFiles
  /\ \A n : Socks(n) \notin Rules \cup Bridges \cup NSs \cup Links
  /\ \A n : SWTPMDir(n) \notin Rules \cup Bridges \cup NSs \cup Links
  /\ \A n, r : Tap(n, r) \notin Rules \cup Bridges \cup NSs \cup NodeFiles
<1>1. ASSUME NEW n PROVE Bridge(n) \notin Rules \cup NSs \cup Links \cup NodeFiles
  <2>1. Bridge(n) \notin Rules
    BY Apart DEF Rules, Chains, Jumps
  <2>2. Bridge(n) \notin NSs
    BY Apart DEF NSs
  <2>3. Bridge(n) \notin Links
    BY Apart DEF Links
  <2>4. Bridge(n) \notin NodeFiles
    BY Apart DEF NodeFiles
  <2> QED  BY <2>1, <2>2, <2>3, <2>4
<1>2. ASSUME NEW s PROVE NS(s) \notin Rules \cup Bridges \cup Links \cup NodeFiles
  <2>1. NS(s) \notin Rules
    BY Apart DEF Rules, Chains, Jumps
  <2>2. NS(s) \notin Bridges
    BY Apart DEF Bridges
  <2>3. NS(s) \notin Links
    BY Apart DEF Links
  <2>4. NS(s) \notin NodeFiles
    BY Apart DEF NodeFiles
  <2> QED  BY <2>1, <2>2, <2>3, <2>4
<1>3. ASSUME NEW n PROVE Socks(n) \notin Rules \cup Bridges \cup NSs \cup Links
  <2>1. Socks(n) \notin Rules
    BY Apart DEF Rules, Chains, Jumps
  <2>2. Socks(n) \notin Bridges
    BY Apart DEF Bridges
  <2>3. Socks(n) \notin NSs
    BY Apart DEF NSs
  <2>4. Socks(n) \notin Links
    BY Apart DEF Links
  <2> QED  BY <2>1, <2>2, <2>3, <2>4
<1>4. ASSUME NEW n PROVE SWTPMDir(n) \notin Rules \cup Bridges \cup NSs \cup Links
  <2>1. SWTPMDir(n) \notin Rules
    BY Apart DEF Rules, Chains, Jumps
  <2>2. SWTPMDir(n) \notin Bridges
    BY Apart DEF Bridges
  <2>3. SWTPMDir(n) \notin NSs
    BY Apart DEF NSs
  <2>4. SWTPMDir(n) \notin Links
    BY Apart DEF Links
  <2> QED  BY <2>1, <2>2, <2>3, <2>4
<1>5. ASSUME NEW n, NEW r PROVE Tap(n, r) \notin Rules \cup Bridges \cup NSs \cup NodeFiles
  <2>1. Tap(n, r) \notin Rules
    BY Apart DEF Rules, Chains, Jumps
  <2>2. Tap(n, r) \notin Bridges \cup NSs
    BY Apart DEF Bridges, NSs
  <2>3. Tap(n, r) \notin NodeFiles
    BY Apart DEF NodeFiles
  <2> QED  BY <2>1, <2>2, <2>3
<1> QED  BY <1>1, <1>2, <1>3, <1>4, <1>5

\* Which kinds of resources a step leaves alone.
LEMMA NodeKeeps ==
  ASSUME NEW n, NodeStep(n)
  PROVE  KeepsIn(Rules \cup Bridges \cup NSs)
<1> DEFINE R == Rules \cup Bridges \cup NSs
<1>1. /\ Garbage(FilesOf(n)) \cap R = {} /\ {SWTPMDir(n)} \cap R = {} /\ {Socks(n)} \cap R = {}
      /\ {Tap(n, runs)} \cap R = {} /\ {} \cap R = {}
  BY KindsApart, OneApart, Zenon
<1> HIDE DEF R
<1>2. CASE startSWTPM(n)
  BY <1>1, <1>2, KeepsApart, Zenon DEF startSWTPM, R
<1>3. CASE createTaps(n)
  BY <1>1, <1>3, KeepsApart, Zenon DEF createTaps, R
<1>4. CASE startQEMU(n) \/ pollSockets(n)
  BY <1>1, <1>4, KeepsApart, Zenon DEF startQEMU, pollSockets, R
<1>5. CASE QEMUListens(n)
  <2>1. Socks(n) \notin R
    BY <1>1
  <2> QED  BY <1>5, <2>1 DEF QEMUListens, KeepsIn, R
<1>6. CASE QEMUExits(n)
  BY <1>1, <1>6, KeepsApart, Zenon DEF QEMUExits, R
<1> QED  BY <1>2, <1>3, <1>4, <1>5, <1>6 DEF NodeStep

LEMMA ServeKeeps ==
  ASSUME ServeStep
  PROVE  KeepsIn(Rules \cup Bridges \cup Links \cup NodeFiles)
<1> DEFINE R == Rules \cup Bridges \cup Links \cup NodeFiles
<1>1. ASSUME Keep PROVE KeepsIn(R)
  BY <1>1 DEF Keep, KeepsIn
<1>2. ASSUME NEW s \in NetNSs, SetupNetNS(s) PROVE KeepsIn(R)
  <2>1. Garbage({NS(s)}) \cap R = {} /\ {NS(s)} \cap R = {}
    BY KindsApart, OneApart, Zenon
  <2>2. \/ Make(Garbage({NS(s)}), {NS(s)}) \/ Meet(Garbage({NS(s)}), {NS(s)}) \/ Drop(Garbage({NS(s)}))
    BY <1>2 DEF SetupNetNS
  <2> HIDE DEF R
  <2> QED  BY <2>1, <2>2, KeepsApart
<1> HIDE DEF R
<1>3. (\E s \in NetNSs : SetupNetNS(s)) \/ Keep
  BY Zenon DEF ServeStep, VMEnds, NewNetNS, NetNSEnds
<1> QED  BY <1>1, <1>2, <1>3 DEF R

LEMMA NetworkKeeps ==
  ASSUME NEW n, SetupNetwork(n)
  PROVE  KeepsIn(Rules \cup NSs \cup Links \cup NodeFiles)
<1> DEFINE R == Rules \cup NSs \cup Links \cup NodeFiles
<1>1. Garbage({Bridge(n)}) \cap R = {} /\ {Bridge(n)} \cap R = {}
  BY KindsApart, OneApart, Zenon
<1>2. \/ Make(Garbage({Bridge(n)}), {Bridge(n)}) \/ Meet(Garbage({Bridge(n)}), {Bridge(n)})
      \/ Drop(Garbage({Bridge(n)})) \/ Keep
  BY Zenon DEF SetupNetwork
<1> HIDE DEF R
<1> QED  BY <1>1, <1>2, KeepsApart, Zenon DEF R

LEMMA VMsKeep ==
  ASSUME cleanupVMs
  PROVE  KeepsIn(Rules \cup Bridges \cup NSs \cup Links)
<1> DEFINE R == Rules \cup Bridges \cup NSs \cup Links
<1>1. PICK first \in Visited : Drop(UNION {FilesOf(n) : n \in first})
  BY Zenon DEF cleanupVMs
<1>2. (UNION {FilesOf(n) : n \in first}) \cap R = {}
  BY KindsApart DEF FilesOf
<1> HIDE DEF R
<1> QED  BY <1>1, <1>2 DEF KeepsIn, Drop, R

LEMMA QuietSteps ==
  ASSUME PrepareNodes \/ MainStep \/ EndStep \/ UNCHANGED vars
  PROVE  UNCHANGED <<host, made, met>>
BY Zenon DEF PrepareNodes, MainStep, waitNodes, waitVMs, startAPIServer, waitServers, Signal, EndStep,
       NilVMPanics, Return, Kill, Keep, vars

\* Where the process stands after one of these steps.
Passes ==
  /\ KeepsIn(Rules)
  /\ UNCHANGED <<runs, force>>
  /\ \/ UNCHANGED <<pc, todo>>
     \/ pc' \notin {"force", "nat", "cleanup"}
     \/ /\ pc \in {"networks", "vms"} /\ runs # 0
        /\ \E nets \in SUBSET Networks, vs \in SUBSET Nodes : cleanup(nets, vs)

LEMMA OtherSteps == ASSUME TypeInv, Other PROVE Passes
<1>1. TypeOK /\ (pc # "off" => runs # 0)
  BY DEF TypeInv
<1>2. ASSUME NEW n \in Networks, SetupNetwork(n) PROVE Passes
  <2>1. networks \in SUBSET Networks /\ networks' \in SUBSET Networks /\ {} \in SUBSET Nodes
    BY <1>1, <1>2, Zenon DEF SetupNetwork, TypeOK
  <2>2. KeepsIn(Rules)
    BY <1>2, NetworkKeeps DEF KeepsIn
  <2>3. UNCHANGED <<runs, force>> /\ pc = "networks"
    BY <1>2 DEF SetupNetwork, runVars
  <2>4. UNCHANGED <<pc, todo>> \/ cleanup(networks', {}) \/ cleanup(networks, {})
    BY <1>2 DEF SetupNetwork
  <2> QED  BY <1>1, <2>1, <2>2, <2>3, <2>4 DEF Passes
<1>3. CASE PrepareNodes
  <2>1. networks \in SUBSET Networks /\ {} \in SUBSET Nodes
    BY <1>1 DEF TypeOK
  <2>2. UNCHANGED <<runs, force>> /\ pc = "networks" /\ (pc' = "nodes" \/ cleanup(networks, {}))
    BY <1>3 DEF PrepareNodes, runVars
  <2> QED  BY <1>1, <1>3, <2>1, <2>2, QuietSteps DEF KeepsIn, Passes
<1>4. ASSUME NEW n \in Nodes, NodeStep(n) PROVE Passes
  <2>1. UNCHANGED setupVars
    BY <1>4, Zenon DEF NodeStep, startSWTPM, createTaps, startQEMU, pollSockets, QEMUListens, QEMUExits
  <2>2. KeepsIn(Rules)
    BY <1>4, NodeKeeps DEF KeepsIn
  <2> QED  BY <2>1, <2>2 DEF setupVars, runVars, Passes
<1>5. CASE ServeStep
  <2>1. UNCHANGED <<runs, force, todo>> /\ (pc' = pc \/ pc' = "vms")
    BY <1>5, Zenon DEF ServeStep, VMEnds, NewNetNS, SetupNetNS, NetNSEnds, mainVars, runVars
  <2>2. KeepsIn(Rules)
    BY <1>5, ServeKeeps DEF KeepsIn
  <2> QED  BY <2>1, <2>2 DEF Passes
<1>6. CASE MainStep \/ EndStep \/ UNCHANGED vars
  <2>1. UNCHANGED <<runs, force>>
    BY <1>6, Zenon DEF MainStep, waitNodes, waitVMs, startAPIServer, waitServers, Signal, EndStep,
                NilVMPanics, Return, Kill, runVars, vars
  <2>2. UNCHANGED <<pc, todo>> \/ pc' \notin {"force", "nat", "cleanup"}
    BY <1>6, Zenon DEF MainStep, waitNodes, waitVMs, startAPIServer, waitServers, Signal, EndStep,
                NilVMPanics, Return, Kill, vars
  <2> QED  BY <1>6, <2>1, <2>2, QuietSteps DEF KeepsIn, Passes
<1>7. CASE cleanupVMs
  <2>1. KeepsIn(Rules)
    BY <1>7, VMsKeep DEF KeepsIn
  <2>2. PICK second \in Visited : cleanup(networks, second)
    BY <1>7 DEF cleanupVMs
  <2>3. networks \in SUBSET Networks /\ second \in SUBSET Nodes
    BY <1>1, VMTypes, Zenon DEF TypeOK
  <2>4. UNCHANGED <<runs, force>> /\ pc = "vms"
    BY <1>7 DEF cleanupVMs, runVars
  <2> QED  BY <1>1, <2>1, <2>2, <2>3, <2>4 DEF Passes
<1> QED  BY <1>2, <1>3, <1>4, <1>5, <1>6, <1>7 DEF Other

=============================================================================
