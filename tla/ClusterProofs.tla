---------------------------- MODULE ClusterProofs ----------------------------
(* What processes leave to each other, for any nodes, networks, namespaces   *)
(* and serials, and any number of processes that fail, are signalled or are  *)
(* killed at any step.                                                       *)
EXTENDS ClusterLemmas

(* JumpsAreSingle: a jump is never there without the filter chain of its     *)
(* protocol, which is made first, by a call that fails when it exists, and   *)
(* removed last.                                                             *)

JumpInv(f, k) ==
  /\ Rule(k, f) \in host => FilterChain(f) \in host
  /\ pc \in {"force", "cleanup"} /\ Rule(k, f) \in host => Before(Rule(k, f), FilterChain(f), todo)
  /\ pc = "nat" => \/ Before(FilterChain(f), Rule(k, f), todo)
                   \/ FilterChain(f) \in host /\ Rule(k, f) \notin host

NatInv ==
  /\ pc = "nat" => All(todo) \subseteq Rules /\ Once(todo)
  /\ \A f \in Both, k \in JumpNames : JumpInv(f, k)
  /\ JumpsAreSingle

LEMMA JumpRules ==
  /\ \A f \in Both, k \in JumpNames : Rule(k, f) \in Rules /\ Rule(k, f) \in Jumps
  /\ \A f \in Both : FilterChain(f) \in Rules /\ FilterChain(f) \in Chains
  /\ \A x \in Jumps : \E f \in Both, k \in JumpNames : x = Rule(k, f)
BY RuleTypes DEF Rules, JumpNames, FilterChain

LEMMA NatInit == Init => NatInv
BY DEF Init, NatInv, JumpInv, JumpsAreSingle

\* NewCluster, and Forced, which lead to the rules being made.
LEMMA NatBegins ==
  ASSUME TypeInv, NatInv, (\E f \in BOOLEAN : NewCluster(f)) \/ Forced
  PROVE  NatInv'
<1>1. /\ host' = host /\ JumpsAreSingle'
      /\ \/ pc' = "nat" /\ todo' = NatRules("v4") \o NatRules("v6")
         \/ pc' = "force" /\ todo' = CleanupNatRules \o CleanupAllLinks
  BY DEF NewCluster, Forced, Keep, JumpsAreSingle, NatInv
<1>2. pc' = "nat" => All(todo)' \subseteq Rules /\ Once(todo)'
  BY <1>1, MakesRules, NatOrder, Zenon DEF Rules
<1>3. ASSUME NEW f \in Both, NEW k \in JumpNames PROVE JumpInv(f, k)'
  <2>1. Rule(k, f) \in host' => FilterChain(f) \in host'
    BY <1>1 DEF NatInv, JumpInv
  <2>2. Before(Rule(k, f), FilterChain(f), CleanupNatRules \o CleanupAllLinks)
    <3>1. CleanupNatRules \in Seq(SUBSET Resource)
      BY RemovesRules DEF Covers
    <3>2. CleanupAllLinks \in Seq(SUBSET Resource) /\ All(CleanupAllLinks) = Links
      BY FileTypes DEF CleanupAllLinks, All, Range
    <3>3. FilterChain(f) \notin Links
      BY Apart DEF FilterChain, Links
    <3> QED  BY <3>1, <3>2, <3>3, NatOrder, BeforeAppend
  <2>3. Before(FilterChain(f), Rule(k, f), NatRules("v4") \o NatRules("v6"))
    BY NatOrder
  <2> QED  BY <1>1, <2>1, <2>2, <2>3, Zenon DEF JumpInv
<1> QED  BY <1>1, <1>2, <1>3 DEF NatInv

LEMMA NatRemoval == ASSUME TypeInv, NatInv, Removal PROVE NatInv'
<1>1. /\ pc \in {"force", "cleanup"} /\ pc' = pc /\ todo # <<>> /\ todo' = Tail(todo)
      /\ host' = host \ Head(todo) /\ met' = met
  BY DEF Removal, Drop
<1>2. todo \in Seq(SUBSET Resource)
  BY DEF TypeInv, TypeOK
<1>3. ASSUME NEW f \in Both, NEW k \in JumpNames PROVE JumpInv(f, k)'
  <2>1. CASE Rule(k, f) \in host'
    <3>1. Rule(k, f) \in host /\ Rule(k, f) \notin Head(todo)
      BY <1>1, <2>1
    <3>2. FilterChain(f) \in host /\ Before(Rule(k, f), FilterChain(f), todo)
      BY <1>1, <3>1 DEF NatInv, JumpInv
    <3>3. FilterChain(f) \notin Head(todo) /\ Before(Rule(k, f), FilterChain(f), Tail(todo))
      BY <1>1, <1>2, <3>1, <3>2, BeforeTail
    <3> QED  BY <1>1, <3>2, <3>3 DEF JumpInv
  <2>2. CASE Rule(k, f) \notin host'
    BY <1>1, <2>2 DEF JumpInv
  <2> QED  BY <2>1, <2>2
<1> QED  BY <1>1, <1>3 DEF NatInv, JumpsAreSingle

LEMMA NatMakes == ASSUME TypeInv, NatInv, CreateNatRules PROVE NatInv'
<1>1. todo \in Seq(SUBSET Resource) /\ TypeOK /\ pc = "nat" /\ runs # 0
  BY DEF TypeInv, TypeOK, CreateNatRules
<1>2. All(todo) \subseteq Rules /\ Once(todo) /\ met \cap Jumps = {}
  BY <1>1 DEF NatInv, JumpsAreSingle
\* A jump that is to be made now is not there.
<1>3. ASSUME todo # <<>>, NEW f \in Both, NEW k \in JumpNames, Rule(k, f) \in Head(todo)
      PROVE  FilterChain(f) \in host /\ Rule(k, f) \notin host
  <2>1. ~Before(FilterChain(f), Rule(k, f), todo)
    BY <1>1, <1>3, BeforeTail
  <2> QED  BY <1>1, <2>1 DEF NatInv, JumpInv
<1>4. todo # <<>> => Head(todo) \cap host \cap Jumps = {}
  BY <1>3, JumpRules
<1>5. CASE /\ todo # <<>> /\ (Head(todo) \cap host \cap Chains = {})
           /\ Make({}, Head(todo)) /\ todo' = Tail(todo) /\ UNCHANGED pc
  <2>1. host' = host \cup Head(todo) /\ met' = met \cup (Head(todo) \cap host) /\ pc' = "nat"
    BY <1>1, <1>5 DEF Make
  <2>2. Once(todo)' /\ Head(todo) \cap All(Tail(todo)) = {} /\ All(todo)' \subseteq Rules
    <3>1. Once(Tail(todo)) /\ Head(todo) \cap All(Tail(todo)) = {}
      BY <1>1, <1>2, <1>5, OnceTail
    <3>2. All(Tail(todo)) \subseteq Rules
      BY <1>1, <1>2, <1>5, TailRange
    <3>3. todo' = Tail(todo)
      BY <1>5
    <3> QED  BY <3>1, <3>2, <3>3 DEF Once, All, Rules, Chains, Jumps
  <2>3. ASSUME NEW f \in Both, NEW k \in JumpNames PROVE JumpInv(f, k)'
    <3>1. JumpInv(f, k)
      BY DEF NatInv
    <3>2. CASE Rule(k, f) \in Head(todo)
      <4>1. FilterChain(f) \in host
        BY <1>3, <1>5, <3>2
      <4>2. Rule(k, f) \notin All(Tail(todo))
        BY <2>2, <3>2
      <4>3. Before(FilterChain(f), Rule(k, f), Tail(todo))
        BY <4>2 DEF Before, All, Range
      <4> QED  BY <1>5, <2>1, <4>1, <4>3 DEF JumpInv
    <3>3. CASE Rule(k, f) \notin Head(todo) /\ FilterChain(f) \in Head(todo)
      <4>1. FilterChain(f) \notin host
        BY <1>5, <3>3, JumpRules
      <4>2. Rule(k, f) \notin host
        BY <3>1, <4>1 DEF JumpInv
      <4> QED  BY <2>1, <3>3, <4>2 DEF JumpInv
    <3>4. CASE Rule(k, f) \notin Head(todo) /\ FilterChain(f) \notin Head(todo)
      <4>1. CASE Before(FilterChain(f), Rule(k, f), todo)
        <5>1. Before(FilterChain(f), Rule(k, f), Tail(todo))
          BY <1>1, <1>5, <3>4, <4>1, BeforeTail
        <5> QED  BY <1>5, <2>1, <3>1, <3>4, <5>1 DEF JumpInv
      <4>2. CASE FilterChain(f) \in host /\ Rule(k, f) \notin host
        BY <2>1, <3>4, <4>2 DEF JumpInv
      <4> QED  BY <1>1, <3>1, <4>1, <4>2 DEF JumpInv
    <3> QED  BY <3>2, <3>3, <3>4
  <2>4. JumpsAreSingle'
    BY <1>2, <1>4, <1>5, <2>1 DEF JumpsAreSingle
  <2> QED  BY <2>2, <2>3, <2>4 DEF NatInv
<1>6. CASE ((todo # <<>> /\ Meet({}, Head(todo))) \/ Keep) /\ cleanup({}, {})
  <2>1. host' = host /\ JumpsAreSingle'
    BY <1>2, <1>4, <1>6 DEF Meet, Keep, JumpsAreSingle, Jumps
  <2>2. {} \in SUBSET Networks /\ {} \in SUBSET Nodes
    OBVIOUS
  <2>3. pc' = "cleanup" /\ \A f \in Both, k \in JumpNames : Before(Rule(k, f), FilterChain(f), todo')
    BY <1>1, <1>6, <2>2, CleanupOrder, CleanupBegins, Zenon
  <2> QED  BY <2>1, <2>3 DEF NatInv, JumpInv
<1>7. CASE pc' = "networks" /\ Keep
  BY <1>2, <1>7 DEF NatInv, JumpInv, JumpsAreSingle, Keep
<1> QED  BY <1>5, <1>6, <1>7 DEF CreateNatRules

LEMMA NatOther == ASSUME TypeInv, NatInv, Other PROVE NatInv'
<1>1. /\ KeepsIn(Rules)
      /\ \/ UNCHANGED <<pc, todo>>
         \/ pc' \notin {"force", "nat", "cleanup"}
         \/ runs # 0 /\ \E nets \in SUBSET Networks, vs \in SUBSET Nodes : cleanup(nets, vs)
  BY OtherSteps DEF Passes
<1>2. JumpsAreSingle'
  BY <1>1, JumpRules DEF NatInv, JumpsAreSingle, KeepsIn, Rules
<1>3. ASSUME NEW f \in Both, NEW k \in JumpNames
      PROVE  /\ Rule(k, f) \in host' <=> Rule(k, f) \in host
             /\ FilterChain(f) \in host' <=> FilterChain(f) \in host
             /\ JumpInv(f, k)
  BY <1>1, JumpRules DEF KeepsIn, NatInv
<1>4. CASE UNCHANGED <<pc, todo>>
  BY <1>2, <1>3, <1>4 DEF NatInv, JumpInv, All, Once, Before
<1>5. CASE pc' \notin {"force", "nat", "cleanup"}
  BY <1>2, <1>3, <1>5 DEF NatInv, JumpInv
<1>6. ASSUME runs # 0, NEW nets \in SUBSET Networks, NEW vs \in SUBSET Nodes, cleanup(nets, vs)
      PROVE  NatInv'
  <2>1. pc' = "cleanup" /\ \A f \in Both, k \in JumpNames : Before(Rule(k, f), FilterChain(f), todo')
    BY <1>6, CleanupOrder, CleanupBegins, Zenon DEF TypeInv
  <2> QED  BY <1>2, <1>3, <2>1 DEF NatInv, JumpInv
<1> QED  BY <1>1, <1>4, <1>5, <1>6

LEMMA NatStep == ASSUME TypeInv, NatInv, [Next]_vars PROVE NatInv'
BY StepCases, NatBegins, NatRemoval, NatMakes, NatOther DEF Other

\* However many processes are started with and without --force, and wherever
\* they are cut off, CreateNatRules never appends a jump to a PLACEMAT chain
\* that is there already, so that the one Delete of CleanupNatRules removes it.
THEOREM NoSecondJump == Spec => []JumpsAreSingle
<1>1. TypeInv /\ NatInv /\ [Next]_vars => NatInv'
  BY NatStep
<1>2. NatInv => JumpsAreSingle
  BY DEF NatInv
<1> QED  BY TypesHold, NatInit, <1>1, <1>2, PTL DEF Spec


-----------------------------------------------------------------------------
(* ForceMeetsNoGarbage: --force leaves no rule behind, every other resource  *)
(* is removed by the method that makes it, and the name of a tap is new.     *)

Unmade == {"idle", "swtpm", "taps"}

TapsInv ==
  \A n \in Nodes, r \in 1..MaxRuns :
    Tap(n, r) \in host => r <= runs /\ (r = runs => node[n] \notin Unmade)

ForceInv ==
  /\ pc = "force" => host \cap Rules \subseteq All(todo)
  /\ pc = "nat" /\ force => All(todo) \cap host = {}
  /\ TapsInv
  /\ ForceMeetsNoGarbage

LEMMA ForceInit == Init => ForceInv
BY DEF Init, ForceInv, TapsInv, ForceMeetsNoGarbage

LEMMA TapLinks == \A n \in Nodes, r \in 1..MaxRuns : Tap(n, r) \in Links
BY DEF Links

LEMMA TapsStay ==
  ASSUME TapsInv, UNCHANGED <<runs, node>>, \A x \in Links : x \in host' => x \in host
  PROVE  TapsInv'
BY TapLinks DEF TapsInv

LEMMA TapsNode ==
  ASSUME TypeInv, TapsInv, NEW n \in Nodes, NodeStep(n)
  PROVE  TapsInv'
<1>1. UNCHANGED runs /\ NodesOK
  BY TypeParts, Zenon DEF NodeStep, startSWTPM, createTaps, startQEMU, pollSockets, QEMUListens, QEMUExits,
                   setupVars, runVars
<1>2. \A m \in Nodes, r \in 1..MaxRuns :
        Tap(m, r) # SWTPMDir(n) /\ Tap(m, r) # Socks(n) /\ (Tap(m, r) = Tap(n, runs) => m = n /\ r = runs)
  BY Apart, Named
<1>3. CASE createTaps(n)
  <2>1. \/ host' = host \cup {Tap(n, runs)} /\ (Goto(n, "qemu") \/ Goto(n, "failed"))
        \/ host' = host /\ Goto(n, "failed")
    BY <1>3 DEF createTaps, Make, Keep
  <2>2. node' \in [Nodes -> NodePC] /\ node'[n] \notin Unmade /\ \A m \in Nodes \ {n} : node'[m] = node[m]
    BY <1>1, <2>1 DEF Goto, NodesOK, Unmade, NodePC
  <2>3. \A m \in Nodes, r \in 1..MaxRuns : Tap(m, r) \in host' => Tap(m, r) \in host \/ (m = n /\ r = runs)
    BY <1>2, <2>1
  <2>4. runs \in 0..MaxRuns /\ MaxRuns \in Nat
    BY ClusterAssumption DEF TypeInv, TypeOK
  <2> QED  BY <1>1, <2>2, <2>3, <2>4 DEF TapsInv
<1>4. CASE startSWTPM(n)
  <2>1. /\ node[n] = "idle"
        /\ \A m \in Nodes, r \in 1..MaxRuns : Tap(m, r) \in host' => Tap(m, r) \in host
        /\ Goto(n, "taps") \/ Goto(n, "failed")
    BY <1>2, <1>4 DEF startSWTPM, Make, Meet, Drop
  <2>2. \A m \in Nodes \ {n} : node'[m] = node[m]
    BY <1>1, <2>1 DEF Goto, NodesOK
  <2> QED  BY <1>1, <2>1, <2>2 DEF TapsInv, Unmade
<1>5. CASE startQEMU(n) \/ pollSockets(n)
  <2>1. /\ host' = host
        /\ \E to \in {"poll", "ok", "nil", "failed"} : Goto(n, to)
    BY <1>5 DEF startQEMU, pollSockets, Keep
  <2>2. node'[n] \notin Unmade /\ \A m \in Nodes \ {n} : node'[m] = node[m]
    BY <1>1, <2>1 DEF Goto, NodesOK, Unmade
  <2> QED  BY <1>1, <2>1, <2>2 DEF TapsInv
<1>6. CASE QEMUListens(n) \/ QEMUExits(n)
  <2>1. UNCHANGED node /\ \A m \in Nodes, r \in 1..MaxRuns : Tap(m, r) \in host' => Tap(m, r) \in host
    BY <1>2, <1>6 DEF QEMUListens, QEMUExits, nodeVars, Keep, Drop
  <2> QED  BY <1>1, <2>1 DEF TapsInv
<1> QED  BY <1>3, <1>4, <1>5, <1>6 DEF NodeStep

LEMMA TapsOther == ASSUME TypeInv, TapsInv, Other PROVE TapsInv'
<1>1. UNCHANGED runs
  BY OtherSteps DEF Passes
<1>2. ASSUME NEW n \in Networks, SetupNetwork(n) PROVE TapsInv'
  <2>1. UNCHANGED node /\ \A x \in Links : x \in host' => x \in host
    BY <1>2, NetworkKeeps, Zenon DEF SetupNetwork, nodeVars, KeepsIn
  <2> QED  BY <1>1, <2>1, TapsStay
<1>3. CASE PrepareNodes \/ MainStep \/ EndStep \/ UNCHANGED vars
  <2>1. UNCHANGED node
    BY <1>3, Zenon DEF PrepareNodes, MainStep, waitNodes, waitVMs, startAPIServer, waitServers, Signal, EndStep,
                NilVMPanics, Return, Kill, nodeVars, vars
  <2> QED  BY <1>1, <1>3, <2>1, QuietSteps, TapsStay
<1>4. CASE ServeStep
  <2>1. UNCHANGED node /\ \A x \in Links : x \in host' => x \in host
    BY <1>4, ServeKeeps, Zenon DEF ServeStep, VMEnds, NewNetNS, SetupNetNS, NetNSEnds, mainVars, nodeVars, KeepsIn
  <2> QED  BY <1>1, <2>1, TapsStay
<1>5. CASE cleanupVMs
  <2>1. UNCHANGED node /\ \A x \in Links : x \in host' => x \in host
    BY <1>5, VMsKeep, Zenon DEF cleanupVMs, nodeVars, KeepsIn
  <2> QED  BY <1>1, <2>1, TapsStay
<1> QED  BY <1>2, <1>3, <1>4, <1>5, TapsNode DEF Other

LEMMA OtherMeets ==
  ASSUME TypeInv, TapsInv, Other, force
  PROVE  met' = met
<1>1. ASSUME NEW n \in Networks, SetupNetwork(n) PROVE met' = met
  BY <1>1, Zenon DEF SetupNetwork, Garbage, Make, Meet, Drop, Keep
<1>2. CASE PrepareNodes \/ MainStep \/ EndStep \/ UNCHANGED vars
  BY <1>2, QuietSteps
<1>3. ASSUME NEW n \in Nodes, NodeStep(n) PROVE met' = met
  <2>1. CASE startSWTPM(n)
    <3>1. {SWTPMDir(n)} \cap (host \ Garbage(FilesOf(n))) = {}
      BY DEF Garbage, FilesOf
    <3> QED  BY <2>1, <3>1 DEF startSWTPM, Make, Meet, Drop
  <2>2. CASE createTaps(n)
    <3>1. pc # "off" /\ node[n] = "taps"
      BY <2>2 DEF createTaps
    <3>2. runs \in 1..MaxRuns
      BY <3>1 DEF TypeInv, TypeOK
    <3>3. Tap(n, runs) \notin host
      BY <3>1, <3>2 DEF TapsInv, Unmade
    <3> QED  BY <2>2, <3>3 DEF createTaps, Make, Keep
  <2>3. CASE startQEMU(n) \/ pollSockets(n) \/ QEMUListens(n) \/ QEMUExits(n)
    BY <2>3 DEF startQEMU, pollSockets, QEMUListens, QEMUExits, Keep, Drop
  <2> QED  BY <1>3, <2>1, <2>2, <2>3 DEF NodeStep
<1>4. CASE ServeStep
  <2>1. ASSUME NEW s \in NetNSs, SetupNetNS(s) PROVE met' = met
    BY <2>1, Zenon DEF SetupNetNS, Garbage, Make, Meet, Drop
  <2> QED  BY <1>4, <2>1 DEF ServeStep, VMEnds, NewNetNS, NetNSEnds, Keep
<1>5. CASE cleanupVMs
  BY <1>5 DEF cleanupVMs, Drop
<1> QED  BY <1>1, <1>2, <1>3, <1>4, <1>5 DEF Other

LEMMA ForceStep == ASSUME TypeInv, NatInv, ForceInv, [Next]_vars PROVE ForceInv'
<1>1. todo \in Seq(SUBSET Resource) /\ TypeOK
  BY DEF TypeInv, TypeOK
<1>2. ASSUME NEW f \in BOOLEAN, NewCluster(f) PROVE ForceInv'
  <2>1. /\ host' = host /\ force' = f /\ met' = {} /\ runs' = runs + 1 /\ pc' = IF f THEN "force" ELSE "nat"
        /\ f => todo' = CleanupNatRules \o CleanupAllLinks
    BY <1>2 DEF NewCluster
  <2>2. Rules \subseteq All(CleanupNatRules \o CleanupAllLinks)
    <3>1. CleanupNatRules \in Seq(SUBSET Resource) /\ CleanupAllLinks \in Seq(SUBSET Resource)
      BY RemovesRules, FileTypes DEF Covers, CleanupAllLinks
    <3> QED  BY <3>1, AppendedRange, RemovesRules DEF Covers
  <2>3. TapsInv'
    <3>1. runs \in 0..MaxRuns /\ MaxRuns \in Nat
      BY <1>1, ClusterAssumption DEF TypeOK
    <3> QED  BY <2>1, <3>1 DEF TapsInv, ForceInv
  <2>4. (pc = "force" => host \cap Rules \subseteq All(todo))'
    <3>1. pc' = "force" => todo' = CleanupNatRules \o CleanupAllLinks
      BY <1>2 DEF NewCluster
    <3>2. pc' = "force" => host' \cap Rules \subseteq All(todo')
      BY <2>1, <2>2, <3>1, Zenon
    <3> QED  BY <3>2 DEF Rules, Chains, Jumps
  <2> QED  BY <2>1, <2>3, <2>4 DEF ForceInv, ForceMeetsNoGarbage
<1>3. CASE Removal
  <2>1. /\ pc' = pc /\ pc # "nat" /\ todo # <<>> /\ todo' = Tail(todo)
        /\ host' = host \ Head(todo) /\ UNCHANGED <<met, force, runs, node>>
    BY <1>3 DEF Removal, Drop, runVars, nodeVars
  <2>2. All(todo) = Head(todo) \cup All(Tail(todo))
    BY <1>1, <2>1, TailRange
  <2>3. pc' = "force" => host' \cap Rules \subseteq All(Tail(todo))
    BY <2>1, <2>2 DEF ForceInv
  <2>4. TapsInv'
    BY <2>1, TapsStay DEF ForceInv
  <2> QED  BY <2>1, <2>3, <2>4 DEF ForceInv, ForceMeetsNoGarbage, All, Rules, Chains, Jumps
<1>4. CASE Forced
  <2>1. /\ pc = "force" /\ todo = <<>> /\ pc' = "nat" /\ todo' = NatRules("v4") \o NatRules("v6")
        /\ UNCHANGED <<host, met, force, runs, node>>
    BY <1>4 DEF Forced, Keep, runVars, nodeVars
  <2>2. host \cap Rules = {}
    <3>1. All(<<>>) = {}
      BY DEF All, Range
    <3> QED  BY <2>1, <3>1 DEF ForceInv
  <2>3. All(NatRules("v4") \o NatRules("v6")) \cap host = {}
    BY <2>2, MakesRules
  <2>4. TapsInv'
    BY <2>1, TapsStay DEF ForceInv
  <2> QED  BY <2>1, <2>3, <2>4 DEF ForceInv, ForceMeetsNoGarbage
<1>5. CASE CreateNatRules
  <2>1. pc = "nat" /\ UNCHANGED <<force, runs, node>> /\ pc' # "force" /\ All(todo) \subseteq Rules /\ Once(todo)
    BY <1>5 DEF CreateNatRules, cleanup, runVars, nodeVars, NatInv
  <2>2. todo # <<>> => /\ Head(todo) \subseteq All(todo) /\ All(Tail(todo)) \subseteq All(todo)
                       /\ Head(todo) \cap All(Tail(todo)) = {}
    BY <1>1, <2>1, TailRange, OnceTail
  <2>3. \/ todo # <<>> /\ host' = host \cup Head(todo) /\ met' = met \cup (Head(todo) \cap host)
           /\ todo' = Tail(todo)
        \/ todo # <<>> /\ host' = host /\ met' = met \cup (Head(todo) \cap host) /\ pc' # "nat"
        \/ host' = host /\ met' = met /\ pc' # "nat"
    BY <1>5 DEF CreateNatRules, Make, Meet, Keep, cleanup
  <2>4. force => All(todo) \cap host = {} /\ met = {}
    BY <2>1 DEF ForceInv, ForceMeetsNoGarbage
  <2>5. ForceMeetsNoGarbage'
    BY <2>1, <2>2, <2>3, <2>4 DEF ForceMeetsNoGarbage
  <2>6. pc' = "nat" /\ force' => All(todo') \cap host' = {}
    BY <2>1, <2>2, <2>3, <2>4, Zenon
  <2>7. TapsInv'
    <3>1. \A x \in Links : x \in host' => x \in host
      BY <2>1, <2>2, <2>3, SetsApart
    <3> QED  BY <2>1, <3>1, TapsStay DEF ForceInv
  <2> QED  BY <2>1, <2>5, <2>6, <2>7 DEF ForceInv
<1>6. CASE Other
  <2>1. /\ KeepsIn(Rules) /\ UNCHANGED force
        /\ UNCHANGED <<pc, todo>> \/ pc' \notin {"force", "nat"}
    BY <1>6, OtherSteps DEF Passes, cleanup
  <2>2. TapsInv' /\ (force => met' = met)
    BY <1>6, TapsOther, OtherMeets DEF ForceInv
  <2>3. ForceMeetsNoGarbage'
    BY <2>1, <2>2 DEF ForceInv, ForceMeetsNoGarbage
  <2>4. CASE UNCHANGED <<pc, todo>>
    <3>1. pc' = "force" => host' \cap Rules \subseteq All(todo)
      BY <2>1, <2>4 DEF ForceInv, KeepsIn
    <3>2. pc' = "nat" /\ force' => All(todo) \cap host' = {}
      BY <2>1, <2>4 DEF ForceInv, NatInv, KeepsIn
    <3> QED  BY <2>2, <2>3, <2>4, <3>1, <3>2 DEF ForceInv, All, Rules, Chains, Jumps
  <2>5. CASE pc' \notin {"force", "nat"}
    BY <2>2, <2>3, <2>5 DEF ForceInv
  <2> QED  BY <2>1, <2>4, <2>5
<1> QED  BY StepCases, <1>2, <1>3, <1>4, <1>5, <1>6 DEF Other

\* A process started with --force finds nothing in its way, whatever the
\* processes before it left: the removals at the head of Setup and in the
\* Setup methods cover all that a process makes under a fixed name, and a tap
\* gets a name that is new.
THEOREM ForceFindsNothing == Spec => []ForceMeetsNoGarbage
<1>1. TypeInv /\ NatInv /\ ForceInv /\ [Next]_vars => ForceInv' /\ NatInv'
  BY NatStep, ForceStep
<1>2. ForceInv => ForceMeetsNoGarbage
  BY DEF ForceInv
<1> QED  BY TypesHold, NatInit, ForceInit, <1>1, <1>2, PTL DEF Spec


-----------------------------------------------------------------------------
(* CleanupRemovesNetworks: a bridge is made only after its network is in     *)
(* c.networks, and from the moment cleanup begins nothing it has to remove   *)
(* and did not is out of its list.                                           *)

Net == Rules \cup Bridges

CleanInv ==
  /\ pc \in {"force", "nat"} => networks = {}
  /\ \A n \in Networks : Bridge(n) \in made => n \in networks
  /\ pc = "cleanup" => made \cap host \cap Net \subseteq All(todo)
  /\ CleanupRemovesNetworks

LEMMA CleanInit == Init => CleanInv
BY DEF Init, CleanInv, CleanupRemovesNetworks

\* A step of the goroutines.
LEMMA CleanStays ==
  ASSUME CleanInv, KeepsIn(Net), UNCHANGED <<networks, ended>>,
         UNCHANGED <<pc, todo>> \/ pc' = "vms"
  PROVE  CleanInv'
<1>1. \A n \in Networks : Bridge(n) \in made' => n \in networks'
  BY DEF CleanInv, KeepsIn, Net, Bridges
<1>2. \A x \in Net : x \in made' \cap host' => x \in made \cap host
  BY DEF KeepsIn
<1>3. CASE UNCHANGED <<pc, todo>>
  <2>1. pc' = "cleanup" => made' \cap host' \cap Net \subseteq All(todo)
    BY <1>2, <1>3 DEF CleanInv
  <2>2. (pc = "cleanup" => made \cap host \cap Net \subseteq All(todo))'
    BY <1>3, <2>1 DEF All, Net, Rules, Chains, Jumps, Bridges
  <2>3. CleanupRemovesNetworks'
    BY <1>2, <1>3 DEF CleanInv, CleanupRemovesNetworks, Net, Rules
  <2> QED  BY <1>1, <1>3, <2>2, <2>3 DEF CleanInv
<1>4. CASE pc' = "vms"
  BY <1>1, <1>4 DEF CleanInv, CleanupRemovesNetworks
<1> QED  BY <1>3, <1>4

\* A step that ends with the deferred c.cleanup.
LEMMA CleanBegins ==
  ASSUME TypeOK, runs # 0, NEW nets \in SUBSET Networks, NEW vs \in SUBSET Nodes, cleanup(nets, vs),
         nets \subseteq networks', \A n \in Networks : Bridge(n) \in made' => n \in nets
  PROVE  CleanInv'
<1>1. pc' = "cleanup" /\ Rules \subseteq All(todo') /\ {Bridge(n) : n \in nets} \subseteq All(todo')
  BY CleanupBegins, Zenon
<1>2. made' \cap Bridges \subseteq All(todo')
  BY <1>1 DEF Bridges
<1>3. made' \cap host' \cap Net \subseteq All(todo')
  BY <1>1, <1>2 DEF Net
<1>4. Net' = Net
  BY DEF Net, Rules, Chains, Jumps, Bridges
<1> QED  BY <1>1, <1>3, <1>4 DEF CleanInv, CleanupRemovesNetworks

LEMMA CleanHead ==
  ASSUME TypeInv, NatInv, CleanInv,
         (\E f \in BOOLEAN : NewCluster(f)) \/ Removal \/ Forced \/ CreateNatRules
  PROVE  CleanInv'
<1>1. TypeOK /\ todo \in Seq(SUBSET Resource) /\ (pc # "off" => runs # 0)
  BY DEF TypeInv, TypeOK
<1>2. ASSUME NEW f \in BOOLEAN, NewCluster(f) PROVE CleanInv'
  BY <1>2, Zenon DEF NewCluster, CleanInv, CleanupRemovesNetworks
<1>3. CASE Removal
  <2>1. /\ pc' = pc /\ pc \in {"force", "cleanup"} /\ todo # <<>> /\ todo' = Tail(todo)
        /\ host' = host \ Head(todo) /\ UNCHANGED <<made, networks, ended>>
    BY <1>3 DEF Removal, Drop
  <2>2. All(todo) = Head(todo) \cup All(Tail(todo))
    BY <1>1, <2>1, TailRange
  <2>3. pc' = "cleanup" => made' \cap host' \cap Net \subseteq All(Tail(todo))
    BY <2>1, <2>2 DEF CleanInv
  <2>4. (pc = "cleanup" => made \cap host \cap Net \subseteq All(todo))'
    BY <2>1, <2>3 DEF All, Net, Rules, Chains, Jumps, Bridges
  <2> QED  BY <2>1, <2>4 DEF CleanInv, CleanupRemovesNetworks
<1>4. CASE Forced
  BY <1>4 DEF Forced, Keep, CleanInv, CleanupRemovesNetworks
<1>5. CASE CreateNatRules
  <2>1. /\ pc = "nat" /\ UNCHANGED <<networks, ended>> /\ networks = {} /\ All(todo) \subseteq Rules
        /\ \A n \in Networks : Bridge(n) \notin made
    BY <1>5 DEF CreateNatRules, CleanInv, NatInv
  <2>2. CASE todo # <<>> /\ Make({}, Head(todo)) /\ UNCHANGED pc
    <3>1. Head(todo) \subseteq Rules
      BY <1>1, <2>1, <2>2, TailRange
    <3>2. \A n \in Networks : Bridge(n) \notin made'
      BY <2>1, <2>2, <3>1, KindsApart DEF Make
    <3> QED  BY <2>1, <2>2, <3>2 DEF CleanInv, CleanupRemovesNetworks
  <2>3. CASE UNCHANGED made /\ cleanup({}, {})
    <3>1. {} \in SUBSET Networks /\ {} \in SUBSET Nodes /\ runs # 0
      BY <1>1, <2>1
    <3> QED  BY <1>1, <2>1, <2>3, <3>1, CleanBegins
  <2>4. CASE pc' = "networks" /\ Keep
    BY <2>1, <2>4 DEF CleanInv, CleanupRemovesNetworks, Keep
  <2> QED  BY <1>5, <2>2, <2>3, <2>4, Zenon DEF CreateNatRules, Meet, Keep
<1> QED  BY <1>2, <1>3, <1>4, <1>5

LEMMA CleanNetworks ==
  ASSUME TypeInv, CleanInv, NEW n \in Networks, SetupNetwork(n)
  PROVE  CleanInv'
<1>1. TypeOK /\ runs # 0 /\ pc = "networks" /\ UNCHANGED ended /\ networks' = networks \cup {n}
  BY DEF TypeInv, SetupNetwork
<1>2. networks \in SUBSET Networks /\ networks' \in SUBSET Networks /\ {} \in SUBSET Nodes
  BY <1>1 DEF TypeOK
<1>3. made' = made \/ made' = made \cup {Bridge(n)}
  BY Zenon DEF SetupNetwork, Make, Meet, Drop, Keep
<1>4. \A m \in Networks : Bridge(m) \in made' => m \in networks'
  BY <1>1, <1>3, Named DEF CleanInv
<1>5. CASE UNCHANGED <<pc, todo>>
  BY <1>1, <1>4, <1>5 DEF CleanInv, CleanupRemovesNetworks
<1>6. CASE cleanup(networks', {})
  <2>1. PICK nets \in SUBSET Networks : nets = networks'
    BY <1>2
  <2> QED  BY <1>1, <1>2, <1>4, <1>6, <2>1, CleanBegins
<1>7. CASE Keep /\ cleanup(networks, {})
  BY <1>1, <1>2, <1>7, CleanBegins DEF Keep, CleanInv
<1> QED  BY <1>5, <1>6, <1>7 DEF SetupNetwork

LEMMA CleanEnd ==
  ASSUME TypeInv, CleanInv, EndStep
  PROVE  CleanInv'
<1>1. UNCHANGED <<host, made, networks>> /\ pc' = "off"
  BY DEF EndStep, NilVMPanics, Return, Kill, Keep
<1>2. CASE NilVMPanics \/ Kill
  BY <1>1, <1>2 DEF NilVMPanics, Kill, CleanInv, CleanupRemovesNetworks
<1>3. CASE Return
  <2>1. pc = "cleanup" /\ todo = <<>>
    BY <1>3 DEF Return
  <2>2. All(<<>>) = {}
    BY DEF All, Range
  <2>3. made \cap host \cap Net = {}
    BY <2>1, <2>2 DEF CleanInv
  <2> QED  BY <1>1, <2>3 DEF CleanInv, CleanupRemovesNetworks, Net, Rules
<1> QED  BY <1>2, <1>3 DEF EndStep

LEMMA CleanOther == ASSUME TypeInv, CleanInv, Other PROVE CleanInv'
<1>1. TypeOK /\ (pc # "off" => runs # 0) /\ networks \in SUBSET Networks
  BY DEF TypeInv, TypeOK
<1>2. CASE PrepareNodes
  <2>1. pc = "networks" /\ UNCHANGED <<host, made, networks, ended>> /\ {} \in SUBSET Nodes
    BY <1>2, QuietSteps DEF PrepareNodes
  <2>2. CASE pc' = "nodes"
    BY <2>1, <2>2 DEF CleanInv, CleanupRemovesNetworks
  <2>3. CASE cleanup(networks, {})
    BY <1>1, <2>1, <2>3, CleanBegins DEF CleanInv
  <2> QED  BY <1>2, <2>2, <2>3 DEF PrepareNodes
<1>3. ASSUME NEW n \in Nodes, NodeStep(n) PROVE CleanInv'
  <2>1. UNCHANGED setupVars
    BY <1>3, Zenon DEF NodeStep, startSWTPM, createTaps, startQEMU, pollSockets, QEMUListens, QEMUExits
  <2>2. KeepsIn(Net) /\ UNCHANGED <<networks, ended, pc, todo>>
    BY <1>3, <2>1, NodeKeeps DEF KeepsIn, Net, setupVars
  <2> QED  BY <2>2, CleanStays
<1>4. CASE ServeStep
  <2>1. KeepsIn(Net)
    BY <1>4, ServeKeeps DEF KeepsIn, Net
  <2>2. UNCHANGED <<networks, ended>> /\ (UNCHANGED <<pc, todo>> \/ pc' = "vms")
    BY <1>4, Zenon DEF ServeStep, VMEnds, NewNetNS, SetupNetNS, NetNSEnds, mainVars
  <2> QED  BY <2>1, <2>2, CleanStays
<1>5. CASE MainStep
  <2>1. UNCHANGED <<host, made, networks>>
    BY <1>5, QuietSteps, Zenon DEF MainStep, waitNodes, waitVMs, startAPIServer, waitServers, Signal
  <2>2. CASE Signal
    <3>1. KeepsIn(Net) /\ UNCHANGED <<networks, ended, pc, todo>>
      BY <1>5, <2>2, QuietSteps DEF Signal, KeepsIn
    <3> QED  BY <3>1, CleanStays
  <2>3. CASE ~Signal
    <3>1. pc' \in {"vms", "netns", "listen", "serve"}
      BY <1>5, <2>3, Zenon DEF MainStep, waitNodes, waitVMs, startAPIServer, waitServers
    <3> QED  BY <2>1, <3>1 DEF CleanInv, CleanupRemovesNetworks
  <2> QED  BY <2>2, <2>3
<1>6. CASE cleanupVMs
  <2>1. PICK second \in Visited : cleanup(networks, second)
    BY <1>6 DEF cleanupVMs
  <2>2. UNCHANGED <<made, networks>> /\ second \in SUBSET Nodes /\ runs # 0
    BY <1>1, <1>6, VMTypes DEF cleanupVMs, Drop
  <2> QED  BY <1>1, <2>1, <2>2, CleanBegins DEF CleanInv
<1>7. CASE UNCHANGED vars
  <2>1. KeepsIn(Net) /\ UNCHANGED <<networks, ended, pc, todo>>
    BY <1>7 DEF vars, KeepsIn
  <2> QED  BY <2>1, CleanStays
<1> QED  BY <1>2, <1>3, <1>4, <1>5, <1>6, <1>7, CleanNetworks, CleanEnd DEF Other

LEMMA CleanStep == ASSUME TypeInv, NatInv, CleanInv, [Next]_vars PROVE CleanInv'
BY StepCases, CleanHead, CleanOther DEF Other

\* When the deferred functions of Setup have run, no chain, jump or bridge this
\* process made is on the host, whatever the networks of the cluster and at
\* whichever call Setup failed, and though goroutines and QEMUs may be running.
THEOREM NetworksCleanedUp == Spec => []CleanupRemovesNetworks
<1>1. TypeInv /\ NatInv /\ CleanInv /\ [Next]_vars => CleanInv' /\ NatInv'
  BY NatStep, CleanStep
<1>2. CleanInv => CleanupRemovesNetworks
  BY DEF CleanInv
<1> QED  BY TypesHold, NatInit, CleanInit, <1>1, <1>2, PTL DEF Spec
-----------------------------------------------------------------------------
(* A process that served.  The serials of the nodes have to be set and       *)
(* different: a VM takes the place of another with its serial in c.vms.      *)

OwnSerials ==
  /\ \A m, n \in Nodes : Serial[m] = Serial[n] => m = n
  /\ \A n \in Nodes : Serial[n] # NoSerial

\* What c.vms holds.
VMInv ==
  \A n \in Nodes :
    /\ node[n] = "ok" => vms[Serial[n]] = n /\ qemu[n] \in {"listening", "exited"}
    /\ node[n] = "nil" => vms[NoSerial] = "nil"

LEMMA VMInit == Init => VMInv
BY DEF Init, VMInv

LEMMA KeepsNodes ==
  ASSUME [Next]_vars
  PROVE  \/ \E f \in BOOLEAN : NewCluster(f)
         \/ \E n \in Nodes : NodeStep(n)
         \/ UNCHANGED <<node, named, vms, qemu>>
<1>1. CASE Removal \/ Forced \/ CreateNatRules \/ PrepareNodes \/ \E n \in Networks : SetupNetwork(n)
  BY <1>1, Zenon DEF Removal, Forced, CreateNatRules, PrepareNodes, SetupNetwork, nodeVars
<1>2. CASE ServeStep
  BY <1>2, Zenon DEF ServeStep, VMEnds, NewNetNS, SetupNetNS, NetNSEnds, mainVars, nodeVars
<1>3. CASE MainStep
  BY <1>3 DEF MainStep, waitNodes, waitVMs, startAPIServer, waitServers, Signal, nodeVars
<1>4. CASE EndStep \/ cleanupVMs \/ UNCHANGED vars
  BY <1>4 DEF EndStep, NilVMPanics, Return, Kill, cleanupVMs, nodeVars, vars
<1> QED  BY StepCases, <1>1, <1>2, <1>3, <1>4

LEMMA VMStep == ASSUME OwnSerials, TypeInv, VMInv, [Next]_vars PROVE VMInv'
<1>1. NodesOK
  BY TypeParts
<1>2. ASSUME NEW f \in BOOLEAN, NewCluster(f) PROVE VMInv'
  BY <1>2 DEF NewCluster, VMInv
<1>3. ASSUME NEW n \in Nodes, NodeStep(n) PROVE VMInv'
  <2>1. CASE startSWTPM(n) \/ createTaps(n)
    <3>1. UNCHANGED <<vms, qemu>> /\ \E to \in {"taps", "qemu", "failed"} : Goto(n, to)
      BY <2>1 DEF startSWTPM, createTaps
    <3> QED  BY <1>1, <3>1 DEF VMInv, Goto, NodesOK
  <2>2. CASE startQEMU(n)
    <3>1. /\ UNCHANGED vms /\ node[n] = "qemu" /\ \E to \in {"poll", "failed"} : Goto(n, to)
          /\ \A m \in Nodes \ {n} : qemu'[m] = qemu[m]
      BY <1>1, <2>2 DEF startQEMU, NodesOK
    <3> QED  BY <1>1, <3>1 DEF VMInv, Goto, NodesOK
  <2>3. CASE pollSockets(n)
    <3>1. UNCHANGED qemu
      BY <2>3 DEF pollSockets
    <3>2. CASE qemu[n] = "listening" /\ Goto(n, "ok") /\ Register(Serial[n], n)
      <4>1. vms'[Serial[n]] = n /\ \A k \in Serials : k # Serial[n] => vms'[k] = vms[k]
        BY <1>1, <3>2, SerialTypes DEF Register, NodesOK
      <4>2. node'[n] = "ok" /\ \A m \in Nodes \ {n} : node'[m] = node[m]
        BY <1>1, <3>2 DEF Goto, NodesOK
      <4> QED  BY <3>1, <3>2, <4>1, <4>2, SerialTypes DEF VMInv, OwnSerials
    <3>3. CASE Goto(n, "nil") /\ Register(NoSerial, "nil")
      <4>1. vms'[NoSerial] = "nil" /\ \A k \in Serials : k # NoSerial => vms'[k] = vms[k]
        BY <1>1, <3>3, SerialTypes DEF Register, NodesOK
      <4>2. node'[n] = "nil" /\ \A m \in Nodes \ {n} : node'[m] = node[m]
        BY <1>1, <3>3 DEF Goto, NodesOK
      <4> QED  BY <3>1, <4>1, <4>2, SerialTypes DEF VMInv, OwnSerials
    <3>4. CASE Goto(n, "failed") /\ UNCHANGED vms
      BY <1>1, <3>1, <3>4 DEF VMInv, Goto, NodesOK
    <3> QED  BY <2>3, <3>2, <3>3, <3>4 DEF pollSockets
  <2>4. CASE QEMUListens(n) \/ QEMUExits(n)
    <3>1. /\ UNCHANGED <<node, vms>> /\ qemu'[n] \in {"listening", "exited"}
          /\ \A m \in Nodes \ {n} : qemu'[m] = qemu[m]
      BY <1>1, <2>4 DEF QEMUListens, QEMUExits, nodeVars, NodesOK
    <3> QED  BY <3>1 DEF VMInv
  <2> QED  BY <1>3, <2>1, <2>2, <2>3, <2>4 DEF NodeStep
<1>4. CASE UNCHANGED <<node, named, vms, qemu>>
  BY <1>4 DEF VMInv
<1> QED  BY KeepsNodes, <1>2, <1>3, <1>4

\* Where a process that served can be, and what has ended by then.
Settled == \A n \in Nodes : node[n] \in {"ok", "nil"}

PhaseInv ==
  /\ served => pc \in {"serve", "vms", "cleanup", "off"}
  /\ pc \in {"netns", "listen", "serve"} \/ served => Settled
  /\ served /\ pc \in {"vms", "cleanup"} => waits = {} /\ \A s \in NetNSs : netns[s] = "ended"
  /\ pc # "off" => ended # "returned"
  /\ ended = "returned" /\ served => waits = {}

LEMMA PhaseInit == Init => PhaseInv
BY DEF Init, PhaseInv

\* A step that leaves the phase, and what it is about, alone.
LEMMA PhaseStays ==
  ASSUME PhaseInv, UNCHANGED <<pc, served, ended, node>>, waits' \subseteq waits,
         \A s \in NetNSs : netns[s] = "ended" => netns'[s] = "ended"
  PROVE  PhaseInv'
<1>1. waits = {} => waits' = {}
  OBVIOUS
<1> QED  BY <1>1 DEF PhaseInv, Settled

LEMMA PhaseHead ==
  ASSUME PhaseInv,
         \/ (\E f \in BOOLEAN : NewCluster(f)) \/ Removal \/ Forced \/ CreateNatRules
         \/ (\E n \in Networks : SetupNetwork(n)) \/ PrepareNodes
  PROVE  PhaseInv'
<1>1. ASSUME NEW f \in BOOLEAN, NewCluster(f) PROVE PhaseInv'
  BY <1>1 DEF NewCluster, PhaseInv
<1>2. CASE Removal
  BY <1>2, PhaseStays DEF Removal, nodeVars, serveVars
<1>3. CASE Forced \/ CreateNatRules \/ (\E n \in Networks : SetupNetwork(n)) \/ PrepareNodes
  <2>1. /\ pc \in {"force", "nat", "networks"} /\ UNCHANGED <<served, ended>>
        /\ pc' \in {"nat", "networks", "nodes", "cleanup"}
    BY <1>3, Zenon DEF Forced, CreateNatRules, SetupNetwork, PrepareNodes, cleanup
  <2> QED  BY <2>1 DEF PhaseInv
<1> QED  BY <1>1, <1>2, <1>3

LEMMA PhaseNode == ASSUME PhaseInv, NEW n \in Nodes, NodeStep(n) PROVE PhaseInv'
<1>1. UNCHANGED <<pc, served, ended, waits, netns>>
  BY DEF NodeStep, startSWTPM, createTaps, startQEMU, pollSockets, QEMUListens, QEMUExits, setupVars,
         serveVars
<1>2. CASE UNCHANGED node
  BY <1>1, <1>2, PhaseStays
<1>3. CASE pc = "nodes"
  BY <1>1, <1>3 DEF PhaseInv
<1> QED  BY <1>2, <1>3 DEF NodeStep, startSWTPM, createTaps, startQEMU, pollSockets, QEMUListens,
                           QEMUExits, nodeVars

LEMMA PhaseServe == ASSUME TypeInv, PhaseInv, ServeStep PROVE PhaseInv'
<1>1. ServeOK
  BY TypeParts
<1>2. ASSUME NEW n \in Nodes, VMEnds(n) PROVE PhaseInv'
  BY <1>2, PhaseStays DEF VMEnds, mainVars, nodeVars
<1>3. ASSUME NEW s \in NetNSs, NewNetNS(s) PROVE PhaseInv'
  <2>1. pc = "netns" /\ pc' \in {"netns", "vms"} /\ UNCHANGED <<served, ended, node>>
    BY <1>3 DEF NewNetNS, nodeVars
  <2> QED  BY <2>1 DEF PhaseInv, Settled
<1>4. ASSUME NEW s \in NetNSs, SetupNetNS(s) \/ NetNSEnds(s) PROVE PhaseInv'
  <2>1. UNCHANGED <<pc, served, ended, node, waits>> /\ netns[s] # "ended"
    BY <1>4 DEF SetupNetNS, NetNSEnds, mainVars, nodeVars
  <2>2. \A t \in NetNSs \ {s} : netns'[t] = netns[t]
    BY <1>1, <1>4 DEF SetupNetNS, NetNSEnds, ServeOK
  <2> QED  BY <2>1, <2>2, PhaseStays
<1> QED  BY <1>2, <1>3, <1>4 DEF ServeStep

LEMMA PhaseMain ==
  ASSUME TypeInv, PhaseInv, MainStep \/ EndStep \/ cleanupVMs \/ UNCHANGED vars
  PROVE  PhaseInv'
<1>1. CASE waitNodes
  <2>1. /\ pc = "nodes" /\ UNCHANGED <<served, ended, node>>
        /\ pc' = "vms" \/ (pc' = "netns" /\ ~SomeFailed)
    BY <1>1 DEF waitNodes, nodeVars
  <2>2. ~SomeFailed => Settled
    BY <1>1 DEF waitNodes, SomeFailed, Settled
  <2> QED  BY <2>1, <2>2 DEF PhaseInv, Settled
<1>2. CASE waitVMs
  <2>1. pc = "netns" /\ pc' = "listen" /\ UNCHANGED <<served, ended, node>>
    BY <1>2 DEF waitVMs, nodeVars
  <2> QED  BY <2>1 DEF PhaseInv, Settled
<1>3. CASE startAPIServer
  <2>1. /\ pc = "listen" /\ UNCHANGED node /\ ended' \in {ended, "panicked"}
        /\ (pc' = "serve" /\ served') \/ (pc' = "vms" /\ UNCHANGED served)
    BY <1>3 DEF startAPIServer, nodeVars
  <2> QED  BY <2>1 DEF PhaseInv, Settled
<1>4. CASE waitServers
  <2>1. /\ pc = "serve" /\ pc' = "vms" /\ UNCHANGED <<served, ended, node, waits, netns>>
        /\ waits = {} /\ \A s \in NetNSs : netns[s] = "ended"
    BY <1>4 DEF waitServers, nodeVars, serveVars
  <2> QED  BY <2>1 DEF PhaseInv, Settled
<1>5. CASE Signal \/ UNCHANGED vars
  BY <1>5, PhaseStays DEF Signal, vars, nodeVars, serveVars
<1>6. CASE NilVMPanics \/ Kill
  <2>1. pc' = "off" /\ ended' \in {"crashed", "killed"} /\ UNCHANGED <<served, node>> /\ pc # "off"
    BY <1>6 DEF NilVMPanics, Kill, nodeVars
  <2> QED  BY <2>1 DEF PhaseInv, Settled
<1>7. CASE Return
  <2>1. pc = "cleanup" /\ pc' = "off" /\ UNCHANGED <<served, node, waits>>
    BY <1>7 DEF Return, nodeVars, serveVars
  <2> QED  BY <2>1 DEF PhaseInv, Settled
<1>8. CASE cleanupVMs
  <2>1. /\ pc = "vms" /\ pc' = "cleanup" /\ UNCHANGED <<served, node, waits, netns>>
        /\ ended' \in {ended, "panicked"}
    BY <1>8 DEF cleanupVMs, cleanup, nodeVars, serveVars
  <2> QED  BY <2>1 DEF PhaseInv, Settled
<1> QED  BY <1>1, <1>2, <1>3, <1>4, <1>5, <1>6, <1>7, <1>8 DEF MainStep, EndStep

LEMMA PhaseStep == ASSUME TypeInv, PhaseInv, [Next]_vars PROVE PhaseInv'
BY StepCases, PhaseHead, PhaseNode, PhaseServe, PhaseMain


\* A tap that was made has its name in the list cleanup goes by, unless the
\* Setup of its node failed; a namespace is in c.netNss.
MadeInv ==
  /\ \A s \in NetNSs : netns[s] # "idle" \/ NS(s) \in made => s \in netNss
  /\ \A n \in Nodes, r \in 1..MaxRuns :
       Tap(n, r) \in made => r = runs /\ (n \in named \/ node[n] = "failed")

LEMMA MadeInit == Init => MadeInv
BY DEF Init, MadeInv

LEMMA MadeStays ==
  ASSUME MadeInv, UNCHANGED <<runs, named, node, netns, netNss>>,
         \A x \in Links \cup NSs : x \in made' => x \in made
  PROVE  MadeInv'
<1>1. \A s \in NetNSs : NS(s) \in NSs
  BY DEF NSs
<1> QED  BY <1>1, TapLinks DEF MadeInv

LEMMA MadeNode ==
  ASSUME TypeInv, MadeInv, NEW n \in Nodes, NodeStep(n)
  PROVE  MadeInv'
<1>1. UNCHANGED <<runs, netns, netNss>> /\ NodesOK
  BY TypeParts, Zenon DEF NodeStep, startSWTPM, createTaps, startQEMU, pollSockets, QEMUListens, QEMUExits,
                   setupVars, runVars, serveVars
<1>2. /\ \A m \in Nodes, r \in 1..MaxRuns :
            Tap(m, r) # SWTPMDir(n) /\ Tap(m, r) # Socks(n) /\ (Tap(m, r) = Tap(n, runs) => m = n /\ r = runs)
      /\ \A s \in NetNSs : NS(s) \in made' <=> NS(s) \in made
  BY Apart, Named, NodeKeeps DEF KeepsIn, NSs
<1>3. /\ node[n] # "failed" \/ UNCHANGED node
      /\ \A m \in Nodes \ {n} : node'[m] = node[m]
      /\ named \subseteq named'
  BY <1>1 DEF NodeStep, startSWTPM, createTaps, startQEMU, pollSockets, QEMUListens, QEMUExits, nodeVars,
              Goto, NodesOK
<1>4. \A m \in Nodes, r \in 1..MaxRuns :
        Tap(m, r) \in made' => Tap(m, r) \in made \/ (m = n /\ r = runs /\ (n \in named' \/ node'[n] = "failed"))
  <2>1. CASE createTaps(n)
    <3>1. \/ made' = made \cup {Tap(n, runs)} /\ (n \in named' \/ Goto(n, "failed"))
          \/ made' = made
      BY <2>1 DEF createTaps, Make, Keep
    <3> QED  BY <1>1, <1>2, <3>1 DEF Goto, NodesOK
  <2>2. CASE ~createTaps(n)
    <3>1. \/ made' = made \/ made' = made \cup {SWTPMDir(n)} \/ made' = made \cup {Socks(n)}
      BY <2>2 DEF NodeStep, startSWTPM, startQEMU, pollSockets, QEMUListens, QEMUExits, Make, Meet, Drop, Keep
    <3> QED  BY <1>2, <3>1
  <2> QED  BY <2>1, <2>2
<1> QED  BY <1>1, <1>2, <1>3, <1>4 DEF MadeInv

LEMMA MadeServe == ASSUME TypeInv, MadeInv, ServeStep PROVE MadeInv'
<1>1. ServeOK
  BY TypeParts
<1>2. /\ UNCHANGED <<runs, named, node>>
      /\ \A n \in Nodes, r \in 1..MaxRuns : Tap(n, r) \in made' => Tap(n, r) \in made
  BY TapLinks, ServeKeeps, Zenon DEF ServeStep, VMEnds, NewNetNS, SetupNetNS, NetNSEnds, mainVars, nodeVars, runVars,
                              KeepsIn
<1>3. CASE UNCHANGED <<made, netns, netNss>>
  BY <1>2, <1>3 DEF MadeInv
<1>4. ASSUME NEW s \in NetNSs, NewNetNS(s) PROVE MadeInv'
  <2>1. made' = made /\ netNss \subseteq netNss'
    BY <1>4 DEF NewNetNS, Keep
  <2>2. UNCHANGED netns \/ (s \in netNss' /\ \A t \in NetNSs \ {s} : netns'[t] = netns[t])
    BY <1>1, <1>4 DEF NewNetNS, ServeOK
  <2> QED  BY <1>2, <2>1, <2>2 DEF MadeInv
<1>5. ASSUME NEW s \in NetNSs, SetupNetNS(s) \/ NetNSEnds(s) PROVE MadeInv'
  <2>1. netNss' = netNss /\ s \in netNss
    BY <1>5 DEF SetupNetNS, NetNSEnds, MadeInv
  <2>2. \A t \in NetNSs \ {s} : netns'[t] = netns[t]
    BY <1>1, <1>5 DEF SetupNetNS, NetNSEnds, ServeOK
  <2>3. made' = made \/ made' = made \cup {NS(s)}
    BY <1>5 DEF SetupNetNS, NetNSEnds, Make, Meet, Drop, Keep
  <2>4. \A t \in NetNSs \ {s} : NS(t) \in made' => NS(t) \in made
    BY <2>3, Named
  <2> QED  BY <1>2, <2>1, <2>2, <2>4 DEF MadeInv
<1>6. ASSUME NEW n \in Nodes, VMEnds(n) PROVE UNCHANGED <<made, netns, netNss>>
  BY <1>6 DEF VMEnds, Keep
<1> QED  BY <1>3, <1>4, <1>5, <1>6 DEF ServeStep

LEMMA MadeStep == ASSUME TypeInv, NatInv, MadeInv, [Next]_vars PROVE MadeInv'
<1>1. ASSUME NEW f \in BOOLEAN, NewCluster(f) PROVE MadeInv'
  BY <1>1 DEF NewCluster, MadeInv
<1>2. CASE Removal \/ Forced \/ PrepareNodes \/ EndStep \/ cleanupVMs \/ UNCHANGED vars
  <2>1. UNCHANGED <<runs, named, node, netns, netNss, made>>
    BY <1>2, QuietSteps, Zenon DEF Removal, Forced, PrepareNodes, EndStep, NilVMPanics, Return, Kill, cleanupVMs,
                            Drop, Keep, runVars, nodeVars, serveVars, vars
  <2> QED  BY <2>1, MadeStays
<1>3. CASE MainStep
  <2>1. UNCHANGED <<runs, named, node, netns, netNss, made>>
    BY <1>3, QuietSteps, Zenon DEF MainStep, waitNodes, waitVMs, startAPIServer, waitServers, Signal,
                            runVars, nodeVars, serveVars
  <2> QED  BY <2>1, MadeStays
<1>4. CASE CreateNatRules
  <2>1. UNCHANGED <<runs, named, node, netns, netNss>> /\ pc = "nat"
    BY <1>4 DEF CreateNatRules, runVars, nodeVars, serveVars
  <2>2. made' = made \/ (todo # <<>> /\ made' = made \cup Head(todo))
    BY <1>4 DEF CreateNatRules, Make, Meet, Keep
  <2>3. todo # <<>> => Head(todo) \subseteq Rules
    BY <2>1, TailRange DEF NatInv, TypeInv, TypeOK
  <2>4. \A x \in Links \cup NSs : x \in made' => x \in made
    BY <2>2, <2>3, SetsApart
  <2> QED  BY <2>1, <2>4, MadeStays
<1>5. ASSUME NEW n \in Networks, SetupNetwork(n) PROVE MadeInv'
  <2>1. UNCHANGED <<runs, named, node, netns, netNss>>
    BY <1>5 DEF SetupNetwork, runVars, nodeVars, serveVars
  <2>2. \A x \in Links \cup NSs : x \in made' => x \in made
    BY <1>5, NetworkKeeps DEF KeepsIn
  <2> QED  BY <2>1, <2>2, MadeStays
<1> QED  BY StepCases, <1>1, <1>2, <1>3, <1>4, <1>5, MadeNode, MadeServe

\* As long as no goroutine failed, every VM that was set up is waited for, or
\* its QEMU has been seen to exit.
WaitInv ==
  ~envCancelled /\ (pc \in {"listen", "serve"} \/ served) =>
      \A n \in Nodes : node[n] = "ok" => n \in waits \/ qemu[n] = "exited"

LEMMA WaitInit == Init => WaitInv
BY DEF Init, WaitInv

LEMMA WaitStep ==
  ASSUME TypeInv, VMInv, PhaseInv, WaitInv, [Next]_vars
  PROVE  WaitInv'
<1>1. NodesOK
  BY TypeParts
<1>2. ASSUME NEW f \in BOOLEAN, NewCluster(f) PROVE WaitInv'
  BY <1>2, Zenon DEF NewCluster, WaitInv
<1>3. CASE \/ Removal \/ Forced \/ CreateNatRules \/ (\E n \in Networks : SetupNetwork(n)) \/ PrepareNodes
           \/ EndStep \/ cleanupVMs \/ UNCHANGED vars
  <2>1. UNCHANGED <<served, node, qemu, waits, envCancelled>> /\ (pc' \in {"listen", "serve"} => pc' = pc)
    BY <1>3, Zenon DEF Removal, Forced, CreateNatRules, SetupNetwork, PrepareNodes, EndStep, NilVMPanics, Return,
                Kill, cleanupVMs, cleanup, nodeVars, serveVars, vars
  <2> QED  BY <2>1 DEF WaitInv
<1>4. ASSUME NEW n \in Nodes, NodeStep(n) PROVE WaitInv'
  <2>1. UNCHANGED <<pc, served, waits, envCancelled>>
    BY <1>4, Zenon DEF NodeStep, startSWTPM, createTaps, startQEMU, pollSockets, QEMUListens, QEMUExits, setupVars,
                serveVars
  <2>2. CASE pc = "nodes"
    BY <2>1, <2>2, Zenon DEF WaitInv, PhaseInv
  <2>3. CASE UNCHANGED node /\ \A m \in Nodes : qemu[m] = "exited" => qemu'[m] = "exited"
    BY <2>1, <2>3 DEF WaitInv
  <2>4. CASE QEMUListens(n) \/ QEMUExits(n)
    <3>1. UNCHANGED node /\ qemu[n] # "exited" /\ \A m \in Nodes \ {n} : qemu'[m] = qemu[m]
      BY <1>1, <2>4 DEF QEMUListens, QEMUExits, nodeVars, NodesOK
    <3> QED  BY <2>3, <3>1
  <2> QED  BY <1>4, <2>2, <2>4, Zenon DEF NodeStep, startSWTPM, createTaps, startQEMU, pollSockets
<1>5. CASE ServeStep
  <2>1. UNCHANGED <<served, node, qemu>> /\ (pc' \in {"listen", "serve"} => pc' = pc)
    BY <1>5, Zenon DEF ServeStep, VMEnds, NewNetNS, SetupNetNS, NetNSEnds, mainVars, nodeVars
  <2>2. ~envCancelled' => ~envCancelled
    BY <1>5, Zenon DEF ServeStep, VMEnds, NewNetNS, SetupNetNS, NetNSEnds
  <2>3. \A m \in Nodes : m \in waits => m \in waits' \/ qemu[m] = "exited"
    BY <1>5, Zenon DEF ServeStep, VMEnds, NewNetNS, SetupNetNS, NetNSEnds
  <2> QED  BY <2>1, <2>2, <2>3 DEF WaitInv
<1>6. CASE waitNodes \/ startAPIServer \/ waitServers \/ Signal
  <2>1. /\ UNCHANGED <<node, qemu, waits, envCancelled>>
        /\ pc' \in {"listen", "serve"} \/ served' => pc \in {"listen", "serve"} \/ served
    BY <1>6 DEF waitNodes, startAPIServer, waitServers, Signal, nodeVars, serveVars
  <2> QED  BY <2>1 DEF WaitInv
<1>7. CASE waitVMs
  <2>1. UNCHANGED <<node, qemu, envCancelled>> /\ (~envCancelled => waits' = VMs)
    BY <1>7 DEF waitVMs, nodeVars
  <2>2. ASSUME NEW n \in Nodes, node[n] = "ok" PROVE n \in VMs
    BY <2>2, SerialTypes, ClusterAssumption DEF VMInv, VMs
  <2> QED  BY <2>1, <2>2 DEF WaitInv
<1> QED  BY StepCases, <1>2, <1>3, <1>4, <1>5, <1>6, <1>7 DEF MainStep


AllSet == \A n \in Nodes : node[n] = "ok"

DoneInv ==
  /\ served /\ pc = "cleanup" /\ ended # "panicked" => AllSet /\ made \cap host \subseteq All(todo)
  /\ ended = "returned" /\ served => AllSet /\ made \cap host = {}

LEMMA DoneInit == Init => DoneInv
BY DEF Init, DoneInv

\* A step of a process that has not served, or is not at its cleanup.
LEMMA DoneBusy ==
  ASSUME PhaseInv, pc # "off", ended' \in {ended, "panicked", "crashed", "killed"},
         ~served' \/ pc' # "cleanup"
  PROVE  DoneInv'
BY DEF PhaseInv, DoneInv

LEMMA DoneStays ==
  ASSUME DoneInv, UNCHANGED <<pc, served, ended, node, todo, made>>, host' \subseteq host
  PROVE  DoneInv'
<1>1. /\ served' /\ pc' = "cleanup" /\ ended' # "panicked" => AllSet /\ made' \cap host' \subseteq All(todo)
      /\ ended' = "returned" /\ served' => AllSet /\ made' \cap host' = {}
  BY DEF DoneInv
<1> QED  BY <1>1 DEF DoneInv, AllSet, All

LEMMA DoneNode ==
  ASSUME PhaseInv, VMInv, DoneInv, NEW n \in Nodes, NodeStep(n)
  PROVE  DoneInv'
<1>1. UNCHANGED <<pc, todo, served, ended>>
  BY Zenon DEF NodeStep, startSWTPM, createTaps, startQEMU, pollSockets, QEMUListens, QEMUExits, setupVars
<1>2. CASE pc = "nodes"
  BY <1>1, <1>2, DoneBusy
<1>3. CASE QEMUListens(n)
  <2>1. qemu[n] = "booting" /\ UNCHANGED node
    BY <1>3 DEF QEMUListens, nodeVars
  <2>2. ~AllSet
    BY <2>1 DEF VMInv, AllSet
  <2> QED  BY <1>1, <2>2 DEF DoneInv
<1>4. CASE QEMUExits(n)
  BY <1>1, <1>4, DoneStays DEF QEMUExits, nodeVars, Keep, Drop
<1> QED  BY <1>2, <1>3, <1>4, Zenon DEF NodeStep, startSWTPM, createTaps, startQEMU, pollSockets

LEMMA DoneServe ==
  ASSUME PhaseInv, DoneInv, ServeStep
  PROVE  DoneInv'
<1>1. CASE \E n \in Nodes : VMEnds(n)
  BY <1>1, DoneStays DEF VMEnds, Keep, mainVars, nodeVars
<1>2. CASE \E s \in NetNSs : NetNSEnds(s)
  BY <1>2, DoneStays DEF NetNSEnds, Keep, mainVars, nodeVars
<1>3. ASSUME NEW s \in NetNSs, NewNetNS(s) PROVE DoneInv'
  <2>1. pc = "netns" /\ pc' # "cleanup" /\ ended' = ended
    BY <1>3 DEF NewNetNS
  <2> QED  BY <2>1, DoneBusy
<1>4. ASSUME NEW s \in NetNSs, SetupNetNS(s) PROVE DoneInv'
  <2>1. pc # "off" /\ netns[s] = "new" /\ UNCHANGED <<pc, served, ended>>
    BY <1>4 DEF SetupNetNS, mainVars
  <2>2. ~served \/ pc # "cleanup"
    BY <2>1 DEF PhaseInv
  <2> QED  BY <2>1, <2>2, DoneBusy
<1> QED  BY <1>1, <1>2, <1>3, <1>4 DEF ServeStep

\* The deferred cleanup of a process that served takes everything it made.
LEMMA DoneVMs ==
  ASSUME TypeInv, VMInv, PhaseInv, CleanInv, MadeInv, DoneInv, cleanupVMs
  PROVE  DoneInv'
<1>1. pc = "vms" /\ UNCHANGED <<served, node, made, named, runs, netNss, networks>> /\ runs # 0
  BY DEF cleanupVMs, nodeVars, serveVars, runVars, Drop, TypeInv
<1>2. ended' # "returned"
  BY <1>1 DEF PhaseInv, cleanupVMs
<1>3. ASSUME served', ended' # "panicked" PROVE AllSet' /\ made' \cap host' \subseteq All(todo')
  <2>1. "nil" \notin VMs
    BY <1>3 DEF cleanupVMs
  <2>2. ASSUME NEW n \in Nodes PROVE node[n] = "ok" /\ n \in VMs
    <3>1. node[n] \in {"ok", "nil"}
      BY <1>1, <1>3 DEF PhaseInv, Settled
    <3>2. node[n] # "nil"
      BY <2>1, SerialTypes DEF VMInv, VMs
    <3>3. vms[Serial[n]] = n /\ n # "none"
      BY <3>1, <3>2, ClusterAssumption DEF VMInv
    <3> QED  BY <3>1, <3>2, <3>3, SerialTypes DEF VMs
  <2>3. PICK second \in Visited : cleanup(networks, second)
    BY DEF cleanupVMs
  <2>4. second = VMs /\ second \in SUBSET Nodes /\ networks \in SUBSET Networks
    BY <2>1, VMTypes DEF Visited, TypeInv, TypeOK
  <2>5. /\ Rules \subseteq All(todo')
        /\ {Bridge(n) : n \in networks} \subseteq All(todo')
        /\ {Tap(n, runs) : n \in named} \subseteq All(todo')
        /\ {NS(s) : s \in netNss} \subseteq All(todo')
        /\ UNION {FilesOf(n) : n \in second} \subseteq All(todo')
    BY <1>1, <2>3, <2>4, CleanupBegins, Zenon DEF TypeInv
  <2>6. ASSUME NEW x \in made PROVE x \in All(todo')
    <3>1. x \in Rules \cup Bridges \cup NSs \cup Links \cup NodeFiles
      BY DEF TypeInv, TypeOK, Resource, Rules
    <3>2. CASE x \in Rules
      BY <2>5, <3>2
    <3>3. CASE x \in Bridges
      BY <2>5, <3>3 DEF Bridges, CleanInv
    <3>4. CASE x \in NSs
      BY <2>5, <3>4 DEF NSs, MadeInv
    <3>5. CASE x \in Links
      <4>1. PICK n \in Nodes, r \in 1..MaxRuns : x = Tap(n, r)
        BY <3>5 DEF Links
      <4>2. r = runs /\ n \in named
        BY <2>2, <4>1 DEF MadeInv
      <4> QED  BY <2>5, <4>1, <4>2
    <3>6. CASE x \in NodeFiles
      <4>1. PICK n \in Nodes : x \in FilesOf(n)
        BY <3>6 DEF NodeFiles, FilesOf
      <4>2. n \in second
        BY <2>2, <2>4
      <4> QED  BY <2>5, <4>1, <4>2
    <3> QED  BY <3>1, <3>2, <3>3, <3>4, <3>5, <3>6
  <2> QED  BY <1>1, <2>2, <2>6 DEF AllSet
<1> QED  BY <1>2, <1>3 DEF DoneInv, All

LEMMA DoneStep ==
  ASSUME TypeInv, VMInv, PhaseInv, CleanInv, MadeInv, DoneInv, [Next]_vars
  PROVE  DoneInv'
<1>1. ASSUME NEW f \in BOOLEAN, NewCluster(f) PROVE DoneInv'
  BY <1>1 DEF NewCluster, DoneInv
<1>2. CASE Removal
  <2>1. /\ pc' = pc /\ pc # "off" /\ todo # <<>> /\ todo' = Tail(todo)
        /\ host' = host \ Head(todo) /\ UNCHANGED <<made, served, ended, node>>
    BY <1>2 DEF Removal, Drop, nodeVars
  <2>2. All(todo) = Head(todo) \cup All(Tail(todo))
    BY <2>1, TailRange DEF TypeInv, TypeOK
  <2>3. served' /\ pc' = "cleanup" /\ ended' # "panicked" => AllSet /\ made' \cap host' \subseteq All(Tail(todo))
    BY <2>1, <2>2 DEF DoneInv
  <2>4. ended' # "returned"
    BY <2>1 DEF PhaseInv
  <2> QED  BY <2>1, <2>3, <2>4 DEF DoneInv, AllSet, All
<1>3. CASE Forced \/ CreateNatRules \/ (\E n \in Networks : SetupNetwork(n)) \/ PrepareNodes
  <2>1. pc \in {"force", "nat", "networks"} /\ UNCHANGED <<served, ended>>
    BY <1>3, Zenon DEF Forced, CreateNatRules, SetupNetwork, PrepareNodes
  <2>2. ~served'
    BY <2>1 DEF PhaseInv
  <2> QED  BY <2>1, <2>2, DoneBusy
<1>4. CASE MainStep
  <2>1. CASE Signal
    BY <1>4, <2>1, QuietSteps, DoneStays DEF Signal, nodeVars
  <2>2. CASE ~Signal
    <3>1. pc # "off" /\ pc' # "cleanup" /\ ended' \in {ended, "panicked"}
      BY <1>4, <2>2, Zenon DEF MainStep, waitNodes, waitVMs, startAPIServer, waitServers
    <3> QED  BY <3>1, DoneBusy
  <2> QED  BY <2>1, <2>2
<1>5. CASE NilVMPanics \/ Kill
  <2>1. pc # "off" /\ pc' = "off" /\ ended' \in {"crashed", "killed"}
    BY <1>5 DEF NilVMPanics, Kill
  <2> QED  BY <2>1, DoneBusy
<1>6. CASE Return
  <2>1. /\ pc = "cleanup" /\ pc' = "off" /\ todo = <<>> /\ UNCHANGED <<host, made, served, node>>
        /\ ended' = "returned" => ended # "panicked"
    BY <1>6 DEF Return, Keep, nodeVars
  <2>2. All(<<>>) = {}
    BY DEF All, Range
  <2> QED  BY <2>1, <2>2 DEF DoneInv, AllSet
<1>7. CASE UNCHANGED vars
  BY <1>7, DoneStays DEF vars
<1> QED  BY StepCases, <1>1, <1>2, <1>3, <1>4, <1>5, <1>6, <1>7, DoneNode, DoneServe, DoneVMs DEF EndStep

\* All that the proofs about a process that served rest on.
ServedInv == VMInv /\ PhaseInv /\ MadeInv /\ WaitInv /\ DoneInv

LEMMA ServedStep ==
  ASSUME OwnSerials, TypeInv, NatInv, CleanInv, ServedInv, [Next]_vars
  PROVE  ServedInv'
BY VMStep, PhaseStep, MadeStep, WaitStep, DoneStep DEF ServedInv

LEMMA ServedCorrect == ASSUME OwnSerials PROVE Spec => []ServedInv
<1>1. Init => NatInv /\ CleanInv /\ ServedInv
  BY NatInit, CleanInit, VMInit, PhaseInit, MadeInit, WaitInit, DoneInit DEF ServedInv
<1>2. TypeInv /\ NatInv /\ CleanInv /\ ServedInv /\ [Next]_vars => NatInv' /\ CleanInv' /\ ServedInv'
  BY NatStep, CleanStep, ServedStep
<1> QED  BY TypesHold, <1>1, <1>2, PTL DEF Spec

\* When every node has a serial of its own, a VM that was set up is found in
\* c.vms under it, in whichever order the goroutines of the nodes came to
\* store their VMs and though some of them may have stored a nil one.
THEOREM EachVMUnderItsSerial == ASSUME OwnSerials PROVE Spec => []VMUnderItsSerial
<1>1. ServedInv => VMUnderItsSerial
  BY DEF ServedInv, VMInv, VMUnderItsSerial
<1> QED  BY ServedCorrect, <1>1, PTL

\* When every node has a serial of its own, a process that served and returned
\* has removed every resource it made, on a cluster of any size.
THEOREM ServedRemovesAll == ASSUME OwnSerials PROVE Spec => []ServedLeavesNothing
<1>1. ServedInv => ServedLeavesNothing
  BY DEF ServedInv, DoneInv, ServedLeavesNothing
<1> QED  BY ServedCorrect, <1>1, PTL

\* When every node has a serial of its own, a process that served and returned
\* with no failed goroutine has waited for the QEMU of each of its nodes.
THEOREM ServedWaitsForAll == ASSUME OwnSerials PROVE Spec => []NoQEMUOutlives
<1>1. ServedInv => NoQEMUOutlives
  BY DEF ServedInv, DoneInv, PhaseInv, WaitInv, AllSet, NoQEMUOutlives
<1> QED  BY ServedCorrect, <1>1, PTL

=============================================================================
