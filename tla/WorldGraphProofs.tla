-------------------------- MODULE WorldGraphProofs --------------------------
(***************************************************************************)
(* Proofs about WorldGraph, for every set of pids, data, labels and node   *)
(* indexes: the graph and its index agree, no edge dangles and a process   *)
(* that stays keeps its node.  And about Gamification, for every rate of   *)
(* its calls: what is earned, won and stored adds up.                      *)
(***************************************************************************)
EXTENDS WorldGraph, Gamification, NaturalsInduction, WellFoundedInduction,
        FiniteSetTheorems, SequenceTheorems, TLAPS

\* Each part needs the others: that removing a node leaves no dangling edge
\* rests on the index being injective, which IndexAgrees says.
IInv == TypeOK /\ IndexAgrees /\ NoDanglingEdge

\* A partial function from X to T is a function on some part of X.
LEMMA PartialFunction ==
  ASSUME NEW X, NEW T, NEW f
  PROVE  f \in UNION {[S -> T] : S \in SUBSET X}
           <=> DOMAIN f \subseteq X /\ f \in [DOMAIN f -> T]
  OBVIOUS

\* TypeOK without the unions, in the form that the steps use.
Typed ==
  /\ DOMAIN node \subseteq Nodes /\ node \in [DOMAIN node -> Processes]
  /\ DOMAIN pidIndex \subseteq Pids /\ pidIndex \in [DOMAIN pidIndex -> Nodes]
  /\ edges \subseteq [from : Nodes, to : Nodes, label : Labels]

\* The two forms of the type invariant say the same, before and after a step.
LEMMA TypedIsTypeOK == (Typed <=> TypeOK) /\ (Typed' <=> TypeOK')
<1>1. Typed <=> TypeOK
  <2>1. node \in UNION {[ns -> Processes] : ns \in SUBSET Nodes}
          <=> DOMAIN node \subseteq Nodes /\ node \in [DOMAIN node -> Processes]
    BY PartialFunction
  <2>2. pidIndex \in UNION {[ps -> Nodes] : ps \in SUBSET Pids}
          <=> DOMAIN pidIndex \subseteq Pids /\ pidIndex \in [DOMAIN pidIndex -> Nodes]
    BY PartialFunction
  <2> QED BY <2>1, <2>2 DEF TypeOK, Typed
<1>2. Typed' <=> TypeOK'
  <2>1. node' \in UNION {[ns -> Processes] : ns \in SUBSET Nodes}
          <=> DOMAIN node' \subseteq Nodes /\ node' \in [DOMAIN node' -> Processes]
    BY PartialFunction
  <2>2. pidIndex' \in UNION {[ps -> Nodes] : ps \in SUBSET Pids}
          <=> DOMAIN pidIndex' \subseteq Pids /\ pidIndex' \in [DOMAIN pidIndex' -> Nodes]
    BY PartialFunction
  <2> QED BY <2>1, <2>2 DEF TypeOK, Typed
<1> QED BY <1>1, <1>2

\* add_process keeps the invariant: in place, or at a free node.
LEMMA AddProcessKeeps ==
  ASSUME IInv, NEW p \in Pids, NEW d \in Data, AddProcess(p, d)
  PROVE  IInv'
<1> USE DEF IndexAgrees, NoDanglingEdge
<1>0. Typed /\ IndexAgrees /\ NoDanglingEdge
  BY TypedIsTypeOK DEF IInv
<1>1. CASE p \in DOMAIN pidIndex
  <2>1. /\ node' = [node EXCEPT ![pidIndex[p]] = [pid |-> p, data |-> d]]
        /\ pidIndex' = pidIndex /\ edges' = edges
    BY <1>1 DEF AddProcess
  <2>2. Typed'
    BY <1>0, <2>1 DEF Typed, Processes
  <2>3. IndexAgrees' /\ NoDanglingEdge'
    BY <1>0, <1>1, <2>1
  <2> QED BY <2>2, <2>3, TypedIsTypeOK DEF IInv
<1>2. CASE p \notin DOMAIN pidIndex
  <2>1. PICK new \in Nodes \ DOMAIN node :
          /\ node' = [n \in DOMAIN node \cup {new} |->
                        IF n = new THEN [pid |-> p, data |-> d] ELSE node[n]]
          /\ pidIndex' = [q \in DOMAIN pidIndex \cup {p} |->
                            IF q = p THEN new ELSE pidIndex[q]]
          /\ edges' = edges
    BY <1>2 DEF AddProcess
  <2>2. Typed'
    BY <1>0, <2>1 DEF Typed, Processes
  <2>3. IndexAgrees'
    BY <1>0, <1>2, <2>1
  <2>4. NoDanglingEdge'
    BY <1>0, <2>1
  <2> QED BY <2>2, <2>3, <2>4, TypedIsTypeOK DEF IInv
<1> QED BY <1>1, <1>2

\* remove_process keeps it: the removed node is the node of that pid alone.
LEMMA RemoveProcessKeeps ==
  ASSUME IInv, NEW p \in Pids, RemoveProcess(p)
  PROVE  IInv'
<1> USE DEF IndexAgrees, NoDanglingEdge
<1>0. Typed /\ IndexAgrees /\ NoDanglingEdge
  BY TypedIsTypeOK DEF IInv
<1>1. /\ p \in DOMAIN pidIndex
      /\ node' = [n \in DOMAIN node \ {pidIndex[p]} |-> node[n]]
      /\ edges' = {e \in edges : e.from # pidIndex[p] /\ e.to # pidIndex[p]}
      /\ pidIndex' = [q \in DOMAIN pidIndex \ {p} |-> pidIndex[q]]
  BY DEF RemoveProcess
<1>2. Typed'
  BY <1>0, <1>1 DEF Typed
<1>3. IndexAgrees'
  BY <1>0, <1>1
<1>4. NoDanglingEdge'
  BY <1>0, <1>1
<1> QED BY <1>2, <1>3, <1>4, TypedIsTypeOK DEF IInv

\* add_connection keeps it.
LEMMA AddConnectionKeeps ==
  ASSUME IInv, NEW c \in Connections, AddConnection(c)
  PROVE  IInv'
<1>0. Typed /\ IndexAgrees /\ NoDanglingEdge
  BY TypedIsTypeOK DEF IInv
<1>1. /\ c.from \in DOMAIN pidIndex /\ c.to \in DOMAIN pidIndex
      /\ edges' = edges \cup {[from |-> pidIndex[c.from], to |-> pidIndex[c.to],
                               label |-> c.label]}
      /\ node' = node /\ pidIndex' = pidIndex
  BY DEF AddConnection
<1>2. Typed'
  BY <1>0, <1>1 DEF Typed, Connections
<1>3. IndexAgrees'
  BY <1>0, <1>1 DEF IndexAgrees
<1>4. NoDanglingEdge'
  BY <1>0, <1>1 DEF IndexAgrees, NoDanglingEdge
<1> QED BY <1>2, <1>3, <1>4, TypedIsTypeOK DEF IInv

\* apply_snapshot establishes it from the snapshot alone: the new index is
\* injective, so the node of a pid is labelled with that pid.
LEMMA SnapshotNodes ==
  ASSUME NEW procs, NEW connections, ApplySnapshot(procs, connections)
  PROVE  /\ DOMAIN pidIndex' = DOMAIN procs /\ pidIndex' \in [DOMAIN procs -> Nodes]
         /\ \A p \in DOMAIN procs \cap DOMAIN pidIndex : pidIndex'[p] = pidIndex[p]
         /\ DOMAIN node' = {pidIndex'[p] : p \in DOMAIN procs}
         /\ \A p \in DOMAIN procs : node'[pidIndex'[p]] = [pid |-> p, data |-> procs[p]]
<1>1. PICK index \in [DOMAIN procs -> Nodes] :
        /\ \A p \in DOMAIN procs \cap DOMAIN pidIndex : index[p] = pidIndex[p]
        /\ \A p, q \in DOMAIN procs : index[p] = index[q] => p = q
        /\ pidIndex' = index
  BY DEF ApplySnapshot
<1>2. node' = [n \in {pidIndex'[p] : p \in DOMAIN procs} |->
                 [pid |-> CHOOSE q \in DOMAIN procs : pidIndex'[q] = n,
                  data |-> procs[CHOOSE q \in DOMAIN procs : pidIndex'[q] = n]]]
  BY DEF ApplySnapshot
<1>3. ASSUME NEW p \in DOMAIN procs
      PROVE  (CHOOSE q \in DOMAIN procs : pidIndex'[q] = pidIndex'[p]) = p
  BY <1>1
<1> QED BY <1>1, <1>2, <1>3

\* apply_snapshot keeps the invariant; it does not even need it before.
LEMMA ApplySnapshotKeeps ==
  ASSUME NEW procs \in Snapshots, NEW cs \in SUBSET Connections, ApplySnapshot(procs, cs)
  PROVE  IInv'
<1>0. /\ DOMAIN pidIndex' = DOMAIN procs /\ pidIndex' \in [DOMAIN procs -> Nodes]
      /\ DOMAIN node' = {pidIndex'[p] : p \in DOMAIN procs}
      /\ \A p \in DOMAIN procs : node'[pidIndex'[p]] = [pid |-> p, data |-> procs[p]]
  BY SnapshotNodes
<1>1. DOMAIN procs \subseteq Pids /\ procs \in [DOMAIN procs -> Data]
  BY PartialFunction DEF Snapshots
<1>2. edges' = {[from |-> pidIndex'[c.from], to |-> pidIndex'[c.to], label |-> c.label] :
                  c \in {d \in cs : d.from \in DOMAIN procs /\ d.to \in DOMAIN procs}}
  BY DEF ApplySnapshot
<1>3. Typed'
  <2>1. DOMAIN pidIndex' \subseteq Pids /\ pidIndex' \in [DOMAIN pidIndex' -> Nodes]
    BY <1>1, <1>0
  <2>2. DOMAIN node' \subseteq Nodes
    BY <1>0
  <2>3. \A n \in DOMAIN node' : node'[n] \in Processes
    <3>1. ASSUME NEW p \in DOMAIN procs PROVE [pid |-> p, data |-> procs[p]] \in Processes
      BY <1>1 DEF Processes
    <3> QED BY <3>1, <1>0
  <2>4. node' = [n \in DOMAIN node' |-> node'[n]]
    BY DEF ApplySnapshot
  <2>5. edges' \subseteq [from : Nodes, to : Nodes, label : Labels]
    BY <1>2, <1>0 DEF Connections
  <2> QED BY <2>1, <2>2, <2>3, <2>4, <2>5 DEF Typed
<1>4. IndexAgrees'
  <2>1. ASSUME NEW p \in DOMAIN pidIndex'
        PROVE  pidIndex'[p] \in DOMAIN node' /\ node'[pidIndex'[p]].pid = p
    <3>1. [pid |-> p, data |-> procs[p]].pid = p
      OBVIOUS
    <3> QED BY <1>0, <3>1
  <2>2. ASSUME NEW n \in DOMAIN node'
        PROVE  node'[n].pid \in DOMAIN pidIndex' /\ pidIndex'[node'[n].pid] = n
    <3>1. PICK p \in DOMAIN procs : n = pidIndex'[p]
      BY <1>0
    <3>2. node'[n].pid = p
      <4>1. node'[n] = [pid |-> p, data |-> procs[p]]
        BY <3>1, <1>0
      <4>2. [pid |-> p, data |-> procs[p]].pid = p
        OBVIOUS
      <4> QED BY <4>1, <4>2
    <3> QED BY <3>1, <3>2, <1>0
  <2> QED BY <2>1, <2>2 DEF IndexAgrees
<1>5. NoDanglingEdge'
  BY <1>2, <1>0 DEF NoDanglingEdge
<1> QED BY <1>3, <1>4, <1>5, TypedIsTypeOK DEF IInv

\* The invariant holds in every state that the methods of the graph can reach.
THEOREM InvariantHolds == Spec => []IInv
<1>1. Init => IInv
  <2>1. Init => Typed
    BY DEF Init, Typed
  <2> QED BY <2>1, TypedIsTypeOK DEF Init, IInv, IndexAgrees, NoDanglingEdge
<1>2. IInv /\ [Next]_vars => IInv'
  <2> SUFFICES ASSUME IInv, [Next]_vars PROVE IInv'
    OBVIOUS
  <2>1. ASSUME NEW p \in Pids, NEW d \in Data, AddProcess(p, d) PROVE IInv'
    BY <2>1, AddProcessKeeps
  <2>2. ASSUME NEW p \in Pids, RemoveProcess(p) PROVE IInv'
    BY <2>2, RemoveProcessKeeps
  <2>3. ASSUME NEW c \in Connections, AddConnection(c) PROVE IInv'
    BY <2>3, AddConnectionKeeps
  <2>4. ASSUME NEW procs \in Snapshots, NEW cs \in SUBSET Connections,
               ApplySnapshot(procs, cs)
        PROVE  IInv'
    BY <2>4, ApplySnapshotKeeps
  <2>5. CASE UNCHANGED vars
    BY <2>5 DEF vars, IInv, TypeOK, IndexAgrees, NoDanglingEdge
  <2> QED BY <2>1, <2>2, <2>3, <2>4, <2>5 DEF Next
<1> QED BY <1>1, <1>2, PTL DEF Spec

\* The type invariant of the graph.
THEOREM TypeCorrect == Spec => []TypeOK
BY InvariantHolds, PTL DEF IInv

\* The pid index and the nodes agree in both directions, always.
THEOREM IndexAlwaysAgrees == Spec => []IndexAgrees
BY InvariantHolds, PTL DEF IInv

\* No edge ever hangs from a node index that has no node.
THEOREM NoEdgeDangles == Spec => []NoDanglingEdge
BY InvariantHolds, PTL DEF IInv

\* A process that stays in the graph keeps its node in every step.
THEOREM IndexesAreStable == Spec => IndexIsStable
<1>1. [Next]_vars => [\A p \in DOMAIN pidIndex \cap DOMAIN pidIndex' :
                        pidIndex'[p] = pidIndex[p]]_vars
  <2> SUFFICES ASSUME Next, NEW p \in DOMAIN pidIndex \cap DOMAIN pidIndex'
               PROVE  pidIndex'[p] = pidIndex[p]
    BY DEF vars
  <2>1. ASSUME NEW q \in Pids, NEW d \in Data, AddProcess(q, d)
        PROVE  pidIndex'[p] = pidIndex[p]
    BY <2>1 DEF AddProcess
  <2>2. ASSUME NEW q \in Pids, RemoveProcess(q) PROVE pidIndex'[p] = pidIndex[p]
    BY <2>2 DEF RemoveProcess
  <2>3. ASSUME NEW c \in Connections, AddConnection(c) PROVE pidIndex'[p] = pidIndex[p]
    BY <2>3 DEF AddConnection
  <2>4. ASSUME NEW procs \in Snapshots, NEW cs \in SUBSET Connections,
               ApplySnapshot(procs, cs)
        PROVE  pidIndex'[p] = pidIndex[p]
    BY <2>4, SnapshotNodes
  <2> QED BY <2>1, <2>2, <2>3, <2>4 DEF Next
<1> QED BY <1>1, PTL DEF Spec, IndexIsStable
-----------------------------------------------------------------------------
(* The refinement: the graph seen through its index is a ProcessWorld.     *)

ShownProcs == [p \in DOMAIN pidIndex |-> node[pidIndex[p]].data]
Shown(e) == [from |-> node[e.from].pid, to |-> node[e.to].pid, label |-> e.label]
ShownLinks == {Shown(e) : e \in edges}

\* add_process is Put: the data of one pid changes, and no edge's ends do.
LEMMA AddIsPut ==
  ASSUME IInv, NEW p \in Pids, NEW d \in Data, AddProcess(p, d)
  PROVE  World!Put(p, d)
<1>0. Typed /\ IndexAgrees /\ NoDanglingEdge
  BY TypedIsTypeOK DEF IInv
<1>1. edges' = edges
  BY DEF AddProcess
<1>2. /\ DOMAIN pidIndex' = DOMAIN pidIndex \cup {p}
      /\ node'[pidIndex'[p]].data = d
      /\ \A q \in DOMAIN pidIndex : q # p => node'[pidIndex'[q]] = node[pidIndex[q]]
      /\ \A n \in DOMAIN node : node'[n].pid = node[n].pid
  <2>1. CASE p \in DOMAIN pidIndex
    <3> DEFINE at == pidIndex[p]
    <3>1. /\ at \in DOMAIN node /\ pidIndex' = pidIndex
          /\ node' = [node EXCEPT ![at] = [pid |-> p, data |-> d]]
      BY <1>0, <2>1 DEF AddProcess, IndexAgrees
    <3>2. node'[at] = [pid |-> p, data |-> d] /\ \A n \in DOMAIN node : n # at => node'[n] = node[n]
      BY <3>1
    <3>3. \A q \in DOMAIN pidIndex : q # p => pidIndex[q] \in DOMAIN node /\ pidIndex[q] # at
      BY <1>0, <2>1 DEF IndexAgrees
    <3>4. node[at].pid = p
      BY <1>0, <2>1 DEF IndexAgrees
    <3>5. [pid |-> p, data |-> d].pid = p /\ [pid |-> p, data |-> d].data = d
      OBVIOUS
    <3> HIDE DEF at
    <3>6. node'[at].pid = p /\ node'[at].data = d
      BY <3>2, <3>5
    <3>7. \A n \in DOMAIN node : node'[n].pid = node[n].pid
      BY <3>2, <3>4, <3>6
    <3> QED BY <2>1, <3>1, <3>2, <3>3, <3>6, <3>7 DEF at
  <2>2. CASE p \notin DOMAIN pidIndex
    <3>1. PICK new \in Nodes \ DOMAIN node :
            /\ node' = [n \in DOMAIN node \cup {new} |->
                          IF n = new THEN [pid |-> p, data |-> d] ELSE node[n]]
            /\ pidIndex' = [q \in DOMAIN pidIndex \cup {p} |->
                              IF q = p THEN new ELSE pidIndex[q]]
      BY <2>2 DEF AddProcess
    <3> QED BY <1>0, <2>2, <3>1 DEF IndexAgrees
  <2> QED BY <2>1, <2>2
<1>3. ShownProcs' = [q \in DOMAIN ShownProcs \cup {p} |-> IF q = p THEN d ELSE ShownProcs[q]]
  BY <1>2 DEF ShownProcs
<1>4. ShownLinks' = ShownLinks
  <2>1. \A e \in edges : Shown(e)' = Shown(e)
    BY <1>0, <1>2 DEF Shown, NoDanglingEdge
  <2> QED BY <1>1, <2>1 DEF ShownLinks
<1> QED BY <1>3, <1>4 DEF World!Put, ShownProcs, ShownLinks, Shown

\* remove_process is Remove: the edges at a node are the links of its pid.
LEMMA RemoveIsDelete ==
  ASSUME IInv, NEW p \in Pids, RemoveProcess(p)
  PROVE  World!Delete(p)
<1>0. Typed /\ IndexAgrees /\ NoDanglingEdge
  BY TypedIsTypeOK DEF IInv
<1>1. /\ p \in DOMAIN pidIndex
      /\ node' = [n \in DOMAIN node \ {pidIndex[p]} |-> node[n]]
      /\ edges' = {e \in edges : e.from # pidIndex[p] /\ e.to # pidIndex[p]}
      /\ pidIndex' = [q \in DOMAIN pidIndex \ {p} |-> pidIndex[q]]
  BY DEF RemoveProcess
<1>2. \A n \in DOMAIN node : n = pidIndex[p] <=> node[n].pid = p
  BY <1>0, <1>1 DEF IndexAgrees
<1>3. ShownProcs' = [q \in DOMAIN ShownProcs \ {p} |-> ShownProcs[q]]
  BY <1>0, <1>1, <1>2 DEF ShownProcs, IndexAgrees
<1>4. \A e \in edges :
        /\ Shown(e).from \in DOMAIN pidIndex /\ Shown(e).to \in DOMAIN pidIndex
        /\ e \in edges' <=> Shown(e).from # p /\ Shown(e).to # p
        /\ e \in edges' => Shown(e)' = Shown(e)
  BY <1>0, <1>1, <1>2 DEF Shown, IndexAgrees, NoDanglingEdge
<1>5. edges' \subseteq edges
  BY <1>1
<1>6. ShownLinks' = World!Within(ShownLinks, DOMAIN ShownProcs \ {p})
  BY <1>4, <1>5 DEF ShownLinks, World!Within, ShownProcs
<1> QED BY <1>1, <1>3, <1>6 DEF World!Delete, ShownProcs, ShownLinks, Shown

\* add_connection is Connect.
LEMMA AddIsConnect ==
  ASSUME IInv, NEW c \in Connections, AddConnection(c)
  PROVE  World!Connect(c)
<1>0. IndexAgrees
  BY DEF IInv
<1> DEFINE e == [from |-> pidIndex[c.from], to |-> pidIndex[c.to], label |-> c.label]
<1>1. /\ c.from \in DOMAIN pidIndex /\ c.to \in DOMAIN pidIndex
      /\ edges' = edges \cup {e} /\ node' = node /\ pidIndex' = pidIndex
  BY DEF AddConnection
<1>2. Shown(e) = c
  BY <1>0, <1>1 DEF Shown, IndexAgrees, Connections
<1>3. ShownProcs' = ShownProcs /\ \A f : Shown(f)' = Shown(f)
  BY <1>1 DEF ShownProcs, Shown
<1> HIDE DEF e
<1>4. ShownLinks' = ShownLinks \cup {c}
  BY <1>1, <1>2, <1>3 DEF ShownLinks
<1> QED BY <1>1, <1>3, <1>4 DEF World!Connect, ShownProcs, ShownLinks, Shown

\* apply_snapshot is Replace: an edge of the snapshot becomes an edge between
\* nodes that are labelled with its pids.
LEMMA ApplyIsReplace ==
  ASSUME NEW procs \in Snapshots, NEW cs \in SUBSET Connections, ApplySnapshot(procs, cs)
  PROVE  World!Replace(procs, cs)
<1>0. /\ DOMAIN pidIndex' = DOMAIN procs
      /\ \A p \in DOMAIN procs : node'[pidIndex'[p]] = [pid |-> p, data |-> procs[p]]
  BY SnapshotNodes
<1>1. procs \in [DOMAIN procs -> Data]
  BY PartialFunction DEF Snapshots
<1>2. \A p \in DOMAIN procs : node'[pidIndex'[p]].pid = p /\ node'[pidIndex'[p]].data = procs[p]
  <2> SUFFICES ASSUME NEW p \in DOMAIN procs
               PROVE  node'[pidIndex'[p]].pid = p /\ node'[pidIndex'[p]].data = procs[p]
    OBVIOUS
  <2>1. node'[pidIndex'[p]] = [pid |-> p, data |-> procs[p]]
    BY <1>0
  <2>2. [pid |-> p, data |-> procs[p]].pid = p /\ [pid |-> p, data |-> procs[p]].data = procs[p]
    OBVIOUS
  <2> QED BY <2>1, <2>2
<1>3. ShownProcs' = procs
  BY <1>0, <1>1, <1>2 DEF ShownProcs
<1> DEFINE Kept == {d \in cs : d.from \in DOMAIN procs /\ d.to \in DOMAIN procs}
           Edge(c) == [from |-> pidIndex'[c.from], to |-> pidIndex'[c.to], label |-> c.label]
<1>4. edges' = {Edge(c) : c \in Kept}
  BY DEF ApplySnapshot
<1>5. \A c \in Kept : [from |-> node'[Edge(c).from].pid, to |-> node'[Edge(c).to].pid,
                       label |-> Edge(c).label] = c
  BY <1>2 DEF Connections
<1>6. ShownLinks' = {[from |-> node'[e.from].pid, to |-> node'[e.to].pid, label |-> e.label] :
                       e \in edges'}
  BY DEF ShownLinks, Shown
<1> HIDE DEF Kept, Edge
<1>7. ShownLinks' = Kept
  BY <1>4, <1>5, <1>6
<1> QED BY <1>3, <1>7 DEF World!Replace, World!Within, ShownProcs, ShownLinks, Shown, Kept

\* Whatever is added, removed, connected and replaced, readers see a map of
\* processes and the connections between them, however nodes are recycled.
THEOREM GraphImplementsProcessWorld == Spec => ImplementsProcessWorld
<1>1. Init => World!WorldInit
  BY DEF Init, World!WorldInit
<1>2. IInv /\ [Next]_vars => [World!WorldNext]_World!worldVars
  <2> SUFFICES ASSUME IInv, [Next]_vars PROVE [World!WorldNext]_World!worldVars
    OBVIOUS
  <2>1. ASSUME NEW p \in Pids, NEW d \in Data, AddProcess(p, d) PROVE World!WorldNext
    BY <2>1, AddIsPut DEF World!WorldNext
  <2>2. ASSUME NEW p \in Pids, RemoveProcess(p) PROVE World!WorldNext
    BY <2>2, RemoveIsDelete DEF World!WorldNext
  <2>3. ASSUME NEW c \in Connections, AddConnection(c) PROVE World!WorldNext
    BY <2>3, AddIsConnect DEF World!WorldNext, World!Connections, Connections
  <2>4. ASSUME NEW procs \in Snapshots, NEW cs \in SUBSET Connections,
               ApplySnapshot(procs, cs)
        PROVE  World!WorldNext
    BY <2>4, ApplyIsReplace DEF World!WorldNext, World!Connections, Connections, Snapshots
  <2>5. CASE UNCHANGED vars
    BY <2>5 DEF vars, World!worldVars
  <2> QED BY <2>1, <2>2, <2>3, <2>4, <2>5 DEF Next
<1> QED BY <1>1, <1>2, InvariantHolds, PTL DEF Spec, ImplementsProcessWorld, World!WorldSpec
-----------------------------------------------------------------------------
(* Gamification.  Loops: induction up to a number, with a set for the      *)
(* predicate, and that what a loop computes exists.                        *)

LEMMA UpTo ==
  ASSUME NEW N \in Nat, NEW S, 0 \in S,
         \A n \in Nat : n < N /\ n \in S => n + 1 \in S
  PROVE  0 .. N \subseteq S
<1> SUFFICES ASSUME 0 .. N \ S # {} PROVE FALSE
    OBVIOUS
<1> DEFINE R == OpToRel(<, Nat)
<1>2. IsWellFoundedOn(R, Nat)
    BY NatLessThanWellFounded
<1> HIDE DEF R
<1>3. PICK x \in 0 .. N \ S : \A y \in 0 .. N \ S : ~ (<<y, x>> \in R)
  <2>1. 0 .. N \ S \subseteq Nat
    OBVIOUS
  <2> QED
    BY <1>2, <2>1, WFMin
<1>4. x # 0 /\ x - 1 \in Nat /\ x - 1 < N /\ x - 1 \in 0 .. N
    OBVIOUS
<1>5. <<x - 1, x>> \in R
    BY <1>4 DEF R, OpToRel
<1>6. x - 1 \in S
    BY <1>3, <1>4, <1>5
<1>7. x - 1 + 1 \in S
    BY <1>4, <1>6
<1> QED
    BY <1>3, <1>7

\* m holds what a loop of N rounds has computed before and after each round.
Loop(m, start, Step, N) ==
  /\ m[0] = start
  /\ \A k \in 1 .. N : m[k] = Step[<<m[k - 1], k>>]

LEMMA LoopExists ==
  ASSUME NEW Q, NEW start \in Q, NEW N \in Nat, NEW Step \in [Q \X (1 .. N) -> Q]
  PROVE  \E m \in [0 .. N -> Q] : Loop(m, start, Step, N)
<1> DEFINE S == {n \in Nat : n <= N => \E m \in [0 .. n -> Q] : Loop(m, start, Step, n)}
<1>1. 0 \in S
  <2> DEFINE m == [k \in 0 .. 0 |-> start]
  <2>1. m \in [0 .. 0 -> Q] /\ Loop(m, start, Step, 0)
    BY DEF Loop
  <2> QED
    BY <2>1
<1>2. ASSUME NEW n \in Nat, n < N, n \in S PROVE n + 1 \in S
  <2>1. PICK m \in [0 .. n -> Q] : Loop(m, start, Step, n)
    BY <1>2
  <2> DEFINE next == Step[<<m[n], n + 1>>]
             l == [k \in 0 .. n + 1 |-> IF k = n + 1 THEN next ELSE m[k]]
  <2>2. next \in Q
    BY <1>2, <2>1
  <2>3. l \in [0 .. n + 1 -> Q]
    BY <2>1, <2>2
  <2>4. l[0] = start /\ l[n] = m[n] /\ l[n + 1] = next /\ \A k \in 0 .. n : l[k] = m[k]
    BY <2>1 DEF Loop
  <2>5. next = Step[<<m[n], n + 1>>]
    OBVIOUS
  <2> HIDE DEF l, next
  <2>6. ASSUME NEW k \in 1 .. n + 1 PROVE l[k] = Step[<<l[k - 1], k>>]
    <3>1. CASE k = n + 1
      <4>1. k - 1 = n
        BY <3>1
      <4> QED
        BY <2>4, <2>5, <3>1, <4>1
    <3>2. CASE k \in 1 .. n
      <4>1. k - 1 \in 0 .. n /\ k \in 0 .. n
        BY <3>2
      <4> QED
        BY <2>1, <2>4, <3>2, <4>1 DEF Loop
    <3> QED
      BY <3>1, <3>2
  <2>7. Loop(l, start, Step, n + 1)
    BY <2>4, <2>6 DEF Loop
  <2> QED
    BY <2>3, <2>7
<1> HIDE DEF S
<1>3. 0 .. N \subseteq S
    BY <1>1, <1>2, UpTo
<1> QED
    BY <1>3 DEF S
-----------------------------------------------------------------------------
(* What the events of a list come to.                                      *)

Sums(m, s) ==
  m = [n \in 0 .. Len(s) |-> IF n = 0 THEN 0 ELSE m[n - 1] + s[n]]

LEMMA SumsRounds ==
  ASSUME NEW s \in Seq(Nat), NEW m, Sums(m, s)
  PROVE  m[0] = 0 /\ \A n \in 1 .. Len(s) : m[n] = m[n - 1] + s[n]
<1> DEFINE N == Len(s)
<1>1. N \in Nat
    OBVIOUS
<1>2. m = [n \in 0 .. N |-> IF n = 0 THEN 0 ELSE m[n - 1] + s[n]]
    BY DEF Sums
<1> HIDE DEF N
<1>3. 0 \in 0 .. N /\ \A n \in 1 .. N : n \in 0 .. N /\ n # 0
    BY <1>1
<1>4. m[0] = 0
    BY <1>2, <1>3, Zenon
<1>5. \A n \in 1 .. N : m[n] = m[n - 1] + s[n]
    BY <1>2, <1>3, Zenon
<1> QED
    BY <1>4, <1>5 DEF N

LEMMA SumsExist ==
  ASSUME NEW s \in Seq(Nat)
  PROVE  \E m \in [0 .. Len(s) -> Nat] : Sums(m, s)
<1> DEFINE N == Len(s)
           Step == [qk \in Nat \X (1 .. N) |-> qk[1] + s[qk[2]]]
<1>1. N \in Nat /\ \A k \in 1 .. N : s[k] \in Nat
    OBVIOUS
<1>2. Step \in [Nat \X (1 .. N) -> Nat]
    BY <1>1
<1>3. \A q \in Nat, k \in 1 .. N : Step[<<q, k>>] = q + s[k]
    OBVIOUS
<1> HIDE DEF Step, N
<1>4. PICK m \in [0 .. N -> Nat] : Loop(m, 0, Step, N)
    BY <1>1, <1>2, LoopExists
<1>5. ASSUME NEW k \in 0 .. N PROVE m[k] = IF k = 0 THEN 0 ELSE m[k - 1] + s[k]
  <2>1. CASE k = 0
    BY <1>4, <2>1 DEF Loop
  <2>2. CASE k \in 1 .. N
    <3>1. m[k - 1] \in Nat
      BY <1>1, <1>4, <2>2
    <3> QED
      BY <1>3, <1>4, <2>2, <3>1 DEF Loop
  <2> QED
    BY <1>1, <2>1, <2>2
<1> QED
    BY <1>4, <1>5 DEF Sums, N

\* Rounds that start at nothing and add one event each come to the total.
LEMMA TotalIs ==
  ASSUME NEW s \in Seq(Nat), NEW m \in [0 .. Len(s) -> Nat],
         m[0] = 0, \A n \in 1 .. Len(s) : m[n] = m[n - 1] + s[n]
  PROVE  Total(s) = m[Len(s)] /\ Total(s) \in Nat
<1> DEFINE N == Len(s)
           f == CHOOSE f : Sums(f, s)
<1>1. N \in Nat
    OBVIOUS
<1>2. Sums(f, s)
  <2>1. \E g : Sums(g, s)
    BY SumsExist
  <2> QED
    BY <2>1
<1>3. Total(s) = f[N]
    BY DEF Total, Sums
<1> HIDE DEF f
<1>4. f[0] = 0 /\ \A n \in 1 .. N : f[n] = f[n - 1] + s[n]
    BY <1>2, SumsRounds
<1> HIDE DEF N
<1> DEFINE P == {n \in Nat : n <= N => f[n] = m[n]}
<1>5. 0 \in P
    BY <1>4
<1>6. ASSUME NEW n \in Nat, n < N, n \in P PROVE n + 1 \in P
  <2>1. n + 1 \in 1 .. N /\ n + 1 - 1 = n
    BY <1>1, <1>6
  <2>2. f[n + 1] = f[n] + s[n + 1] /\ m[n + 1] = m[n] + s[n + 1]
    BY <1>4, <2>1 DEF N
  <2>3. f[n] = m[n]
    BY <1>1, <1>6
  <2>4. f[n + 1] = m[n + 1] /\ n + 1 \in Nat
    BY <2>2, <2>3
  <2> QED
    BY <2>4
<1> HIDE DEF P
<1>7. N \in P
  <2>1. 0 .. N \subseteq P
    BY <1>1, <1>5, <1>6, UpTo
  <2> QED
    BY <1>1, <2>1
<1>8. f[N] = m[N]
    BY <1>1, <1>7 DEF P
<1> QED
    BY <1>1, <1>3, <1>8 DEF N

LEMMA TotalOfNone == Total(<<>>) = 0
<1> DEFINE m == [n \in 0 .. 0 |-> 0]
<1>1. <<>> \in Seq(Nat) /\ Len(<<>>) = 0 /\ m \in [0 .. 0 -> Nat] /\ m[0] = 0
    OBVIOUS
<1> HIDE DEF m
<1>2. \A n \in 1 .. 0 : m[n] = m[n - 1] + <<>>[n]
    OBVIOUS
<1> QED
    BY <1>1, <1>2, TotalIs

LEMMA TotalOfOne ==
  ASSUME NEW r \in Nat
  PROVE  <<r>> \in Seq(Nat) /\ Total(<<r>>) = r
<1> DEFINE s == <<r>>
           m == [n \in 0 .. 1 |-> IF n = 0 THEN 0 ELSE r]
<1>1. s \in Seq(Nat) /\ Len(s) = 1 /\ s[1] = r
    OBVIOUS
<1>2. m \in [0 .. 1 -> Nat] /\ m[0] = 0 /\ m[1] = r
    OBVIOUS
<1> HIDE DEF s, m
<1>3. \A n \in 1 .. 1 : m[n] = m[n - 1] + s[n]
  <2>1. 1 - 1 = 0 /\ m[1] = m[0] + s[1]
    BY <1>1, <1>2
  <2> QED
    BY <2>1
<1>4. Total(s) = m[1]
    BY <1>1, <1>2, <1>3, TotalIs
<1> QED
    BY <1>1, <1>2, <1>4 DEF s

\* The minutes of a tick: as many events of one point.
LEMMA TotalOfOnes ==
  ASSUME NEW k \in Nat
  PROVE  [i \in 1 .. k |-> 1] \in Seq(Nat) /\ Total([i \in 1 .. k |-> 1]) = k
<1> DEFINE s == [i \in 1 .. k |-> 1]
           m == [n \in 0 .. k |-> n]
<1>1. s \in Seq(Nat) /\ Len(s) = k /\ \A i \in 1 .. k : s[i] = 1
    OBVIOUS
<1>2. m \in [0 .. k -> Nat] /\ \A n \in 0 .. k : m[n] = n
    OBVIOUS
<1> HIDE DEF s, m
<1>3. m[0] = 0 /\ m[k] = k
    BY <1>2
<1>4. \A n \in 1 .. k : m[n] = m[n - 1] + s[n]
    BY <1>1, <1>2
<1>5. Total(s) = m[k]
    BY <1>1, <1>2, <1>3, <1>4, TotalIs
<1> QED
    BY <1>1, <1>3, <1>5 DEF s

LEMMA TotalOfBoth ==
  ASSUME NEW s \in Seq(Nat), NEW t \in Seq(Nat)
  PROVE  Total(s) \in Nat /\ Total(t) \in Nat /\ Total(s \o t) = Total(s) + Total(t)
<1> DEFINE K == Len(s)
           L == Len(t)
           b == s \o t
<1>1. /\ K \in Nat /\ L \in Nat /\ b \in Seq(Nat) /\ Len(b) = K + L
      /\ \A n \in 1 .. K : b[n] = s[n]
      /\ \A n \in K + 1 .. K + L : b[n] = t[n - K]
    OBVIOUS
<1>2. K \in Nat /\ L \in Nat
    OBVIOUS
<1>3. PICK f \in [0 .. K -> Nat] : Sums(f, s)
    BY SumsExist
<1>4. PICK g \in [0 .. L -> Nat] : Sums(g, t)
    BY SumsExist
<1>5. f[0] = 0 /\ \A n \in 1 .. K : f[n] = f[n - 1] + s[n]
    BY <1>3, SumsRounds
<1>6. g[0] = 0 /\ \A n \in 1 .. L : g[n] = g[n - 1] + t[n]
    BY <1>4, SumsRounds
<1>7. Total(s) = f[K] /\ Total(s) \in Nat
    BY <1>5, TotalIs
<1>8. Total(t) = g[L] /\ Total(t) \in Nat
    BY <1>6, TotalIs
<1>9. f \in [0 .. K -> Nat] /\ g \in [0 .. L -> Nat] /\ \A n \in 1 .. L : t[n] \in Nat
    BY <1>1, <1>3, <1>4
<1> HIDE DEF K, L, b
<1> DEFINE Value(i) == IF i <= K THEN f[i] ELSE f[K] + g[i - K]
           m == [i \in 0 .. K + L |-> Value(i)]
<1>10. /\ m \in [0 .. K + L -> Nat]
       /\ \A i \in 0 .. K : m[i] = f[i]
       /\ \A i \in K + 1 .. K + L : m[i] = f[K] + g[i - K]
  <2>1. ASSUME NEW i \in 0 .. K PROVE i \in 0 .. K + L /\ Value(i) = f[i] /\ f[i] \in Nat
    BY <1>2, <1>9
  <2>2. ASSUME NEW i \in K + 1 .. K + L
        PROVE  i \in 0 .. K + L /\ Value(i) = f[K] + g[i - K] /\ f[K] + g[i - K] \in Nat
    <3>1. i \in 0 .. K + L /\ ~(i <= K) /\ i - K \in 0 .. L /\ K \in 0 .. K
      BY <1>2
    <3>2. g[i - K] \in Nat /\ f[K] \in Nat
      BY <1>9, <3>1
    <3> QED
      BY <3>1, <3>2
  <2>3. ASSUME NEW i \in 0 .. K + L PROVE i \in 0 .. K \/ i \in K + 1 .. K + L
    BY <1>2
  <2> HIDE DEF Value
  <2>4. \A i \in 0 .. K + L : Value(i) \in Nat
    BY <2>1, <2>2, <2>3
  <2> QED
    BY <2>1, <2>2, <2>4
<1> HIDE DEF m
<1>11. \A n \in K .. K + L : m[n] = f[K] + g[n - K]
  <2> SUFFICES ASSUME NEW n \in K .. K + L PROVE m[n] = f[K] + g[n - K]
    OBVIOUS
  <2>1. CASE n = K
    <3>1. K \in 0 .. K /\ K - K = 0 /\ f[K] \in Nat
      BY <1>2, <1>9
    <3>2. m[K] = f[K] /\ g[0] = 0
      BY <1>6, <1>10, <3>1
    <3> QED
      BY <2>1, <3>1, <3>2
  <2>2. CASE n # K
    <3>1. n \in K + 1 .. K + L
      BY <1>2, <2>2
    <3> QED
      BY <1>10, <3>1
  <2> QED
    BY <2>1, <2>2
<1>12. m[0] = 0
    BY <1>1, <1>5, <1>10
<1>13. ASSUME NEW n \in 1 .. K + L PROVE m[n] = m[n - 1] + b[n]
  <2>1. CASE n \in 1 .. K
    <3>1. n - 1 \in 0 .. K /\ n \in 0 .. K
      BY <1>1, <2>1
    <3> QED
      BY <1>1, <1>5, <1>10, <2>1, <3>1
  <2>2. CASE n \notin 1 .. K
    <3> DEFINE j == n - K
    <3>1. /\ j \in 1 .. L /\ j - 1 \in 0 .. L /\ n - 1 - K = j - 1
          /\ n \in K + 1 .. K + L /\ n \in K .. K + L /\ n - 1 \in K .. K + L
      BY <1>2, <2>2
    <3>2. b[n] = t[j] /\ m[n] = f[K] + g[j]
      BY <1>1, <1>11, <3>1
    <3>3. m[n - 1] = f[K] + g[n - 1 - K]
      BY <1>11, <3>1
    <3> HIDE DEF j
    <3>4. f[K] \in Nat /\ g[j - 1] \in Nat /\ t[j] \in Nat
      <4>1. K \in 0 .. K
        BY <1>2
      <4> QED
        BY <1>9, <3>1, <4>1
    <3>5. g[j] = g[j - 1] + t[j]
      BY <1>6, <3>1
    <3>6. m[n - 1] = f[K] + g[j - 1]
      BY <3>1, <3>3
    <3>7. f[K] + (g[j - 1] + t[j]) = (f[K] + g[j - 1]) + t[j]
      <4>1. \A u, v, w \in Nat : u + (v + w) = (u + v) + w
        OBVIOUS
      <4> QED
        BY <3>4, <4>1, Zenon
    <3> QED
      BY <3>2, <3>5, <3>6, <3>7
  <2> QED
    BY <2>1, <2>2
<1>14. Total(b) = m[K + L]
  <2> DEFINE N == K + L
  <2>1. b \in Seq(Nat) /\ Len(b) = N /\ m \in [0 .. N -> Nat]
    BY <1>1, <1>10
  <2>2. \A n \in 1 .. N : m[n] = m[n - 1] + b[n]
    BY <1>13
  <2> HIDE DEF N
  <2>3. Total(b) = m[N]
    BY <1>12, <2>1, <2>2, TotalIs
  <2> QED
    BY <2>3 DEF N
<1>15. m[K + L] = f[K] + g[L]
    BY <1>1, <1>11
<1> QED
    BY <1>7, <1>8, <1>14, <1>15 DEF K, L, b
-----------------------------------------------------------------------------
(* Lists in which nothing is twice.                                        *)

LEMMA Members ==
  ASSUME NEW T, NEW s \in Seq(T)
  PROVE  /\ Len(s) \in Nat /\ DOMAIN s = 1 .. Len(s)
         /\ \A i \in 1 .. Len(s) : s[i] \in T /\ s[i] \in ToSet(s)
         /\ \A x \in ToSet(s) : \E i \in 1 .. Len(s) : s[i] = x
         /\ ToSet(s) \subseteq T
BY DEF ToSet

LEMMA AppendOne ==
  ASSUME NEW T, NEW s \in Seq(T), NEW x \in T
  PROVE  /\ Append(s, x) \in Seq(T)
         /\ ToSet(Append(s, x)) = ToSet(s) \cup {x}
         /\ IsInjective(s) /\ x \notin ToSet(s) => IsInjective(Append(s, x))
<1> DEFINE a == Append(s, x)
           n == Len(s)
<1>1. /\ n \in Nat /\ DOMAIN s = 1 .. n
      /\ a \in Seq(T) /\ DOMAIN a = 1 .. n + 1
      /\ \A i \in 1 .. n : a[i] = s[i]
      /\ a[n + 1] = x
    OBVIOUS
<1>2. \A i \in 1 .. n + 1 : i \in 1 .. n \/ i = n + 1
    BY <1>1
<1>3. n + 1 \in 1 .. n + 1 /\ \A i \in 1 .. n : i \in 1 .. n + 1
    BY <1>1
<1> HIDE DEF a, n
<1>4. ToSet(a) = ToSet(s) \cup {x}
  <2>1. ToSet(a) \subseteq ToSet(s) \cup {x}
    BY <1>1, <1>2 DEF ToSet
  <2>2. ToSet(s) \subseteq ToSet(a)
    BY <1>1, <1>3 DEF ToSet
  <2>3. x \in ToSet(a)
    BY <1>1, <1>3 DEF ToSet
  <2> QED
    BY <2>1, <2>2, <2>3
<1>5. ASSUME IsInjective(s), x \notin ToSet(s) PROVE IsInjective(a)
  <2>1. \A i \in 1 .. n : s[i] # x
    BY <1>1, <1>5 DEF ToSet
  <2>2. \A i, j \in 1 .. n : s[i] = s[j] => i = j
    BY <1>1, <1>5 DEF IsInjective
  <2>3. ASSUME NEW i \in 1 .. n + 1, NEW j \in 1 .. n + 1, a[i] = a[j] PROVE i = j
    <3>1. CASE i \in 1 .. n /\ j \in 1 .. n
      BY <1>1, <2>2, <2>3, <3>1
    <3>2. CASE i \in 1 .. n /\ j = n + 1
      BY <1>1, <2>1, <2>3, <3>2
    <3>3. CASE i = n + 1 /\ j \in 1 .. n
      BY <1>1, <2>1, <2>3, <3>3
    <3> QED
      BY <1>2, <3>1, <3>2, <3>3
  <2> QED
    BY <1>1, <2>3 DEF IsInjective
<1> QED
    BY <1>1, <1>4, <1>5 DEF a

LEMMA Joined ==
  ASSUME NEW T, NEW s \in Seq(T), NEW t \in Seq(T)
  PROVE  /\ s \o t \in Seq(T)
         /\ ToSet(s \o t) = ToSet(s) \cup ToSet(t)
         /\ IsInjective(s) /\ IsInjective(t) /\ ToSet(s) \cap ToSet(t) = {} => IsInjective(s \o t)
<1> DEFINE b == s \o t
           K == Len(s)
           L == Len(t)
<1>1. /\ K \in Nat /\ L \in Nat /\ DOMAIN s = 1 .. K /\ DOMAIN t = 1 .. L
      /\ b \in Seq(T) /\ DOMAIN b = 1 .. K + L
      /\ \A i \in 1 .. K : b[i] = s[i]
      /\ \A i \in K + 1 .. K + L : b[i] = t[i - K]
    OBVIOUS
<1>2. /\ \A i \in 1 .. K : i \in 1 .. K + L
      /\ \A i \in 1 .. K + L : i \in 1 .. K \/ (i \in K + 1 .. K + L /\ i - K \in 1 .. L)
    BY <1>1
<1>3. \A j \in 1 .. L : \E i \in 1 .. K + L : b[i] = t[j]
  <2> SUFFICES ASSUME NEW j \in 1 .. L PROVE \E i \in 1 .. K + L : b[i] = t[j]
    OBVIOUS
  <2> HIDE DEF b, K, L
  <2> DEFINE i == K + j
  <2>1. i \in K + 1 .. K + L /\ i \in 1 .. K + L /\ i - K = j
    BY <1>1
  <2> HIDE DEF i
  <2>2. b[i] = t[j]
    BY <1>1, <2>1
  <2> QED
    BY <2>1, <2>2
<1> HIDE DEF b, K, L
<1>4. ToSet(b) = ToSet(s) \cup ToSet(t)
  <2>1. ToSet(b) \subseteq ToSet(s) \cup ToSet(t)
    BY <1>1, <1>2 DEF ToSet
  <2>2. ToSet(s) \subseteq ToSet(b)
    BY <1>1, <1>2 DEF ToSet
  <2>3. ASSUME NEW x \in ToSet(t) PROVE x \in ToSet(b)
    <3>1. PICK j \in 1 .. L : t[j] = x
      BY <1>1 DEF ToSet
    <3>2. PICK i \in 1 .. K + L : b[i] = x
      BY <1>3, <3>1
    <3> QED
      BY <1>1, <3>2 DEF ToSet
  <2> QED
    BY <2>1, <2>2, <2>3
<1>5. ASSUME IsInjective(s), IsInjective(t), ToSet(s) \cap ToSet(t) = {} PROVE IsInjective(b)
  <2>1. \A i, j \in 1 .. K : s[i] = s[j] => i = j
    BY <1>1, <1>5 DEF IsInjective
  <2>2. \A i, j \in 1 .. L : t[i] = t[j] => i = j
    BY <1>1, <1>5 DEF IsInjective
  <2>3. \A i \in 1 .. K, j \in 1 .. L : s[i] # t[j]
    BY <1>1, <1>5 DEF ToSet
  <2>4. ASSUME NEW i \in 1 .. K + L, NEW j \in 1 .. K + L, b[i] = b[j] PROVE i = j
    <3>1. CASE i \in 1 .. K /\ j \in 1 .. K
      BY <1>1, <2>1, <2>4, <3>1
    <3>2. CASE i \in 1 .. K /\ j \in K + 1 .. K + L /\ j - K \in 1 .. L
      BY <1>1, <2>3, <2>4, <3>2
    <3>3. CASE i \in K + 1 .. K + L /\ i - K \in 1 .. L /\ j \in 1 .. K
      BY <1>1, <2>3, <2>4, <3>3
    <3>4. CASE i \in K + 1 .. K + L /\ i - K \in 1 .. L /\ j \in K + 1 .. K + L /\ j - K \in 1 .. L
      <4>1. t[i - K] = t[j - K]
        BY <1>1, <2>4, <3>4
      <4>2. i - K = j - K
        BY <2>2, <3>4, <4>1
      <4> QED
        BY <1>1, <4>2
    <3> QED
      BY <1>2, <3>1, <3>2, <3>3, <3>4
  <2> QED
    BY <1>1, <2>4 DEF IsInjective
<1> QED
    BY <1>1, <1>4, <1>5 DEF b

\* What Among keeps after n rounds.
AmongRound(q, x, ids) == IF x \in ids THEN Append(q, x) ELSE q
Keeps(m, list, ids) ==
  m = [n \in 0 .. Len(list) |-> IF n = 0 THEN <<>> ELSE AmongRound(m[n - 1], list[n], ids)]

LEMMA AmongLoop ==
  ASSUME NEW T, NEW list \in Seq(T), NEW ids
  PROVE  \E m : Keeps(m, list, ids) /\ Among(list, ids) = m[Len(list)]
<1> DEFINE N == Len(list)
           Q == Seq(T)
           Step == [qk \in Q \X (1 .. N) |-> AmongRound(qk[1], list[qk[2]], ids)]
<1>1. N \in Nat /\ \A k \in 1 .. N : list[k] \in T
    OBVIOUS
<1>2. \A q \in Q, k \in 1 .. N : AmongRound(q, list[k], ids) \in Q
    BY <1>1 DEF AmongRound
<1>3. Step \in [Q \X (1 .. N) -> Q]
    BY <1>2
<1>4. <<>> \in Q
    OBVIOUS
<1>5. \A q \in Q, k \in 1 .. N : Step[<<q, k>>] = AmongRound(q, list[k], ids)
    OBVIOUS
<1> HIDE DEF Step, Q, N
<1>6. PICK m \in [0 .. N -> Q] : Loop(m, <<>>, Step, N)
    BY <1>1, <1>3, <1>4, LoopExists
<1>7. ASSUME NEW k \in 0 .. N
      PROVE  m[k] = IF k = 0 THEN <<>> ELSE AmongRound(m[k - 1], list[k], ids)
  <2>1. CASE k = 0
    BY <1>6, <2>1 DEF Loop
  <2>2. CASE k \in 1 .. N
    <3>1. m[k - 1] \in Q
      BY <1>1, <1>6, <2>2
    <3> QED
      BY <1>5, <1>6, <2>2, <3>1 DEF Loop
  <2> QED
    BY <1>1, <2>1, <2>2
<1>8. Keeps(m, list, ids)
    BY <1>6, <1>7 DEF Keeps, N
<1>9. Among(list, ids) = (CHOOSE q : Keeps(q, list, ids))[Len(list)]
    BY DEF Among, Keeps, AmongRound
<1> QED
    BY <1>8, <1>9

\* Among keeps what is in both, once if nothing is twice in the list.
LEMMA AmongIs ==
  ASSUME NEW T, NEW list \in Seq(T), IsInjective(list), NEW ids
  PROVE  /\ Among(list, ids) \in Seq(T)
         /\ ToSet(Among(list, ids)) = ToSet(list) \cap ids
         /\ IsInjective(Among(list, ids))
<1> DEFINE N == Len(list)
<1>1. PICK m : Keeps(m, list, ids) /\ Among(list, ids) = m[N]
    BY AmongLoop, Zenon
<1>2. N \in Nat /\ DOMAIN list = 1 .. N /\ \A i \in 1 .. N : list[i] \in T
    OBVIOUS
<1>3. m = [n \in 0 .. N |-> IF n = 0 THEN <<>> ELSE AmongRound(m[n - 1], list[n], ids)]
    BY <1>1 DEF Keeps
<1> HIDE DEF N
<1>4. 0 \in 0 .. N /\ \A n \in 1 .. N : n \in 0 .. N /\ n # 0
    BY <1>2
<1>5. m[0] = <<>>
    BY <1>3, <1>4, Zenon
<1>6. \A n \in 1 .. N : m[n] = AmongRound(m[n - 1], list[n], ids)
    BY <1>3, <1>4, Zenon
<1> DEFINE Before(n) == {list[i] : i \in 1 .. n}
           Good(q, n) == /\ q \in Seq(T) /\ IsInjective(q)
                         /\ ToSet(q) = Before(n) \cap ids
           P == {n \in Nat : n <= N => Good(m[n], n)}
<1>7. 0 \in P
  <2>1. <<>> \in Seq(T) /\ DOMAIN <<>> = {} /\ Before(0) = {}
    OBVIOUS
  <2>2. IsInjective(<<>>) /\ ToSet(<<>>) = {}
    BY <2>1 DEF IsInjective, ToSet
  <2>3. Good(<<>>, 0)
    BY <2>1, <2>2
  <2> HIDE DEF Good
  <2> QED
    BY <1>5, <2>3
<1>8. ASSUME NEW n \in Nat, n < N, n \in P PROVE n + 1 \in P
  <2> DEFINE q == m[n]
             x == list[n + 1]
  <2>1. Good(q, n) /\ x \in T
    BY <1>2, <1>8
  <2>2. m[n + 1] = AmongRound(q, x, ids)
    BY <1>2, <1>6, <1>8
  <2>3. Before(n + 1) = Before(n) \cup {x}
    <3>1. 1 .. n + 1 = (1 .. n) \cup {n + 1}
      OBVIOUS
    <3> QED
      BY <3>1
  <2>4. x \notin Before(n)
    <3>1. \A i \in 1 .. n : i \in DOMAIN list /\ n + 1 \in DOMAIN list /\ i # n + 1
      BY <1>2, <1>8
    <3>2. \A i \in 1 .. n : list[i] # list[n + 1]
      BY <3>1, Zenon DEF IsInjective
    <3> QED
      BY <3>2
  <2> HIDE DEF q, x, Before
  <2>5. CASE x \in ids
    <3> DEFINE longer == Append(q, x)
    <3>1. Good(longer, n + 1)
      BY <2>1, <2>3, <2>4, <2>5, AppendOne
    <3>2. m[n + 1] = longer
      BY <2>2, <2>5 DEF AmongRound
    <3> HIDE DEF Good, longer
    <3> QED
      BY <3>1, <3>2
  <2>6. CASE x \notin ids
    <3>1. Good(q, n + 1)
      BY <2>1, <2>3, <2>6
    <3> HIDE DEF Good
    <3> QED
      BY <2>2, <2>6, <3>1 DEF AmongRound
  <2> QED
    BY <2>5, <2>6
<1> HIDE DEF P
<1>9. N \in P
  <2>1. 0 .. N \subseteq P
    BY <1>2, <1>7, <1>8, UpTo
  <2> QED
    BY <1>2, <2>1
<1>10. Good(Among(list, ids), N) /\ Before(N) = ToSet(list)
    BY <1>1, <1>2, <1>9 DEF P, ToSet
<1> QED
    BY <1>10
-----------------------------------------------------------------------------
(* The invariant of the game.  Nothing of it is inductive alone: that each *)
(* achievement keeps the session that won it rests on the ids of sessions  *)
(* only growing, and that no news is told twice on what was told and what  *)
(* waits being the set that check looks at.                                *)

Ids == ToSet(Definitions)

\* Every point is announced or waits to be; of the uptime, what is not yet
\* a minute is in the accumulator.
PointsAddUp ==
  /\ {xp, acc, elapsed, delivered} \subseteq Nat /\ earned \in Seq(Nat)
  /\ xp = delivered + Total(earned)
  /\ acc = elapsed % 60 /\ xp >= elapsed \div 60

NewsAddUp ==
  /\ told \in Seq(Ids) /\ news \in Seq(Ids)
  /\ IsInjective(told \o news) /\ ToSet(told \o news) = unlocked

\* The tables after k sessions, of which only the last can be running.
TablesAddUp(k) ==
  /\ session \in {0, k} /\ DOMAIN sessions = 1 .. k
  /\ \A id \in 1 .. k : sessions[id].xp \in Nat /\ sessions[id].rank = Rank(sessions[id].xp)
  /\ won \subseteq Ids \X (1 .. k)
  /\ DOMAIN achievements = {w[1] : w \in won}
  /\ \A w \in won : achievements[w[1]] <= w[2] /\ <<w[1], achievements[w[1]]>> \in won

Alive == [hp : 0 .. Full, busy : BOOLEAN, mem : Memory, zombie : BOOLEAN]

HealthInRange == crew \in [DOMAIN crew -> Alive]

GameInv ==
  /\ PointsAddUp /\ NewsAddUp /\ HealthInRange
  /\ \E k \in Nat : TablesAddUp(k)

LEMMA Regrouped == \A s, t, u \in Seq(Ids) : (s \o t) \o u = s \o (t \o u)
OBVIOUS

LEMMA TypeOfDefinitions ==
  /\ Definitions \in Seq(Ids) /\ IsInjective(Definitions)
<1>1. Len(Definitions) = 8 /\ DOMAIN Definitions = 1 .. 8
    BY DEF Definitions
<1>2. \A i \in 1 .. 8 : Definitions[i] \in Ids
    BY <1>1 DEF Ids, ToSet
<1>3. Definitions = [i \in 1 .. 8 |-> Definitions[i]]
    BY DEF Definitions
<1>4. Definitions \in Seq(Ids)
    BY <1>1, <1>2, <1>3
<1>5. \A i, j \in 1 .. 8 : i < j => Definitions[i] # Definitions[j]
    BY SMTT(60) DEF Definitions
<1>6. \A i, j \in 1 .. 8 : Definitions[i] = Definitions[j] => i = j
    BY <1>5
<1> QED
    BY <1>1, <1>4, <1>6 DEF IsInjective

\* Starts agree with everything, and a program that starts again finds its
\* tables, but no point, no news and no uptime.
LEMMA NothingAddsUp ==
  ASSUME xp = 0, acc = 0, elapsed = 0, delivered = 0, earned = <<>>,
         told = <<>>, news = <<>>, unlocked = {}
  PROVE  PointsAddUp /\ NewsAddUp
<1>1. <<>> \in Seq(Nat) /\ <<>> \in Seq(Ids) /\ <<>> \o <<>> = <<>> /\ DOMAIN <<>> = {}
    OBVIOUS
<1>2. ToSet(<<>>) = {} /\ IsInjective(<<>>)
    BY <1>1 DEF ToSet, IsInjective
<1>3. PointsAddUp
    BY <1>1, TotalOfNone DEF PointsAddUp
<1> QED
    BY <1>1, <1>2, <1>3 DEF NewsAddUp

LEMMA GameInitKeeps == GameInit => GameInv
<1> SUFFICES ASSUME GameInit PROVE GameInv
    OBVIOUS
<1>1. PointsAddUp /\ NewsAddUp
    BY NothingAddsUp DEF GameInit
<1>2. HealthInRange
    BY DEF GameInit, HealthInRange, None
<1>3. TablesAddUp(0)
    BY DEF GameInit, TablesAddUp, None
<1> QED
    BY <1>1, <1>2, <1>3 DEF GameInv

\* What is added to the points is added to what waits to be announced.
LEMMA AddXpAddsUp ==
  ASSUME PointsAddUp, NEW amounts \in Seq(Nat), AddXp(amounts)
  PROVE  /\ earned' \in Seq(Nat) /\ Total(amounts) \in Nat
         /\ xp' = xp + Total(amounts)
         /\ xp' = delivered + Total(earned')
<1>1. earned \in Seq(Nat) /\ delivered \in Nat /\ xp = delivered + Total(earned)
    BY DEF PointsAddUp
<1>2. xp' = xp + Total(amounts) /\ earned' = earned \o amounts
    BY DEF AddXp
<1>3. earned' \in Seq(Nat)
    BY <1>1, <1>2
<1>4. Total(earned) \in Nat /\ Total(amounts) \in Nat
      /\ Total(earned') = Total(earned) + Total(amounts)
    BY <1>1, <1>2, TotalOfBoth
<1> QED
    BY <1>1, <1>2, <1>3, <1>4

LEMMA TickAddsUp ==
  ASSUME PointsAddUp, Tick
  PROVE  PointsAddUp'
<1>1. /\ acc \in Nat /\ elapsed \in Nat /\ xp \in Nat /\ delivered \in Nat
      /\ acc = elapsed % 60 /\ xp >= elapsed \div 60
    BY DEF PointsAddUp
<1>2. PICK dt \in Seconds :
        /\ elapsed' = elapsed + dt
        /\ AddXp([i \in 1 .. (acc + dt) \div 60 |-> 1])
        /\ acc' = Remainder(acc + dt)
    BY DEF Tick
<1>3. dt \in Nat
    BY GamificationAssumption
<1> DEFINE minutes == (acc + dt) \div 60
           ones == [i \in 1 .. minutes |-> 1]
<1>4. minutes \in Nat
    BY <1>1, <1>3
<1>5. elapsed' \div 60 = elapsed \div 60 + minutes /\ elapsed' % 60 = (acc + dt) % 60
    BY <1>1, <1>2, <1>3
<1>6. acc' = elapsed' % 60 /\ acc' \in Nat /\ elapsed' \in Nat
    BY <1>1, <1>2, <1>3, <1>5 DEF Remainder
<1>7. AddXp(ones)
    BY <1>2
<1> HIDE DEF minutes
<1>8. ones \in Seq(Nat) /\ Total(ones) = minutes
    BY <1>4, TotalOfOnes
<1> HIDE DEF ones
<1>9. earned' \in Seq(Nat) /\ xp' = xp + minutes /\ xp' = delivered + Total(earned')
    BY <1>7, <1>8, AddXpAddsUp
<1>10. delivered' = delivered
    BY DEF Tick
<1>11. elapsed \div 60 \in Nat
    BY <1>1
<1>12. xp' \in Nat /\ xp' >= elapsed' \div 60
    BY <1>1, <1>4, <1>5, <1>9, <1>11
<1> QED
    BY <1>1, <1>6, <1>9, <1>10, <1>12 DEF PointsAddUp

LEMMA EarnAddsUp ==
  ASSUME PointsAddUp, Earn
  PROVE  PointsAddUp'
<1>1. PICK deed \in Deeds : AddXp(<<Reward(deed)>>)
    BY DEF Earn
<1>2. Reward(deed) \in Nat
    BY DEF Reward
<1>3. <<Reward(deed)>> \in Seq(Nat)
    BY <1>2, TotalOfOne
<1> DEFINE one == <<Reward(deed)>>
<1>4. AddXp(one) /\ one \in Seq(Nat)
    BY <1>1, <1>3
<1> HIDE DEF one
<1>5. /\ earned' \in Seq(Nat) /\ Total(one) \in Nat
      /\ xp' = xp + Total(one) /\ xp' = delivered + Total(earned')
    BY <1>4, AddXpAddsUp
<1>6. acc' = acc /\ elapsed' = elapsed /\ delivered' = delivered
    BY DEF Earn, history
<1>7. /\ {xp, acc, elapsed, delivered} \subseteq Nat
      /\ acc = elapsed % 60 /\ xp >= elapsed \div 60 /\ elapsed \div 60 \in Nat
    BY DEF PointsAddUp
<1> DEFINE gained == Total(one)
           minutes == elapsed \div 60
<1>8. /\ gained \in Nat /\ xp \in Nat /\ minutes \in Nat
      /\ xp' = xp + gained /\ xp >= minutes
    BY <1>5, <1>7
<1> HIDE DEF gained, minutes
<1>9. xp' \in Nat /\ xp' >= minutes
    BY <1>8
<1> QED
    BY <1>5, <1>6, <1>7, <1>9 DEF PointsAddUp, minutes

LEMMA DrainXpAddsUp ==
  ASSUME PointsAddUp, DrainXp
  PROVE  PointsAddUp'
<1>1. /\ earned' = <<>> /\ delivered' = delivered + Total(earned)
      /\ xp' = xp /\ acc' = acc /\ elapsed' = elapsed
    BY DEF DrainXp
<1>2. /\ {xp, acc, elapsed, delivered} \subseteq Nat /\ earned \in Seq(Nat)
      /\ xp = delivered + Total(earned)
      /\ acc = elapsed % 60 /\ xp >= elapsed \div 60
    BY DEF PointsAddUp
<1>3. <<>> \in Seq(Nat)
    OBVIOUS
<1>4. delivered' = xp
    BY <1>1, <1>2
<1>5. xp' = delivered' + Total(earned')
    BY <1>1, <1>2, <1>4, TotalOfNone
<1> QED
    BY <1>1, <1>2, <1>3, <1>4, <1>5 DEF PointsAddUp

\* check announces what it unlocks, once, and the first session keeps it.
LEMMA CheckAddsUp ==
  ASSUME NewsAddUp, NEW k \in Nat, TablesAddUp(k), Check
  PROVE  NewsAddUp' /\ TablesAddUp(k)'
<1>1. PICK s \in GameStates :
        LET newly == Among(Definitions, {id \in ToSet(Definitions) : id \notin unlocked /\ Met(id, s)})
        IN  /\ unlocked' = unlocked \cup ToSet(newly)
            /\ news' = news \o newly
            /\ achievements' = [id \in DOMAIN achievements \cup ToSet(newly) |->
                                  IF id \in DOMAIN achievements THEN achievements[id] ELSE session]
            /\ won' = won \cup (ToSet(newly) \X {session})
    BY DEF Check
<1> DEFINE due == {id \in ToSet(Definitions) : id \notin unlocked /\ Met(id, s)}
           newly == Among(Definitions, due)
           new == ToSet(newly)
<1>2. /\ session # 0 /\ session' = session /\ sessions' = sessions /\ told' = told
    BY DEF Check
<1>3. /\ unlocked' = unlocked \cup new
      /\ news' = news \o newly
      /\ achievements' = [id \in DOMAIN achievements \cup new |->
                            IF id \in DOMAIN achievements THEN achievements[id] ELSE session]
      /\ won' = won \cup (new \X {session})
    BY <1>1, Zenon
<1>4. due \subseteq Ids /\ due \cap unlocked = {}
    BY DEF Ids
<1> HIDE DEF due
<1>5. newly \in Seq(Ids) /\ new = ToSet(Definitions) \cap due /\ IsInjective(newly)
    BY TypeOfDefinitions, AmongIs
<1>6. new \subseteq Ids /\ new \cap unlocked = {}
    BY <1>4, <1>5
<1> HIDE DEF newly, new
<1>7. NewsAddUp'
  <2>1. /\ told \in Seq(Ids) /\ news \in Seq(Ids)
        /\ IsInjective(told \o news) /\ ToSet(told \o news) = unlocked
    BY DEF NewsAddUp
  <2>2. told \o news \in Seq(Ids) /\ news \o newly \in Seq(Ids)
    BY <1>5, <2>1, ConcatProperties
  <2>3. told' \o news' = (told \o news) \o newly
    <3>1. told \in Seq(Ids) /\ news \in Seq(Ids) /\ newly \in Seq(Ids)
      BY <1>5, <2>1
    <3>2. (told \o news) \o newly = told \o (news \o newly)
      BY <3>1, Regrouped, Zenon
    <3> QED
      BY <1>2, <1>3, <3>2
  <2>4. ToSet(told \o news) \cap ToSet(newly) = {}
    BY <1>6, <2>1 DEF new
  <2>5. /\ ToSet((told \o news) \o newly) = unlocked \cup new
        /\ IsInjective((told \o news) \o newly)
    <3> DEFINE all == told \o news
    <3>1. /\ all \in Seq(Ids) /\ newly \in Seq(Ids)
          /\ IsInjective(all) /\ IsInjective(newly)
          /\ ToSet(all) = unlocked /\ ToSet(all) \cap ToSet(newly) = {}
      BY <1>5, <2>1, <2>2, <2>4
    <3> HIDE DEF all
    <3>2. ToSet(all \o newly) = unlocked \cup ToSet(newly) /\ IsInjective(all \o newly)
      BY <3>1, Joined
    <3> QED
      BY <3>2 DEF all, new
  <2> QED
    BY <1>2, <1>3, <2>1, <2>2, <2>3, <2>5 DEF NewsAddUp
<1>8. TablesAddUp(k)'
  <2>1. /\ session = k /\ k \in 1 .. k /\ DOMAIN sessions = 1 .. k
        /\ won \subseteq Ids \X (1 .. k)
        /\ DOMAIN achievements = {w[1] : w \in won}
        /\ \A w \in won : achievements[w[1]] <= w[2] /\ <<w[1], achievements[w[1]]>> \in won
    BY <1>2 DEF TablesAddUp
  <2>2. won' \subseteq Ids \X (1 .. k)
    BY <1>3, <1>6, <2>1
  <2>3. DOMAIN achievements' = {w[1] : w \in won'}
    <3>1. DOMAIN achievements' = DOMAIN achievements \cup new
      BY <1>3
    <3>2. ASSUME NEW id \in {w[1] : w \in won'} PROVE id \in {w[1] : w \in won} \cup new
      <4>1. PICK w \in won' : w[1] = id
        OBVIOUS
      <4>2. w \in won \/ w \in new \X {session}
        BY <1>3
      <4> QED
        BY <4>1, <4>2
    <3>3. {w[1] : w \in won} \subseteq {w[1] : w \in won'}
      BY <1>3
    <3>4. ASSUME NEW id \in new PROVE id \in {w[1] : w \in won'}
      <4>1. <<id, session>> \in won' /\ <<id, session>>[1] = id
        BY <1>3
      <4> QED
        BY <4>1
    <3> QED
      BY <2>1, <3>1, <3>2, <3>3, <3>4
  <2>4. \A id \in DOMAIN achievements : achievements'[id] = achievements[id]
    BY <1>3
  <2>5. \A id \in new : id \notin DOMAIN achievements => achievements'[id] = session
    BY <1>3
  <2>6. ASSUME NEW w \in won' PROVE achievements'[w[1]] <= w[2] /\ <<w[1], achievements'[w[1]]>> \in won'
    <3>1. CASE w \in won
      <4>1. w[1] \in DOMAIN achievements
        BY <2>1, <3>1
      <4> QED
        BY <1>3, <2>1, <2>4, <3>1, <4>1
    <3>2. CASE w \in new \X {session}
      <4>1. w[1] \in new /\ w[2] = session
        BY <3>2
      <4>2. CASE w[1] \notin DOMAIN achievements
        <5>1. achievements'[w[1]] = session /\ <<w[1], session>> \in new \X {session}
          BY <2>5, <4>1, <4>2
        <5> QED
          BY <1>3, <2>1, <4>1, <5>1
      <4>3. CASE w[1] \in DOMAIN achievements
        <5>1. PICK v \in won : v[1] = w[1]
          BY <2>1, <4>3
        <5>2. v[2] \in 1 .. k /\ achievements[w[1]] <= v[2] /\ <<w[1], achievements[w[1]]>> \in won
          BY <2>1, <5>1
        <5>3. achievements[w[1]] \in 1 .. k
          BY <2>1, <5>2
        <5>4. achievements'[w[1]] = achievements[w[1]]
          BY <2>4, <4>3
        <5> QED
          BY <1>3, <2>1, <4>1, <5>2, <5>3, <5>4
      <4> QED
        BY <4>2, <4>3
    <3> QED
      BY <1>3, <3>1, <3>2
  <2> QED
    BY <1>2, <2>2, <2>3, <2>6 DEF TablesAddUp
<1> QED
    BY <1>7, <1>8

LEMMA DrainNewsAddsUp ==
  ASSUME NewsAddUp, DrainNews
  PROVE  NewsAddUp'
<1>1. news' = <<>> /\ told' = told \o news /\ unlocked' = unlocked
    BY DEF DrainNews
<1>2. told \in Seq(Ids) /\ news \in Seq(Ids)
    BY DEF NewsAddUp
<1>3. told' \in Seq(Ids) /\ news' \in Seq(Ids) /\ told' \o news' = told \o news
    BY <1>1, <1>2
<1> QED
    BY <1>1, <1>3 DEF NewsAddUp

\* The three operations that write the row of a session.
LEMMA SessionsAddUp ==
  ASSUME PointsAddUp, NEW k \in Nat, TablesAddUp(k)
  PROVE  /\ StartSession => TablesAddUp(k + 1)'
         /\ EndSession \/ SaveSession => TablesAddUp(k)'
<1>1. /\ session \in {0, k} /\ DOMAIN sessions = 1 .. k
      /\ \A id \in 1 .. k : sessions[id].xp \in Nat /\ sessions[id].rank = Rank(sessions[id].xp)
      /\ won \subseteq Ids \X (1 .. k)
      /\ DOMAIN achievements = {w[1] : w \in won}
      /\ \A w \in won : achievements[w[1]] <= w[2] /\ <<w[1], achievements[w[1]]>> \in won
    BY DEF TablesAddUp
<1>2. ASSUME StartSession PROVE TablesAddUp(k + 1)'
  <2>1. Cardinality(DOMAIN sessions) = k
    BY <1>1, FS_Interval
  <2> DEFINE row == [ended |-> FALSE, xp |-> 0, rank |-> "Novice", uptime |-> 0]
  <2>2. /\ session' = k + 1 /\ sessions' = With(sessions, k + 1, row)
        /\ achievements' = achievements /\ won' = won
    BY <1>2, <2>1 DEF StartSession, history
  <2>3. row.xp = 0 /\ row.rank = Rank(0)
    BY DEF Rank
  <2> HIDE DEF row
  <2>4. (1 .. k) \cup {k + 1} = 1 .. k + 1
    OBVIOUS
  <2>5. sessions' = [i \in 1 .. k + 1 |-> IF i = k + 1 THEN row ELSE sessions[i]]
    BY <1>1, <2>2, <2>4 DEF With
  <2>6. DOMAIN sessions' = 1 .. k + 1
        /\ \A id \in 1 .. k + 1 : sessions'[id].xp \in Nat /\ sessions'[id].rank = Rank(sessions'[id].xp)
    BY <1>1, <2>3, <2>4, <2>5
  <2>7. won' \subseteq Ids \X (1 .. k + 1)
    BY <1>1, <2>2, <2>4
  <2> QED
    BY <1>1, <2>2, <2>6, <2>7 DEF TablesAddUp
<1>3. ASSUME NEW ended \in BOOLEAN, session # 0, sessions' = [sessions EXCEPT ![session] = Row(ended)],
             session' = session, achievements' = achievements, won' = won
      PROVE  TablesAddUp(k)'
  <2>1. Row(ended).xp = xp /\ Row(ended).rank = Rank(xp) /\ xp \in Nat
    BY DEF Row, PointsAddUp
  <2>2. DOMAIN sessions' = 1 .. k
        /\ \A id \in 1 .. k : sessions'[id] = IF id = session THEN Row(ended) ELSE sessions[id]
    BY <1>1, <1>3
  <2>3. \A id \in 1 .. k : sessions'[id].xp \in Nat /\ sessions'[id].rank = Rank(sessions'[id].xp)
    BY <1>1, <2>1, <2>2
  <2> QED
    BY <1>1, <1>3, <2>2, <2>3 DEF TablesAddUp
<1>4. ASSUME EndSession PROVE TablesAddUp(k)'
    BY <1>3, <1>4 DEF EndSession, history
<1>5. ASSUME SaveSession PROVE TablesAddUp(k)'
    BY <1>3, <1>5 DEF SaveSession, history
<1> QED
    BY <1>2, <1>4, <1>5

\* A change of health stays between nothing and full.
LEMMA HpStaysInRange ==
  ASSUME NEW now, now.hp \in 0 .. Full, NEW then, NEW dt \in Nat
  PROVE  now.hp + HpDelta(now, then, dt) \in 0 .. Full
<1>1. now.hp \in Int /\ 0 <= now.hp /\ now.hp <= 200 /\ Full = 200
    BY DEF Full
<1> DEFINE loss == (IF now.busy THEN 4 * dt ELSE 0) + (IF Grows(now, then, dt) THEN 2 * dt ELSE 0)
           hp == now.hp + (IF loss > 0 THEN -loss ELSE dt)
<1>2. loss \in Nat
    OBVIOUS
<1>3. HpDelta(now, then, dt) =
        IF now.zombie THEN -now.hp
        ELSE IF hp > Full THEN Full - now.hp ELSE IF hp < 0 THEN -now.hp ELSE hp - now.hp
    BY DEF HpDelta
<1> HIDE DEF loss
<1>4. hp \in Int
    BY <1>1, <1>2
<1> HIDE DEF hp
<1>5. CASE now.zombie
    BY <1>1, <1>3, <1>5
<1>6. CASE ~now.zombie /\ hp > Full
    BY <1>1, <1>3, <1>4, <1>6
<1>7. CASE ~now.zombie /\ ~(hp > Full) /\ hp < 0
    BY <1>1, <1>3, <1>4, <1>7
<1>8. CASE ~now.zombie /\ ~(hp > Full) /\ ~(hp < 0)
    BY <1>1, <1>3, <1>4, <1>8
<1> QED
    BY <1>5, <1>6, <1>7, <1>8

LEMMA HealthStaysInRange ==
  ASSUME HealthInRange, HealthNext
  PROVE  HealthInRange'
<1>1. CASE ApplyToGraph
  <2>1. PICK dt \in Seconds :
          crew' = [p \in DOMAIN crew |->
                     IF p \in DOMAIN before
                     THEN [crew[p] EXCEPT !.hp = @ + HpDelta(crew[p], before[p], dt)]
                     ELSE crew[p]]
    BY <1>1 DEF ApplyToGraph
  <2>2. dt \in Nat
    BY GamificationAssumption
  <2>3. ASSUME NEW p \in DOMAIN crew PROVE crew'[p] \in Alive
    <3>1. crew[p] \in Alive
      BY DEF HealthInRange
    <3>2. crew[p].hp \in 0 .. Full
      BY <3>1 DEF Alive
    <3>3. crew[p].hp + HpDelta(crew[p], before[p], dt) \in 0 .. Full
      BY <2>2, <3>2, HpStaysInRange
    <3> DEFINE hp == crew[p].hp + HpDelta(crew[p], before[p], dt)
    <3>4. crew'[p] = [crew[p] EXCEPT !.hp = hp] \/ crew'[p] = crew[p]
      BY <2>1
    <3>5. hp \in 0 .. Full
      BY <3>3
    <3> HIDE DEF hp
    <3> QED
      BY <3>1, <3>4, <3>5 DEF Alive
  <2>4. crew' \in [DOMAIN crew -> Alive]
    BY <2>1, <2>3
  <2> QED
    BY <2>4 DEF HealthInRange
<1>2. CASE ProcessesRun
  <2>1. PICK alive \in SUBSET Watched : \E next \in [alive -> Fresh] :
          crew' = [p \in alive |->
                     IF p \in DOMAIN crew THEN [next[p] EXCEPT !.hp = crew[p].hp] ELSE next[p]]
    BY <1>2 DEF ProcessesRun
  <2>2. PICK next \in [alive -> Fresh] :
          crew' = [p \in alive |->
                     IF p \in DOMAIN crew THEN [next[p] EXCEPT !.hp = crew[p].hp] ELSE next[p]]
    BY <2>1
  <2>3. Fresh \subseteq Alive
    BY DEF Fresh, Alive, Full
  <2>4. ASSUME NEW p \in alive PROVE crew'[p] \in Alive
    <3>1. next[p] \in Alive
      BY <2>3
    <3>2. CASE p \in DOMAIN crew
      <4>1. crew[p].hp \in 0 .. Full
        BY <3>2 DEF HealthInRange, Alive
      <4>2. crew'[p] = [next[p] EXCEPT !.hp = crew[p].hp]
        BY <2>2, <3>2
      <4> QED
        BY <3>1, <4>1, <4>2 DEF Alive
    <3>3. CASE p \notin DOMAIN crew
      BY <2>2, <3>1, <3>3
    <3> QED
      BY <3>2, <3>3
  <2>5. crew' \in [alive -> Alive]
    BY <2>2, <2>4
  <2> QED
    BY <2>5 DEF HealthInRange
<1> QED
    BY <1>1, <1>2 DEF HealthNext

LEMMA GameInvKeeps == GameInv /\ [HealthNext \/ GameNext]_gameVars => GameInv'
<1> SUFFICES ASSUME GameInv, [HealthNext \/ GameNext]_gameVars PROVE GameInv'
    OBVIOUS
<1>1. PointsAddUp /\ NewsAddUp /\ HealthInRange
    BY DEF GameInv
<1>2. PICK k \in Nat : TablesAddUp(k)
    BY DEF GameInv
<1> DEFINE ofPoints == <<xp, acc, earned, elapsed, delivered>>
           ofNews == <<told, news, unlocked>>
           ofTables == <<session, sessions, achievements, won>>
<1>3. UNCHANGED ofPoints => PointsAddUp'
    BY <1>1 DEF PointsAddUp
<1>4. UNCHANGED ofNews => NewsAddUp'
    BY <1>1 DEF NewsAddUp
<1>5. UNCHANGED ofTables => TablesAddUp(k)'
    BY <1>2 DEF TablesAddUp
<1>6. UNCHANGED crew => HealthInRange'
    BY <1>1 DEF HealthInRange
<1>7. CASE HealthNext
  <2>1. UNCHANGED <<ofPoints, ofNews, ofTables>>
    BY <1>7 DEF HealthNext, ApplyToGraph, ProcessesRun, trackers, tables, history
  <2>2. HealthInRange'
    BY <1>1, <1>7, HealthStaysInRange
  <2> QED
    BY <1>3, <1>4, <1>5, <2>1, <2>2 DEF GameInv
<1>8. CASE Tick
  <2>1. UNCHANGED <<ofNews, ofTables, crew>>
    BY <1>8 DEF Tick, health, tables
  <2>2. PointsAddUp'
    BY <1>1, <1>8, TickAddsUp
  <2> QED
    BY <1>4, <1>5, <1>6, <2>1, <2>2 DEF GameInv
<1>9. CASE Earn
  <2>1. UNCHANGED <<ofNews, ofTables, crew>>
    BY <1>9 DEF Earn, health, tables, history
  <2>2. PointsAddUp'
    BY <1>1, <1>9, EarnAddsUp
  <2> QED
    BY <1>4, <1>5, <1>6, <2>1, <2>2 DEF GameInv
<1>10. CASE DrainXp
  <2>1. UNCHANGED <<ofNews, ofTables, crew>>
    BY <1>10 DEF DrainXp, health, tables
  <2>2. PointsAddUp'
    BY <1>1, <1>10, DrainXpAddsUp
  <2> QED
    BY <1>4, <1>5, <1>6, <2>1, <2>2 DEF GameInv
<1>11. CASE Check
  <2>1. UNCHANGED <<ofPoints, crew>>
    BY <1>11 DEF Check, health
  <2>2. NewsAddUp' /\ TablesAddUp(k)'
    BY <1>1, <1>2, <1>11, CheckAddsUp
  <2> QED
    BY <1>3, <1>6, <2>1, <2>2 DEF GameInv
<1>12. CASE DrainNews
  <2>1. UNCHANGED <<ofPoints, ofTables, crew>>
    BY <1>12 DEF DrainNews, health, tables
  <2>2. NewsAddUp'
    BY <1>1, <1>12, DrainNewsAddsUp
  <2> QED
    BY <1>3, <1>5, <1>6, <2>1, <2>2 DEF GameInv
<1>13. CASE StartSession
  <2>1. UNCHANGED <<ofPoints, ofNews, crew>>
    BY <1>13 DEF StartSession, health, trackers, history
  <2>2. TablesAddUp(k + 1)' /\ k + 1 \in Nat
    BY <1>1, <1>2, <1>13, SessionsAddUp
  <2> QED
    BY <1>3, <1>4, <1>6, <2>1, <2>2 DEF GameInv
<1>14. CASE EndSession \/ SaveSession
  <2>1. UNCHANGED <<ofPoints, ofNews, crew>>
    BY <1>14 DEF EndSession, SaveSession, health, trackers, history
  <2>2. TablesAddUp(k)'
    BY <1>1, <1>2, <1>14, SessionsAddUp
  <2> QED
    BY <1>3, <1>4, <1>6, <2>1, <2>2 DEF GameInv
<1>15. CASE LogAction
  <2>1. UNCHANGED <<ofPoints, ofNews, ofTables, crew>>
    BY <1>15 DEF LogAction, health, trackers, history
  <2> QED
    BY <1>3, <1>4, <1>5, <1>6, <2>1 DEF GameInv
<1>16. CASE Restart
  <2>1. UNCHANGED <<crew, sessions, achievements, won>> /\ session' = 0
    BY <1>16 DEF Restart, health, tables
  <2>2. PointsAddUp' /\ NewsAddUp'
    <3>1. <<>> \in Seq(Nat) /\ <<>> \in Seq(Ids) /\ <<>> \o <<>> = <<>> /\ DOMAIN <<>> = {}
      OBVIOUS
    <3>2. ToSet(<<>>) = {} /\ IsInjective(<<>>)
      BY <3>1 DEF ToSet, IsInjective
    <3>3. PointsAddUp'
      BY <1>16, <3>1, TotalOfNone DEF Restart, PointsAddUp
    <3> QED
      BY <1>16, <3>1, <3>2, <3>3 DEF Restart, NewsAddUp
  <2>3. TablesAddUp(k)'
    BY <1>2, <2>1 DEF TablesAddUp
  <2> QED
    BY <1>6, <2>1, <2>2, <2>3 DEF GameInv
<1>17. CASE UNCHANGED gameVars
  <2>1. UNCHANGED <<ofPoints, ofNews, ofTables, crew>>
    BY <1>17 DEF gameVars, health, trackers, tables, history
  <2> QED
    BY <1>3, <1>4, <1>5, <1>6, <2>1 DEF GameInv
<1> QED
    BY <1>7, <1>8, <1>9, <1>10, <1>11, <1>12, <1>13, <1>14, <1>15, <1>16, <1>17 DEF GameNext

\* A list of all the ids without a repetition misses none.
LEMMA OrderIsComplete ==
  ASSUME NEW k \in Nat, NEW order \in [1 .. k -> 1 .. k],
         \A i, j \in 1 .. k : i # j => order[i] # order[j], NEW id \in 1 .. k
  PROVE  \E i \in 1 .. k : order[i] = id
<1> SUFFICES ASSUME \A i \in 1 .. k : order[i] # id PROVE FALSE
    OBVIOUS
<1> DEFINE All == 1 .. k
           Others == All \ {id}
<1>1. IsFiniteSet(All) /\ Cardinality(All) = k
    BY FS_Interval
<1>2. IsFiniteSet(Others) /\ Cardinality(Others) = k - 1
    BY <1>1, FS_RemoveElement
<1>3. order \in [All -> Others]
    OBVIOUS
<1>4. Cardinality(Others) < Cardinality(All)
    BY <1>1, <1>2
<1> HIDE DEF All, Others
<1>5. \A f \in [All -> Others] : \E i, j \in All : i # j /\ f[i] = f[j]
    BY <1>1, <1>2, <1>4, FS_PigeonHole, Zenon
<1>6. PICK i \in All, j \in All : i # j /\ order[i] = order[j]
    BY <1>3, <1>5, Zenon
<1> QED
    BY <1>6 DEF All

LEMMA FirstIsBest ==
  ASSUME NEW k \in Nat, TablesAddUp(k), NEW order \in Rankings, NEW id \in DOMAIN sessions
  PROVE  sessions[id].xp <= sessions[order[1]].xp
<1>1. DOMAIN sessions = 1 .. k /\ \A i \in 1 .. k : sessions[i].xp \in Nat
    BY DEF TablesAddUp
<1>2. Cardinality(DOMAIN sessions) = k
    BY <1>1, FS_Interval
<1>3. /\ order \in SetToSeqs(DOMAIN sessions)
      /\ \A i, j \in DOMAIN order : i < j => sessions[order[i]].xp >= sessions[order[j]].xp
    BY DEF Rankings
<1>4. order \in [1 .. k -> 1 .. k] /\ \A i, j \in 1 .. k : i # j => order[i] # order[j]
    BY <1>1, <1>2, <1>3 DEF SetToSeqs
<1>5. PICK i \in 1 .. k : order[i] = id
  <2>1. id \in 1 .. k
    BY <1>1
  <2> QED
    BY <1>4, <2>1, OrderIsComplete, Zenon
<1>6. 1 \in DOMAIN order /\ i \in DOMAIN order /\ (i = 1 \/ 1 < i)
    BY <1>4, <1>5
<1>7. sessions[id].xp \in Nat /\ sessions[order[1]].xp \in Nat
    BY <1>1, <1>4, <1>6
<1> QED
    BY <1>3, <1>5, <1>6, <1>7

\* Whatever is earned, won, saved and restarted, in any order of the calls:
\* every point is announced once, every full minute is paid, every
\* achievement is announced once in a session and keeps its winner, the best
\* session is ranked first and no health leaves its range.
THEOREM GameAlwaysAddsUp == GameSpec => []GameAddsUp
<1>1. GameInv => GameAddsUp
  <2> SUFFICES ASSUME GameInv PROVE GameAddsUp
    OBVIOUS
  <2>1. PointsAddUp /\ NewsAddUp /\ HealthInRange
    BY DEF GameInv
  <2>2. PICK k \in Nat : TablesAddUp(k)
    BY DEF GameInv
  <2>3. \A order \in Rankings, id \in DOMAIN sessions :
          sessions[id].xp <= sessions[order[1]].xp /\ sessions[id].rank = Rank(sessions[id].xp)
    BY <2>2, FirstIsBest DEF TablesAddUp
  <2>4. \A p \in DOMAIN crew : crew[p].hp \in 0 .. Full
    BY <2>1 DEF HealthInRange, Alive
  <2> QED
    BY <2>1, <2>2, <2>3, <2>4 DEF GameAddsUp, PointsAddUp, NewsAddUp, TablesAddUp
<1> QED
    BY <1>1, GameInitKeeps, GameInvKeeps, PTL DEF GameSpec
=============================================================================
