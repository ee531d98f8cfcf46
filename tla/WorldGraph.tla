----------------------------- MODULE WorldGraph -----------------------------
(***************************************************************************)
(* WorldGraph of aether-core/src/graph.rs: a petgraph StableGraph of       *)
(* processes and connections, and an index from pids to its nodes.  Every  *)
(* method runs under the lock that the program keeps the graph in, so each *)
(* one is an action.                                                       *)
(*                                                                         *)
(* A node of the stable graph has an index that a later node may take over *)
(* once it is removed; which free index a new node gets is petgraph's      *)
(* choice.  A connection is told from others between the same nodes by its *)
(* label, which stands for the fields of a NetworkEdge.                    *)
(***************************************************************************)
EXTENDS Naturals, FiniteSets

CONSTANTS
  Pids,
  Data,                 \* what a ProcessNode says apart from its pid
  Labels,               \* what a NetworkEdge says apart from its pids
  Nodes                 \* the node indexes

VARIABLES
  node,                 \* the graph's nodes: index -> [pid, data]
  pidIndex,             \* pid_index: pid -> index
  edges                 \* the graph's edges: [from, to, label], from and to indexes

vars == <<node, pidIndex, edges>>

Processes == [pid : Pids, data : Data]

\* What a NetworkEdge of a snapshot names; the destination may be outside.
Connections == [from : Pids, to : Pids, label : Labels]

Init ==
  /\ node = [n \in {} |-> {}]
  /\ pidIndex = [p \in {} |-> {}]
  /\ edges = {}
-----------------------------------------------------------------------------
\* Mutant: a known pid gets a new node as well, and the index leads to that one.
AddDuplicates(p, d) ==
  /\ \E new \in Nodes \ DOMAIN node :
       /\ node' = [n \in DOMAIN node \cup {new} |->
                     IF n = new THEN [pid |-> p, data |-> d] ELSE node[n]]
       /\ pidIndex' = [q \in DOMAIN pidIndex \cup {p} |-> IF q = p THEN new ELSE pidIndex[q]]
  /\ UNCHANGED edges

\* The node of a known pid is overwritten in place, which is all that
\* update_process and a write through find_by_pid_mut can do; a new pid gets a
\* new node.
AddProcess(p, d) ==
  /\ IF p \in DOMAIN pidIndex
     THEN /\ node' = [node EXCEPT ![pidIndex[p]] = [pid |-> p, data |-> d]]
          /\ UNCHANGED pidIndex
     ELSE \E new \in Nodes \ DOMAIN node :
            /\ node' = [n \in DOMAIN node \cup {new} |->
                          IF n = new THEN [pid |-> p, data |-> d] ELSE node[n]]
            /\ pidIndex' = [q \in DOMAIN pidIndex \cup {p} |->
                              IF q = p THEN new ELSE pidIndex[q]]
  /\ UNCHANGED edges

\* The node goes with the edges at it.
RemoveProcess(p) ==
  /\ p \in DOMAIN pidIndex
  /\ LET gone == pidIndex[p]
     IN  /\ node' = [n \in DOMAIN node \ {gone} |-> node[n]]
         /\ edges' = {e \in edges : e.from # gone /\ e.to # gone}
  /\ pidIndex' = [q \in DOMAIN pidIndex \ {p} |-> pidIndex[q]]

AddConnection(c) ==
  /\ c.from \in DOMAIN pidIndex /\ c.to \in DOMAIN pidIndex
  /\ edges' = edges \cup {[from |-> pidIndex[c.from], to |-> pidIndex[c.to],
                           label |-> c.label]}
  /\ UNCHANGED <<node, pidIndex>>

\* Mutant: the graph is rebuilt from the snapshot.
Labelled(index, procs) ==
  [n \in {index[p] : p \in DOMAIN procs} |->
     LET p == CHOOSE q \in DOMAIN procs : index[q] = n
     IN  [pid |-> p, data |-> procs[p]]]

ApplyRebuilds(procs, connections) ==
  /\ \E index \in [DOMAIN procs -> Nodes] :
       /\ \A p, q \in DOMAIN procs : index[p] = index[q] => p = q
       /\ pidIndex' = index
  /\ node' = Labelled(pidIndex', procs)
  /\ edges' = {}

\* The processes that are not in the snapshot lose their nodes, the others
\* keep theirs with the snapshot's data, the new ones get free nodes; all
\* edges are replaced by the snapshot's edges between processes that it has.
ApplySnapshot(procs, connections) ==
  LET kept == DOMAIN procs \cap DOMAIN pidIndex
  IN  /\ \E index \in [DOMAIN procs -> Nodes] :
           /\ \A p \in kept : index[p] = pidIndex[p]
           /\ \A p, q \in DOMAIN procs : index[p] = index[q] => p = q
           /\ pidIndex' = index
      /\ node' = [n \in {pidIndex'[p] : p \in DOMAIN procs} |->
                    LET p == CHOOSE q \in DOMAIN procs : pidIndex'[q] = n
                    IN  [pid |-> p, data |-> procs[p]]]
      /\ edges' = {[from |-> pidIndex'[c.from], to |-> pidIndex'[c.to], label |-> c.label] :
                     c \in {d \in connections : d.from \in DOMAIN procs /\ d.to \in DOMAIN procs}}

Snapshots == UNION {[ps -> Data] : ps \in SUBSET Pids}

Next ==
  \/ \E p \in Pids, d \in Data : AddProcess(p, d)
  \/ \E p \in Pids : RemoveProcess(p)
  \/ \E c \in Connections : AddConnection(c)
  \/ \E procs \in Snapshots, cs \in SUBSET Connections : ApplySnapshot(procs, cs)

Spec == Init /\ [][Next]_vars
-----------------------------------------------------------------------------
TypeOK ==
  /\ node \in UNION {[ns -> Processes] : ns \in SUBSET Nodes}
  /\ pidIndex \in UNION {[ps -> Nodes] : ps \in SUBSET Pids}
  /\ edges \subseteq [from : Nodes, to : Nodes, label : Labels]

\* The index and the graph agree, in both directions, whatever was added,
\* removed and replaced before: a pid leads to the node of that pid, and there
\* is no node that no pid leads to, which nothing could remove any more.
IndexAgrees ==
  /\ \A p \in DOMAIN pidIndex : /\ pidIndex[p] \in DOMAIN node
                                /\ node[pidIndex[p]].pid = p
  /\ \A n \in DOMAIN node : /\ node[n].pid \in DOMAIN pidIndex
                            /\ pidIndex[node[n].pid] = n

\* No connection hangs from a node that was removed, so none can come to be
\* the connection of the process that takes the node's index over.
NoDanglingEdge ==
  \A e \in edges : e.from \in DOMAIN node /\ e.to \in DOMAIN node

\* "Node indices remain valid after removal": a process that stays keeps its
\* node, whatever happens to the others.
IndexIsStable ==
  [][\A p \in DOMAIN pidIndex \cap DOMAIN pidIndex' : pidIndex'[p] = pidIndex[p]]_vars

World == INSTANCE ProcessWorld WITH
  procs <- [p \in DOMAIN pidIndex |-> node[pidIndex[p]].data],
  links <- {[from |-> node[e.from].pid, to |-> node[e.to].pid, label |-> e.label] : e \in edges}

\* The graph seen through its index is the map and the set of connections
\* that its readers take it for.
ImplementsProcessWorld == World!WorldSpec
=============================================================================
