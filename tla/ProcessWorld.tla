---------------------------- MODULE ProcessWorld ----------------------------
(***************************************************************************)
(* What a reader of the world graph relies on, with no node indexes: a map *)
(* from pids to processes and a set of connections between processes that  *)
(* are both there.                                                         *)
(***************************************************************************)

CONSTANTS Pids, Data, Labels

VARIABLES
  procs,                \* a function from the pids that exist to their data
  links                 \* the connections: [from, to, label], from and to pids

worldVars == <<procs, links>>

Connections == [from : Pids, to : Pids, label : Labels]

WorldTypeOK ==
  /\ procs \in UNION {[ps -> Data] : ps \in SUBSET Pids}
  /\ links \subseteq Connections

WorldInit == procs = [p \in {} |-> {}] /\ links = {}

\* The connections of ls whose two ends are in ps.
Within(ls, ps) == {c \in ls : c.from \in ps /\ c.to \in ps}

Put(p, d) ==
  /\ procs' = [q \in DOMAIN procs \cup {p} |-> IF q = p THEN d ELSE procs[q]]
  /\ UNCHANGED links

Delete(p) ==
  /\ p \in DOMAIN procs
  /\ procs' = [q \in DOMAIN procs \ {p} |-> procs[q]]
  /\ links' = Within(links, DOMAIN procs \ {p})

Connect(c) ==
  /\ c.from \in DOMAIN procs /\ c.to \in DOMAIN procs
  /\ links' = links \cup {c}
  /\ UNCHANGED procs

Replace(ps, cs) ==
  /\ procs' = ps
  /\ links' = Within(cs, DOMAIN ps)

WorldNext ==
  \/ \E p \in Pids, d \in Data : Put(p, d)
  \/ \E p \in Pids : Delete(p)
  \/ \E c \in Connections : Connect(c)
  \/ \E ps \in UNION {[qs -> Data] : qs \in SUBSET Pids}, cs \in SUBSET Connections :
       Replace(ps, cs)

WorldSpec == WorldInit /\ [][WorldNext]_worldVars
=============================================================================
