---------------------------- MODULE MCWorldGraph ----------------------------
(***************************************************************************)
(* The graph with two pids and one more node index than pids, so that a    *)
(* process can come back under another index.  In the behaviours of the    *)
(* other parts the game runs, which reads no world but its own.            *)
(***************************************************************************)
EXTENDS WorldGraph, Gamification

CONSTANTS p1, p2, d1, d2, x1

MCPids == {p1, p2}
MCData == {d1, d2}
MCLabels == {x1}
MCNodes == 1 .. 3

\* Just below every threshold and just above.
Below == [kills |-> 0, uptimeHours |-> 24, dpiAnalyses |-> 100, zombieKills |-> 50,
          approvals |-> 100, resolved |-> 0, criticalResolved |-> 9, withoutCritical |-> 3599]
Above == [k \in DOMAIN Below |-> Below[k] + 1]

MCWatched == {p1}
MCMemory == {0, 100, 101, 110}
MCSeconds == {0, 70}
MCGameStates == {[Below EXCEPT !.kills = 1], [Above EXCEPT !.kills = 0]}
MCSessions == 1 .. 2
MCDeeds == {"approved", "Critical"}

VARIABLE part

MCInit == part \in {"graph", "health", "game"} /\ Init /\ GameInit

MCNext == \/ part = "graph" /\ Next /\ UNCHANGED <<part, gameVars>>
          \/ part = "health" /\ HealthNext /\ UNCHANGED <<part, vars>>
          \/ part = "game" /\ GameNext /\ UNCHANGED <<part, vars>>

MCSpec == MCInit /\ [][MCNext]_<<part, vars, gameVars>>
=============================================================================
