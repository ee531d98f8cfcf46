---------------------------- MODULE MCSharedState ----------------------------
(* An instance of SharedState: two pages, two snapshots of up to three     *)
(* processes, three findings on two ids, a series of three samples.        *)
EXTENDS SharedState

Proc(c, m, h, z) == [cpu |-> c, mem |-> m, hp |-> h, zombie |-> z]

MCWorlds ==
  {[procs |-> 1 :> Proc(95, 1, 20, FALSE) @@ 2 :> Proc(10, 3, 60, FALSE) @@ 3 :> Proc(10, 1, 60, TRUE),
    links |-> {[from |-> 1, to |-> 2, rate |-> 1], [from |-> 3, to |-> 2, rate |-> 1]}],
   [procs |-> 2 :> Proc(10, 3, 60, FALSE), links |-> {}]}

MCNoWorld == [procs |-> << >>, links |-> {}]

Finding(i, s, t, a) ==
  [id |-> i, host |-> "h", target |-> t, severity |-> s, category |-> "cpu", action |-> a]

\* The first finding grows worse and with it what is recommended.
MCFindings == {Finding(1, 1, 1, "investigate"), Finding(1, 2, 1, "kill"), Finding(2, 0, 2, "none")}
=============================================================================
