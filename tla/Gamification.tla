----------------------------- MODULE Gamification -----------------------------
(***************************************************************************)
(* aether-gamification: the health of the processes (hp.rs), the XP of the *)
(* user (xp.rs), the achievements (achievements.rs) and the database that  *)
(* outlives the program (storage.rs).  No task of the binary calls the     *)
(* crate, so its calls come in any order, each from one caller that passes *)
(* on what the trackers say.  Health and game share nothing and have a     *)
(* next-state relation each.                                               *)
(***************************************************************************)
EXTENDS Integers, Sequences, SequencesExt, Functions

CONSTANTS
  Watched,              \* pids of the processes whose health is kept
  Memory,               \* bound: sizes of a process
  Seconds,              \* bound: times between two calls
  GameStates,           \* what check may be asked about
  Deeds,                \* bound: what the user is rewarded for
  Sessions,             \* bound: ids of sessions, 1 .. n
  MaxXp, MaxPending,    \* bounds
  MaxElapsed            \* bound, seconds

ASSUME GamificationAssumption == Seconds \subseteq Nat

VARIABLES
  crew,                \* pid -> [hp, busy, mem, zombie], hp in halves
  before,               \* the graph of the snapshot before
  xp, acc,              \* XpTracker.total_xp, uptime_accumulator
  earned,               \* XpTracker.pending_events
  unlocked,             \* AchievementTracker.unlocked
  news,                 \* AchievementTracker.pending_events
  session,              \* the running program's session, 0 without one
  sessions,             \* table: id -> [ended, xp, rank, uptime]
  achievements,         \* table: id -> session
  actionLog,            \* table: how many rows each session has, bounded by 1
  elapsed,              \* history: seconds since the program started
  delivered,            \* history: the XP of the events drained
  told,                 \* history: achievements drained, in order
  won                   \* history: what check unlocked: <<id, session>>

health == <<crew, before>>
trackers == <<xp, acc, earned, unlocked, news>>
tables == <<sessions, achievements, actionLog>>
history == <<elapsed, delivered, told, won>>
gameVars == <<health, trackers, session, tables, history>>

None == [k \in {} |-> 0]
Full == 200
-----------------------------------------------------------------------------
(* Health.                                                                 *)

Fresh == {[hp |-> Full, busy |-> b, mem |-> m, zombie |-> z] :
            b \in BOOLEAN, m \in Memory, z \in BOOLEAN}

\* Grows by more than 5 % a minute.
Grows(now, then, dt) ==
  then.mem > 0 /\ dt > 0 /\ (now.mem - then.mem) * 60 * 20 > then.mem * dt

HpDelta(now, then, dt) ==
  LET loss == (IF now.busy THEN 4 * dt ELSE 0) + (IF Grows(now, then, dt) THEN 2 * dt ELSE 0)
      hp == now.hp + (IF loss > 0 THEN -loss ELSE dt)
  IN  IF now.zombie THEN -now.hp
      ELSE IF hp > Full THEN Full - now.hp ELSE IF hp < 0 THEN -now.hp ELSE hp - now.hp

\* apply_to_graph: one that was not there before keeps what it has.
ApplyToGraph ==
  /\ \E dt \in Seconds :
       crew' = [p \in DOMAIN crew |->
                   IF p \in DOMAIN before
                   THEN [crew[p] EXCEPT !.hp = @ + HpDelta(crew[p], before[p], dt)]
                   ELSE crew[p]]
  /\ before' = crew'
  /\ UNCHANGED <<trackers, session, tables, history>>

\* The processes run on: each keeps its health, as the caller must see to.
ProcessesRun ==
  /\ \E alive \in SUBSET Watched : \E next \in [alive -> Fresh] :
       crew' = [p \in alive |->
                   IF p \in DOMAIN crew THEN [next[p] EXCEPT !.hp = crew[p].hp] ELSE next[p]]
  /\ UNCHANGED <<before, trackers, session, tables, history>>

HealthNext == ApplyToGraph \/ ProcessesRun
-----------------------------------------------------------------------------
(* Experience.                                                             *)

Rank(points) ==
  IF points >= 10000 THEN "AetherLord" ELSE IF points >= 2000 THEN "Architect"
  ELSE IF points >= 500 THEN "Engineer" ELSE IF points >= 100 THEN "Operator" ELSE "Novice"

\* What all the events of a list come to.
Total(amounts) ==
  LET upTo[n \in 0 .. Len(amounts)] == IF n = 0 THEN 0 ELSE upTo[n - 1] + amounts[n]
  IN  upTo[Len(amounts)]

AddXp(amounts) ==
  /\ xp' = xp + Total(amounts) /\ xp' <= MaxXp
  /\ earned' = earned \o amounts /\ Len(earned') <= MaxPending

\* Mutant: the accumulator starts over.
StartsOver(seconds) == IF seconds >= 60 THEN 0 ELSE seconds

\* Uptime left over after the minutes that were paid.
Remainder(seconds) == seconds % 60

Tick ==
  /\ session # 0
  /\ \E dt \in Seconds :
       /\ elapsed + dt <= MaxElapsed /\ elapsed' = elapsed + dt
       /\ AddXp([i \in 1 .. (acc + dt) \div 60 |-> 1])
       /\ acc' = Remainder(acc + dt)
  /\ UNCHANGED <<health, unlocked, news, session, tables, delivered, told, won>>

\* An action approved, a zombie killed, a diagnostic resolved, by its severity.
Reward(deed) ==
  CASE deed = "approved" -> 50 [] deed = "zombie" -> 10
    [] deed = "Critical" -> 50 [] deed = "Warning" -> 20 [] OTHER -> 5

Earn ==
  /\ session # 0
  /\ \E deed \in Deeds : AddXp(<<Reward(deed)>>)
  /\ UNCHANGED <<health, acc, unlocked, news, session, tables, history>>

DrainXp ==
  /\ earned # <<>> /\ earned' = <<>>
  /\ delivered' = delivered + Total(earned)
  /\ UNCHANGED <<health, xp, acc, unlocked, news, session, tables, elapsed, told, won>>
-----------------------------------------------------------------------------
(* Achievements.                                                           *)

Definitions == <<"first_blood", "uptime_champion", "network_oracle", "zombie_hunter",
                 "ai_whisperer", "first_responder", "firefighter", "stability_master">>

Met(id, s) ==
  CASE id = "first_blood"      -> s.kills > 0
    [] id = "uptime_champion"  -> s.uptimeHours > 24
    [] id = "network_oracle"   -> s.dpiAnalyses > 100
    [] id = "zombie_hunter"    -> s.zombieKills > 50
    [] id = "ai_whisperer"     -> s.approvals > 100
    [] id = "first_responder"  -> s.resolved > 0
    [] id = "firefighter"      -> s.criticalResolved >= 10
    [] id = "stability_master" -> s.withoutCritical >= 3600

\* The ids of a list that are in a set, in the order of the list.
Among(list, ids) ==
  LET kept[n \in 0 .. Len(list)] ==
        IF n = 0 THEN <<>>
        ELSE IF list[n] \in ids THEN Append(kept[n - 1], list[n]) ELSE kept[n - 1]
  IN  kept[Len(list)]

\* check, and the caller saves what it returns.
Check ==
  /\ session # 0
  /\ \E s \in GameStates :
       LET newly == Among(Definitions, {id \in ToSet(Definitions) : id \notin unlocked /\ Met(id, s)})
       IN  /\ unlocked' = unlocked \cup ToSet(newly)
           /\ news' = news \o newly
           \* INSERT OR IGNORE
           /\ achievements' = [id \in DOMAIN achievements \cup ToSet(newly) |->
                                 IF id \in DOMAIN achievements THEN achievements[id] ELSE session]
           /\ won' = won \cup (ToSet(newly) \X {session})
  /\ UNCHANGED <<health, xp, acc, earned, session, sessions, actionLog, elapsed, delivered, told>>

DrainNews ==
  /\ news # <<>> /\ news' = <<>>
  /\ told' = told \o news
  /\ UNCHANGED <<health, xp, acc, earned, unlocked, session, tables, elapsed, delivered, won>>
-----------------------------------------------------------------------------
(* Sessions.                                                               *)

Row(ended) == [ended |-> ended, xp |-> xp, rank |-> Rank(xp), uptime |-> elapsed]

With(table, id, row) == [i \in DOMAIN table \cup {id} |-> IF i = id THEN row ELSE table[i]]

\* The id is one above the highest that ever was.
StartSession ==
  LET id == Cardinality(DOMAIN sessions) + 1 IN
  /\ session = 0 /\ id \in Sessions
  /\ session' = id
  /\ sessions' = With(sessions, id, [ended |-> FALSE, xp |-> 0, rank |-> "Novice", uptime |-> 0])
  /\ actionLog' = With(actionLog, id, 0)
  /\ UNCHANGED <<health, trackers, achievements, history>>

EndSession ==
  /\ session # 0
  /\ sessions' = [sessions EXCEPT ![session] = Row(TRUE)]
  /\ UNCHANGED <<health, trackers, session, achievements, actionLog, history>>

\* Storage::save_session replaces the row, and with it the time of its end.
SaveSession ==
  /\ session # 0
  /\ sessions' = [sessions EXCEPT ![session] = Row(FALSE)]
  /\ UNCHANGED <<health, trackers, session, achievements, actionLog, history>>

LogAction ==
  /\ session # 0 /\ actionLog[session] < 1
  /\ actionLog' = [actionLog EXCEPT ![session] = @ + 1]
  /\ UNCHANGED <<health, trackers, session, sessions, achievements, history>>

\* load_rankings, in one of the orders that ORDER BY total_xp DESC allows.
Rankings ==
  {order \in SetToSeqs(DOMAIN sessions) :
     \A i, j \in DOMAIN order : i < j => sessions[order[i]].xp >= sessions[order[j]].xp}

\* The program ends, with or without end_session: the trackers, which read
\* nothing back, are new, the tables are as they were.
Restart ==
  /\ session # 0 /\ session + 1 \in Sessions /\ session' = 0
  /\ xp' = 0 /\ acc' = 0 /\ earned' = <<>> /\ unlocked' = {} /\ news' = <<>>
  /\ elapsed' = 0 /\ delivered' = 0 /\ told' = <<>>
  /\ UNCHANGED <<health, tables, won>>

GameNext ==
  \/ Tick \/ Earn \/ DrainXp \/ Check \/ DrainNews
  \/ StartSession \/ EndSession \/ SaveSession \/ LogAction \/ Restart

GameInit ==
  /\ crew = None /\ before = None
  /\ xp = 0 /\ acc = 0 /\ earned = <<>> /\ unlocked = {} /\ news = <<>>
  /\ session = 0
  /\ sessions = None /\ achievements = None /\ actionLog = None
  /\ elapsed = 0 /\ delivered = 0 /\ told = <<>> /\ won = {}

GameSpec == GameInit /\ [][HealthNext \/ GameNext]_gameVars
-----------------------------------------------------------------------------
\* Every point is announced once, every full minute of uptime is paid however
\* the calls divide it, every achievement is announced once in a session and
\* keeps the session that won it, and the best session is ranked first.
GameAddsUp ==
  /\ xp = delivered + Total(earned)
  /\ acc = elapsed % 60 /\ xp >= elapsed \div 60
  /\ IsInjective(told \o news) /\ ToSet(told \o news) = unlocked
  /\ DOMAIN achievements = {w[1] : w \in won}
  /\ \A w \in won : achievements[w[1]] <= w[2] /\ <<w[1], achievements[w[1]]>> \in won
  /\ \A order \in Rankings, id \in DOMAIN sessions :
       sessions[id].xp <= sessions[order[1]].xp /\ sessions[id].rank = Rank(sessions[id].xp)
  /\ \A p \in DOMAIN crew : crew[p].hp \in 0 .. Full
=============================================================================
