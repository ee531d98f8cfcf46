---------------------------- MODULE ScriptProofs ----------------------------
(***************************************************************************)
(* Theorems about ScriptRuntime: the types of the reloader, that no change *)
(* of the rule file is lost on its way to the rules in force, and that a   *)
(* rule with a duration fires when its condition was true for so long.     *)
(***************************************************************************)
EXTENDS ScriptRuntime, NaturalsInduction, WellFoundedInduction, TLAPS

(***************************************************************************)
(* A change that is not in force yet is announced by an event on its way,  *)
(* or by a reloader that has still to read the file, or has read this very *)
(* content.  NoReloadLost speaks of a quiet watcher only; and a reloader    *)
(* that has read an older content puts it in force over the one that is.    *)
(***************************************************************************)
Announced ==
  \/ missed > 0
  \/ raised > 0 \/ chan > 0
  \/ watcher = "debouncing"
  \/ watcher = "compiling" /\ source = disk
  \/ watcher # "compiling" /\ (disk \in Accepted => active = disk)

IInv == TypeOK /\ Announced

LEMMA InitIInv == Init => IInv
<1> SUFFICES ASSUME Init PROVE TypeOK /\ Announced
    BY DEF IInv
<1>1. InitialFile \in Accepted /\ InitialFile \in Files /\ EventCap \in Nat
    BY ReloadAssumption
<1>2. TypeOK
  <2>1. cancelled \in BOOLEAN
    BY Zenon DEF Init
  <2> QED
    BY <1>1, <2>1 DEF Init, TypeOK
<1>3. Announced
    BY <1>1 DEF Init, Announced
<1> QED
    BY <1>2, <1>3

\* The type invariant is inductive on its own.
LEMMA NextTypeOK == TypeOK /\ [Next]_scriptVars => TypeOK'
<1> SUFFICES ASSUME TypeOK, [Next]_scriptVars PROVE TypeOK'
    OBVIOUS
<1> USE DEF TypeOK
<1>1. ASSUME NEW c \in Files, Write(c) PROVE TypeOK'
    BY <1>1 DEF Write
<1>2. CASE StartWatch
    BY <1>2 DEF StartWatch
<1>3. CASE Deliver
    BY <1>3, ReloadAssumption DEF Deliver
<1>4. CASE BeginDebounce
    BY <1>4, ReloadAssumption DEF BeginDebounce
<1>5. CASE Absorb
    BY <1>5, ReloadAssumption DEF Absorb
<1>6. CASE ReadFile
    BY <1>6 DEF ReadFile
<1>7. CASE Store
    BY <1>7, ReloadAssumption DEF Store
<1>8. CASE Cancel
    BY <1>8 DEF Cancel
<1>9. CASE StopWatch
    BY <1>9 DEF StopWatch
<1>10. ASSUME NEW snap \in Snapshots, NEW dt \in Elapsed, EvaluateSnapshot(snap, dt)
       PROVE  TypeOK'
    BY <1>10 DEF EvaluateSnapshot, reloadVars
<1>11. CASE UNCHANGED scriptVars
    BY <1>11 DEF scriptVars, reloadVars
<1> QED
    BY <1>1, <1>2, <1>3, <1>4, <1>5, <1>6, <1>7, <1>8, <1>9, <1>10, <1>11 DEF Next, Reload

\* Every step keeps a change that is not in force announced: a change raises
\* an event, an event that is taken begins a debounce, the debounce ends with
\* a reading, and what is read is stored.
LEMMA NextAnnounced == IInv /\ [Next]_scriptVars => Announced'
<1> SUFFICES ASSUME TypeOK, Announced, [Next]_scriptVars PROVE Announced'
    BY DEF IInv
<1> USE DEF TypeOK, Announced
<1>1. ASSUME NEW c \in Files, Write(c) PROVE Announced'
    BY <1>1 DEF Write
<1>2. CASE StartWatch
    BY <1>2 DEF StartWatch
<1>3. CASE Deliver
    BY <1>3 DEF Deliver
<1>4. CASE BeginDebounce
    BY <1>4 DEF BeginDebounce
<1>5. CASE Absorb
    BY <1>5 DEF Absorb
<1>6. CASE ReadFile
    BY <1>6 DEF ReadFile
<1>7. CASE Store
  <2>1. CASE source = disk
    BY <1>7, <2>1 DEF Store
  <2>2. CASE source # disk
    BY <1>7, <2>2 DEF Store
  <2> QED
    BY <2>1, <2>2
<1>8. CASE Cancel
    BY <1>8 DEF Cancel
<1>9. CASE StopWatch
    BY <1>9 DEF StopWatch
<1>10. ASSUME NEW snap \in Snapshots, NEW dt \in Elapsed, EvaluateSnapshot(snap, dt)
       PROVE  Announced'
    BY <1>10 DEF EvaluateSnapshot, reloadVars
<1>11. CASE UNCHANGED scriptVars
    BY <1>11 DEF scriptVars, reloadVars
<1> QED
    BY <1>1, <1>2, <1>3, <1>4, <1>5, <1>6, <1>7, <1>8, <1>9, <1>10, <1>11 DEF Next, Reload

\* The reloader's variables keep their types, and every change that is not in
\* force is announced.
THEOREM ReloadInvariant == Spec => []IInv
<1>1. Init => IInv
    BY InitIInv
<1>2. IInv /\ [Next]_scriptVars => IInv'
    BY NextTypeOK, NextAnnounced DEF IInv
<1> QED
    BY <1>1, <1>2, PTL DEF Spec

\* For every set of files and any number of changes: a quiet watcher has the
\* rules of the file in force, unless the file is refused or the change was
\* made before the watch was set up.
THEOREM NoReloadIsLost == Spec => []NoReloadLost
<1>1. IInv => NoReloadLost
    BY DEF IInv, TypeOK, Announced, NoReloadLost
<1> QED
    BY <1>1, ReloadInvariant, PTL
-----------------------------------------------------------------------------
(* Loops: induction up to a number, with a set for the predicate, and that *)
(* what a loop computes exists.                                            *)

LEMMA UpTo ==
  ASSUME NEW N \in Nat, NEW S, 0 \in S,
         \A n \in Nat : n < N /\ n \in S => n + 1 \in S
  PROVE  0 .. N \subseteq S
<1> SUFFICES ASSUME 0 .. N \ S # {} PROVE FALSE
    OBVIOUS
<1> DEFINE R == OpToRel(<, Nat)
<1>2. IsWellFoundedOn(R, Nat)
    BY NatLessThanWellFounded
<1> HIDE DEF R
<1>3. PICK x \in 0 .. N \ S : \A y \in 0 .. N \ S : ~ (<<y, x>> \in R)
  <2>1. 0 .. N \ S \subseteq Nat
    OBVIOUS
  <2> QED
    BY <1>2, <2>1, WFMin
<1>4. x # 0 /\ x - 1 \in Nat /\ x - 1 < N /\ x - 1 \in 0 .. N
    OBVIOUS
<1>5. <<x - 1, x>> \in R
    BY <1>4 DEF R, OpToRel
<1>6. x - 1 \in S
    BY <1>3, <1>4, <1>5
<1>7. x - 1 + 1 \in S
    BY <1>4, <1>6
<1> QED
    BY <1>3, <1>7

\* m holds what a loop of N rounds has computed before and after each round.
Loop(m, start, Step, N) ==
  /\ m[0] = start
  /\ \A k \in 1 .. N : m[k] = Step[<<m[k - 1], k>>]

LEMMA LoopExists ==
  ASSUME NEW Q, NEW start \in Q, NEW N \in Nat, NEW Step \in [Q \X (1 .. N) -> Q]
  PROVE  \E m \in [0 .. N -> Q] : Loop(m, start, Step, N)
<1> DEFINE S == {n \in Nat : n <= N => \E m \in [0 .. n -> Q] : Loop(m, start, Step, n)}
<1>1. 0 \in S
  <2> DEFINE m == [k \in 0 .. 0 |-> start]
  <2>1. m \in [0 .. 0 -> Q] /\ Loop(m, start, Step, 0)
    BY DEF Loop
  <2> QED
    BY <2>1
<1>2. ASSUME NEW n \in Nat, n < N, n \in S PROVE n + 1 \in S
  <2>1. PICK m \in [0 .. n -> Q] : Loop(m, start, Step, n)
    BY <1>2
  <2> DEFINE next == Step[<<m[n], n + 1>>]
             l == [k \in 0 .. n + 1 |-> IF k = n + 1 THEN next ELSE m[k]]
  <2>2. next \in Q
    BY <1>2, <2>1
  <2>3. l \in [0 .. n + 1 -> Q]
    BY <2>1, <2>2
  <2>4. l[0] = start /\ l[n] = m[n] /\ l[n + 1] = next /\ \A k \in 0 .. n : l[k] = m[k]
    BY <2>1 DEF Loop
  <2>5. next = Step[<<m[n], n + 1>>]
    OBVIOUS
  <2> HIDE DEF l, next
  <2>6. ASSUME NEW k \in 1 .. n + 1 PROVE l[k] = Step[<<l[k - 1], k>>]
    <3>1. CASE k = n + 1
      <4>1. k - 1 = n
        BY <3>1
      <4> QED
        BY <2>4, <2>5, <3>1, <4>1
    <3>2. CASE k \in 1 .. n
      <4>1. k - 1 \in 0 .. n /\ k \in 0 .. n
        BY <3>2
      <4> QED
        BY <2>1, <2>4, <3>2, <4>1 DEF Loop
    <3> QED
      BY <3>1, <3>2
  <2>7. Loop(l, start, Step, n + 1)
    BY <2>4, <2>6 DEF Loop
  <2> QED
    BY <2>3, <2>7
<1> HIDE DEF S
<1>3. 0 .. N \subseteq S
    BY <1>1, <1>2, UpTo
<1> QED
    BY <1>3 DEF S
-----------------------------------------------------------------------------
(* What a timer knows.                                                     *)

Ages == {Stopped} \cup 0 .. Horizon

\* From the look b on, all looks of C have found the condition true.
TrueSince(b, C, H) == b \in C /\ \A d \in C : NotAfter(b, d) => d \in H

\* The age tells, for every duration a rule may have, whether the looks C have
\* found the condition true for so long.  H are those that did, T their times.
IsAge(age, C, H, T, now) ==
  /\ age \in Ages
  /\ \A s \in 0 .. Horizon :
       age >= s <=> \E b \in C : TrueSince(b, C, H) /\ now - T[b] >= s

\* Time passes.
LEMMA AgedIsAge ==
  ASSUME NEW age, NEW C, NEW H, NEW T, NEW now \in Nat, IsAge(age, C, H, T, now),
         \A b \in C : T[b] \in Nat /\ T[b] <= now, NEW dt \in Nat
  PROVE  IsAge(Aged(age, dt), C, H, T, now + dt)
<1> USE EngineAssumption DEF Stopped
<1>1. age = -1 \/ age \in 0 .. Horizon
    BY DEF IsAge, Ages
<1>2. \A s \in 0 .. Horizon :
        age >= s <=> \E b \in C : TrueSince(b, C, H) /\ now - T[b] >= s
    BY DEF IsAge
<1>3. CASE age = -1
  <2>1. Aged(age, dt) = -1
    BY <1>3 DEF Aged
  <2>2. \A b \in C : ~TrueSince(b, C, H)
    BY <1>2, <1>3
  <2> QED
    BY <2>1, <2>2 DEF IsAge, Ages
<1>4. CASE age \in 0 .. Horizon
  <2> DEFINE new == Aged(age, dt)
  <2>1. new \in 0 .. Horizon /\ \A s \in 0 .. Horizon : new >= s <=> age + dt >= s
    BY <1>4 DEF Aged
  <2> HIDE DEF new
  <2>2. ASSUME NEW s \in 0 .. Horizon
        PROVE  new >= s <=> \E b \in C : TrueSince(b, C, H) /\ now + dt - T[b] >= s
    <3>1. CASE s <= dt
      <4>1. new >= s
        BY <1>4, <2>1, <3>1
      <4>2. PICK b \in C : TrueSince(b, C, H) /\ now - T[b] >= 0
        BY <1>2, <1>4
      <4> QED
        BY <3>1, <4>1, <4>2
    <3>2. CASE s > dt
      <4>1. s - dt \in 0 .. Horizon /\ (new >= s <=> age >= s - dt)
        BY <1>4, <2>1, <3>2
      <4>2. \A b \in C : now - T[b] >= s - dt <=> now + dt - T[b] >= s
        BY <3>2
      <4> QED
        BY <1>2, <4>1, <4>2
    <3> QED
      BY <3>1, <3>2
  <2> QED
    BY <2>1, <2>2 DEF IsAge, Ages, new
<1> QED
    BY <1>1, <1>3, <1>4

\* One more look, after all of C, whose condition is false or true.
LEMMA LookIsAge ==
  ASSUME NEW age, NEW C, NEW H, NEW T, NEW now \in Nat, IsAge(age, C, H, T, now),
         \A b \in C : T[b] \in Nat /\ T[b] <= now,
         NEW c, T[c] = now, NotAfter(c, c),
         \A b \in C : NotAfter(b, c) /\ ~NotAfter(c, b)
  PROVE  IsAge(IF c \in H THEN IF age = Stopped THEN 0 ELSE age ELSE Stopped,
               C \cup {c}, H, T, now)
<1> USE EngineAssumption DEF Stopped
<1> DEFINE C2 == C \cup {c}
<1>1. age = -1 \/ age \in 0 .. Horizon
    BY DEF IsAge, Ages
<1>2. \A s \in 0 .. Horizon :
        age >= s <=> \E b \in C : TrueSince(b, C, H) /\ now - T[b] >= s
    BY DEF IsAge
<1>3. CASE c \notin H
  <2>1. \A b \in C2 : ~TrueSince(b, C2, H)
    BY <1>3 DEF TrueSince
  <2>2. \A s \in 0 .. Horizon : ~(-1 >= s)
    OBVIOUS
  <2> QED
    BY <1>3, <2>1, <2>2 DEF IsAge, Ages
<1>4. CASE c \in H
  <2>1. \A b \in C : TrueSince(b, C2, H) <=> TrueSince(b, C, H)
    BY <1>4 DEF TrueSince
  <2>2. TrueSince(c, C2, H) /\ c \notin C
    BY <1>4 DEF TrueSince
  <2>3. ASSUME NEW s \in 0 .. Horizon
        PROVE  (IF age = -1 THEN 0 ELSE age) >= s
                 <=> \E b \in C2 : TrueSince(b, C2, H) /\ now - T[b] >= s
    <3>1. CASE s = 0
      BY <1>1, <2>2, <3>1
    <3>2. CASE s > 0
      <4>1. ~(now - T[c] >= s)
        BY <3>2
      <4>2. (IF age = -1 THEN 0 ELSE age) >= s <=> age >= s
        BY <1>1, <3>2
      <4> QED
        BY <1>2, <2>1, <4>1, <4>2
    <3> QED
      BY <3>1, <3>2
  <2>4. (IF age = -1 THEN 0 ELSE age) \in Ages
    BY <1>1 DEF Ages
  <2> QED
    BY <1>4, <2>3, <2>4 DEF IsAge
<1> QED
    BY <1>3, <1>4

-----------------------------------------------------------------------------
(* The timers of the state and the record of the evaluations.              *)

Evaluation == [time : Nat, file : Accepted, snap : Snapshots]

LEMMA RulesAreList ==
  ASSUME NEW f \in Accepted
  PROVE  /\ Len(Rules[f]) \in Nat /\ DOMAIN Rules[f] = 1 .. Len(Rules[f])
         /\ \A i \in 1 .. Len(Rules[f]) :
              /\ Rules[f][i].name \in Names
              /\ Rules[f][i].seconds \in {NoDuration} \cup 0 .. Horizon
<1> DEFINE Rule == [name : Names, holds : SUBSET ProcStates, seconds : {NoDuration} \cup 0 .. Horizon]
<1>1. Rules[f] \in Seq(Rule)
    BY EngineAssumption DEF CompiledRules
<1>2. \A r \in Rule : r.name \in Names /\ r.seconds \in {NoDuration} \cup 0 .. Horizon
    OBVIOUS
<1> HIDE DEF Rule
<1> QED
    BY <1>1, <1>2

\* One rule's part in the timer of n and p.
TimerRound(q, n, p, snap, i) ==
  IF p \in DOMAIN snap /\ Rules[active][i].name = n
  THEN TimerAfter(q, Rules[active][i], snap[p]) ELSE q

TimerRuns(m, n, p, snap, dt) ==
  m = [i \in 0 .. Len(Rules[active]) |->
         IF i = 0 THEN Aged(timers[<<n, p>>], dt) ELSE TimerRound(m[i - 1], n, p, snap, i)]

LEMMA TimerLoop ==
  ASSUME active \in Accepted, NEW n, NEW p, timers[<<n, p>>] \in Ages, NEW snap, NEW dt \in Nat
  PROVE  TimerRuns(TimerAt(n, p, snap, dt), n, p, snap, dt)
<1> DEFINE N == Len(Rules[active])
           Step == [qk \in Ages \X (1 .. N) |-> TimerRound(qk[1], n, p, snap, qk[2])]
           start == Aged(timers[<<n, p>>], dt)
<1>1. N \in Nat
    BY RulesAreList
<1>2. \A q \in Ages, k \in 1 .. N : TimerRound(q, n, p, snap, k) \in Ages
    BY EngineAssumption DEF TimerRound, TimerAfter, Ages, Stopped
<1>3. start \in Ages
    BY EngineAssumption DEF Aged, Ages, Stopped
<1>4. Step \in [Ages \X (1 .. N) -> Ages]
    BY <1>2
<1>5. \A q \in Ages, k \in 1 .. N : Step[<<q, k>>] = TimerRound(q, n, p, snap, k)
    OBVIOUS
<1> HIDE DEF Step, N, start
<1>6. PICK m \in [0 .. N -> Ages] : Loop(m, start, Step, N)
    BY <1>1, <1>3, <1>4, LoopExists
<1>7. ASSUME NEW k \in 0 .. N
      PROVE  m[k] = IF k = 0 THEN start ELSE TimerRound(m[k - 1], n, p, snap, k)
  <2>1. CASE k = 0
    BY <1>6, <2>1 DEF Loop
  <2>2. CASE k \in 1 .. N
    <3>1. m[k - 1] \in Ages
      BY <1>1, <1>6, <2>2
    <3> QED
      BY <1>5, <1>6, <2>2, <3>1 DEF Loop
  <2> QED
    BY <1>1, <2>1, <2>2
<1>8. TimerRuns(m, n, p, snap, dt)
    BY <1>6, <1>7 DEF TimerRuns, N, start
<1>9. TimerAt(n, p, snap, dt) = CHOOSE q : TimerRuns(q, n, p, snap, dt)
    BY DEF TimerAt, TimerRuns, TimerRound
<1> QED
    BY <1>8, <1>9

Times(n, p) == [c \in Checks(n, p) |-> log[c[1]].time]
True(n, p) == {c \in Checks(n, p) : Holds(c, p)}

\* Every timer is the age of the looks at its name and pid.
TimersAreAges ==
  \A n \in Names, p \in Pids :
    IsAge(timers[<<n, p>>], Checks(n, p), True(n, p), Times(n, p), Now)

LogTyped ==
  /\ log \in Seq(Evaluation)
  /\ \A j \in DOMAIN log : log[j].time <= Now

HistInv == TypeOK /\ LogTyped /\ TimersAreAges /\ FiresIffHeldAtEveryCheck

LEMMA NowIsTime == LogTyped => Now \in Nat
<1> SUFFICES ASSUME LogTyped PROVE Now \in Nat
    OBVIOUS
<1>1. log # <<>> => log[Len(log)] \in Evaluation
    BY DEF LogTyped
<1> QED
    BY <1>1 DEF Now, Evaluation

\* The looks are places of evaluations and rules.
LEMMA ChecksAre ==
  ASSUME LogTyped, NEW n, NEW p
  PROVE  \A c : c \in Checks(n, p) <=>
           \E j \in DOMAIN log : \E i \in 1 .. Len(Rules[log[j].file]) :
             /\ c = <<j, i>> /\ p \in DOMAIN log[j].snap
             /\ Rules[log[j].file][i].name = n /\ Rules[log[j].file][i].seconds # NoDuration
<1>1. \A j \in DOMAIN log : DOMAIN Rules[log[j].file] = 1 .. Len(Rules[log[j].file])
  <2> TAKE j \in DOMAIN log
  <2>1. log[j] \in Evaluation
    BY DEF LogTyped
  <2> QED
    BY <2>1, RulesAreList DEF Evaluation
<1> QED
    BY <1>1 DEF Checks

\* One more evaluation is recorded.
LEMMA LogGrows ==
  ASSUME LogTyped, active \in Accepted, NEW snap \in Snapshots, NEW dt \in Nat,
         log' = Append(log, [time |-> Now + dt, file |-> active, snap |-> snap])
  PROVE  /\ Len(log) \in Nat /\ DOMAIN log = 1 .. Len(log)
         /\ Len(log') = Len(log) + 1 /\ DOMAIN log' = 1 .. Len(log) + 1
         /\ \A j \in 1 .. Len(log) : log'[j] = log[j]
         /\ log'[Len(log) + 1] = [time |-> Now + dt, file |-> active, snap |-> snap]
         /\ Now' = Now + dt
         /\ LogTyped'
<1> DEFINE e == [time |-> Now + dt, file |-> active, snap |-> snap]
<1>1. Now \in Nat
    BY NowIsTime
<1>2. log \in Seq(Evaluation) /\ \A j \in DOMAIN log : log[j].time <= Now
    BY DEF LogTyped
<1>3. e \in Evaluation /\ e.time = Now + dt
    BY <1>1 DEF Evaluation
<1> HIDE DEF e
<1>4. log' = Append(log, e)
    BY DEF e
<1>5. /\ Len(log) \in Nat /\ DOMAIN log = 1 .. Len(log)
      /\ Len(log') = Len(log) + 1 /\ DOMAIN log' = 1 .. Len(log) + 1
      /\ \A j \in 1 .. Len(log) : log'[j] = log[j]
      /\ log'[Len(log) + 1] = e /\ log' \in Seq(Evaluation) /\ log' # <<>>
    BY <1>2, <1>3, <1>4
<1>6. Now' = Now + dt
    BY <1>3, <1>5 DEF Now
<1>7. ASSUME NEW j \in 1 .. Len(log) + 1 PROVE log'[j].time <= Now + dt
  <2>1. CASE j = Len(log) + 1
    BY <1>1, <1>3, <1>5, <2>1
  <2>2. CASE j \in 1 .. Len(log)
    <3>1. log[j] \in Evaluation /\ log[j].time <= Now
      BY <1>2, <1>5, <2>2
    <3>2. log[j].time \in Nat
      BY <3>1 DEF Evaluation
    <3> QED
      BY <1>1, <1>5, <2>2, <3>1, <3>2
  <2> QED
    BY <1>5, <2>1, <2>2
<1>8. LogTyped'
    BY <1>5, <1>6, <1>7 DEF LogTyped
<1> QED
    BY <1>5, <1>6, <1>8 DEF e

\* The looks of the rules up to the i-th at the last evaluation, and of all before.
Stage(n, p, i) == {c \in Checks(n, p) : NotAfter(c, <<Len(log), i>>)}

\* The rule i of the active ones looks at n and p in the snapshot.
Looks(n, p, snap, i) ==
  /\ p \in DOMAIN snap /\ Rules[active][i].name = n
  /\ Rules[active][i].seconds # NoDuration

\* An evaluation adds the looks of the active rules, and changes no other.
LEMMA ChecksGrow ==
  ASSUME LogTyped, active \in Accepted, NEW snap \in Snapshots, NEW dt \in Nat,
         log' = Append(log, [time |-> Now + dt, file |-> active, snap |-> snap]),
         NEW n, NEW p
  PROVE  /\ \A c : c \in Checks(n, p)' <=>
               \/ c \in Checks(n, p)
               \/ \E i \in 1 .. Len(Rules[active]) :
                     c = <<Len(log) + 1, i>> /\ Looks(n, p, snap, i)
         /\ \A c \in Checks(n, p) :
               /\ c[1] \in 1 .. Len(log) /\ c[2] \in Nat
               /\ Holds(c, p)' <=> Holds(c, p)
               /\ log'[c[1]].time = log[c[1]].time
<1> DEFINE L == Len(log)
<1>1. /\ L \in Nat /\ DOMAIN log = 1 .. L /\ DOMAIN log' = 1 .. L + 1
      /\ \A j \in 1 .. L : log'[j] = log[j]
      /\ log'[L + 1].file = active /\ log'[L + 1].snap = snap
      /\ LogTyped'
    BY LogGrows
<1> HIDE DEF L
<1>2. \A f \in Accepted : DOMAIN Rules[f] = 1 .. Len(Rules[f]) /\ Len(Rules[f]) \in Nat
    BY RulesAreList
<1>3. \A j \in 1 .. L : log[j].file \in Accepted
  <2> TAKE j \in 1 .. L
  <2>1. log[j] \in Evaluation
    BY <1>1 DEF LogTyped
  <2> QED
    BY <2>1 DEF Evaluation
<1>4. \A j \in 1 .. L + 1 : DOMAIN Rules[log'[j].file] = 1 .. Len(Rules[log'[j].file])
  <2> TAKE j \in 1 .. L + 1
  <2>1. j = L + 1 \/ j \in 1 .. L
    BY <1>1
  <2> QED
    BY <1>1, <1>2, <1>3, <2>1
<1>5. \A c : c \in Checks(n, p)' <=>
        \E j \in 1 .. L + 1 : \E i \in 1 .. Len(Rules[log'[j].file]) :
          /\ c = <<j, i>> /\ p \in DOMAIN log'[j].snap
          /\ Rules[log'[j].file][i].name = n /\ Rules[log'[j].file][i].seconds # NoDuration
  <2>1. \A j \in DOMAIN log' : DOMAIN Rules[log'[j].file] = 1 .. Len(Rules[log'[j].file])
    BY <1>1, <1>4
  <2> DEFINE At(c, j) ==
               \E i \in 1 .. Len(Rules[log'[j].file]) :
                 /\ c = <<j, i>> /\ p \in DOMAIN log'[j].snap
                 /\ Rules[log'[j].file][i].name = n
                 /\ Rules[log'[j].file][i].seconds # NoDuration
  <2>2. \A c : c \in Checks(n, p)' <=> \E j \in DOMAIN log' : At(c, j)
    <3> TAKE c
    <3> DEFINE D(j) == DOMAIN Rules[log'[j].file]
               Good(j, i) == /\ p \in DOMAIN log'[j].snap
                             /\ Rules[log'[j].file][i].name = n
                             /\ Rules[log'[j].file][i].seconds # NoDuration
    <3>a. c \in Checks(n, p)' <=>
            c \in UNION {{j} \X D(j) : j \in DOMAIN log'} /\ Good(c[1], c[2])
      BY DEF Checks
    <3> HIDE DEF D, Good
    <3>b. c \in UNION {{j} \X D(j) : j \in DOMAIN log'} <=>
            \E j \in DOMAIN log' : c \in {j} \X D(j)
      OBVIOUS
    <3>c. ASSUME NEW j
          PROVE  c \in {j} \X D(j) <=> \E i \in D(j) : c = <<j, i>> /\ c[1] = j /\ c[2] = i
      OBVIOUS
    <3>1. c \in Checks(n, p)' <=>
            \E j \in DOMAIN log' : \E i \in D(j) : c = <<j, i>> /\ Good(j, i)
      BY <3>a, <3>b, <3>c
    <3>2. ASSUME NEW j \in DOMAIN log'
          PROVE  At(c, j) <=> \E i \in D(j) : c = <<j, i>> /\ Good(j, i)
      BY <2>1 DEF D, Good
    <3> HIDE DEF At
    <3> QED
      BY <3>1, <3>2
  <2> HIDE DEF At
  <2>3. \A c : c \in Checks(n, p)' <=> \E j \in 1 .. L + 1 : At(c, j)
    BY <1>1, <2>2
  <2> QED
    BY <2>3 DEF At
<1>6. \A c : c \in Checks(n, p) <=>
        \E j \in 1 .. L : \E i \in 1 .. Len(Rules[log[j].file]) :
          /\ c = <<j, i>> /\ p \in DOMAIN log[j].snap
          /\ Rules[log[j].file][i].name = n /\ Rules[log[j].file][i].seconds # NoDuration
  <2> DEFINE At(c, j) ==
               \E i \in 1 .. Len(Rules[log[j].file]) :
                 /\ c = <<j, i>> /\ p \in DOMAIN log[j].snap
                 /\ Rules[log[j].file][i].name = n
                 /\ Rules[log[j].file][i].seconds # NoDuration
  <2>1. \A c : c \in Checks(n, p) <=> \E j \in DOMAIN log : At(c, j)
    BY ChecksAre
  <2> HIDE DEF At
  <2>2. \A c : c \in Checks(n, p) <=> \E j \in 1 .. L : At(c, j)
    BY <1>1, <2>1
  <2> QED
    BY <2>2 DEF At
<1>7. ASSUME NEW c
      PROVE  c \in Checks(n, p)' <=>
               \/ c \in Checks(n, p)
               \/ \E i \in 1 .. Len(Rules[active]) :
                     c = <<L + 1, i>> /\ Looks(n, p, snap, i)
  <2>1. ASSUME c \in Checks(n, p)'
        PROVE  \/ c \in Checks(n, p)
               \/ \E i \in 1 .. Len(Rules[active]) :
                     c = <<L + 1, i>> /\ Looks(n, p, snap, i)
    <3>1. PICK j \in 1 .. L + 1 : \E i \in 1 .. Len(Rules[log'[j].file]) :
            /\ c = <<j, i>> /\ p \in DOMAIN log'[j].snap
            /\ Rules[log'[j].file][i].name = n /\ Rules[log'[j].file][i].seconds # NoDuration
      BY <1>5, <2>1
    <3>2. CASE j = L + 1
      BY <1>1, <3>1, <3>2 DEF Looks
    <3>3. CASE j \in 1 .. L
      BY <1>1, <1>6, <3>1, <3>3, SMTT(30)
    <3> QED
      BY <1>1, <3>2, <3>3
  <2>2. ASSUME c \in Checks(n, p) PROVE c \in Checks(n, p)'
    <3>1. PICK j \in 1 .. L : \E i \in 1 .. Len(Rules[log[j].file]) :
            /\ c = <<j, i>> /\ p \in DOMAIN log[j].snap
            /\ Rules[log[j].file][i].name = n /\ Rules[log[j].file][i].seconds # NoDuration
      BY <1>6, <2>2
    <3>2. j \in 1 .. L + 1 /\ log'[j] = log[j]
      BY <1>1
    <3>3. \E i \in 1 .. Len(Rules[log'[j].file]) :
            /\ c = <<j, i>> /\ p \in DOMAIN log'[j].snap
            /\ Rules[log'[j].file][i].name = n /\ Rules[log'[j].file][i].seconds # NoDuration
      BY <3>1, <3>2
    <3> QED
      BY <1>5, <3>2, <3>3
  <2>3. ASSUME NEW i \in 1 .. Len(Rules[active]), c = <<L + 1, i>>, Looks(n, p, snap, i)
        PROVE  c \in Checks(n, p)'
    <3>1. L + 1 \in 1 .. L + 1
      BY <1>1
    <3> QED
      BY <1>1, <1>5, <2>3, <3>1 DEF Looks
  <2> QED
    BY <2>1, <2>2, <2>3
<1>8. ASSUME NEW c \in Checks(n, p)
      PROVE  /\ c[1] \in 1 .. L /\ c[2] \in Nat
             /\ Holds(c, p)' <=> Holds(c, p)
             /\ log'[c[1]].time = log[c[1]].time
  <2>1. PICK j \in 1 .. L : \E i \in 1 .. Len(Rules[log[j].file]) : c = <<j, i>>
    BY <1>6
  <2>2. PICK i \in 1 .. Len(Rules[log[j].file]) : c = <<j, i>>
    BY <2>1
  <2>3. c[1] \in 1 .. L /\ c[2] \in Nat
    BY <2>1, <2>2
  <2>4. log'[c[1]] = log[c[1]]
    BY <1>1, <2>3
  <2> QED
    BY <2>3, <2>4 DEF Holds
<1> QED
    BY <1>7, <1>8 DEF L

\* The age depends on the looks only.
LEMMA SameLooks ==
  ASSUME NEW age, NEW C, NEW H1, NEW T1, NEW now, IsAge(age, C, H1, T1, now),
         NEW D, \A c : c \in D <=> c \in C,
         NEW H2, \A c \in C : c \in H2 <=> c \in H1,
         NEW T2, \A c \in C : T2[c] = T1[c]
  PROVE  IsAge(age, D, H2, T2, now)
<1>1. D = C
    OBVIOUS
<1>2. \A b \in C : TrueSince(b, C, H2) <=> TrueSince(b, C, H1)
    BY DEF TrueSince
<1> QED
    BY <1>1, <1>2 DEF IsAge

\* After i rules the timer of n and p is the age of the looks so far.
LEMMA StagesAreAges ==
  ASSUME TypeOK, LogTyped, TimersAreAges, NEW snap \in Snapshots, NEW dt \in Nat,
         log' = Append(log, [time |-> Now + dt, file |-> active, snap |-> snap]),
         NEW n \in Names, NEW p \in Pids
  PROVE  /\ \A i \in 0 .. Len(Rules[active]) :
              IsAge(TimerAt(n, p, snap, dt)[i], Stage(n, p, i)', True(n, p)', Times(n, p)', Now')
         /\ \A i : i = Len(Rules[active]) => Stage(n, p, i)' = Checks(n, p)'
<1> DEFINE L == Len(log)
           N == Len(Rules[active])
           m == TimerAt(n, p, snap, dt)
           old == Checks(n, p)
           new == Checks(n, p)'
           H == True(n, p)'
           T == Times(n, p)'
           C(i) == Stage(n, p, i)'
           Seen(c, i) == \E k \in 1 .. i : c = <<L + 1, k>> /\ Looks(n, p, snap, k)
<1>1. active \in Accepted
    BY DEF TypeOK
<1>2. /\ L \in Nat /\ Len(log') = L + 1 /\ Now' = Now + dt /\ Now \in Nat
      /\ log'[L + 1] = [time |-> Now + dt, file |-> active, snap |-> snap]
    BY <1>1, LogGrows, NowIsTime
<1>3. /\ \A c : c \in new <=> c \in old \/ Seen(c, N)
      /\ \A c \in old : c[1] \in 1 .. L /\ c[2] \in Nat
    BY <1>1, ChecksGrow
<1>19. \A c \in old : (Holds(c, p)' <=> Holds(c, p)) /\ log'[c[1]].time = log[c[1]].time
    BY <1>1, ChecksGrow
<1>4. /\ N \in Nat
      /\ \A i \in 1 .. N : Rules[active][i].seconds \in {NoDuration} \cup 0 .. Horizon
    BY <1>1, RulesAreList
<1>5. IsAge(timers[<<n, p>>], old, True(n, p), Times(n, p), Now)
    BY DEF TimersAreAges
<1>6. timers[<<n, p>>] \in Ages
    BY <1>5 DEF IsAge
<1>7. TimerRuns(m, n, p, snap, dt)
    BY <1>1, <1>6, TimerLoop
<1> HIDE DEF m, old, new, H, T, C
<1>8. /\ m[0] = Aged(timers[<<n, p>>], dt)
      /\ \A i \in 1 .. N : m[i] = TimerRound(m[i - 1], n, p, snap, i)
  <2>1. m = [i \in 0 .. N |-> IF i = 0 THEN Aged(timers[<<n, p>>], dt)
                             ELSE TimerRound(m[i - 1], n, p, snap, i)]
    BY <1>7 DEF TimerRuns
  <2> HIDE DEF N
  <2>2. m[0] = Aged(timers[<<n, p>>], dt)
    BY <1>4, <2>1
  <2>3. ASSUME NEW i \in 1 .. N PROVE m[i] = TimerRound(m[i - 1], n, p, snap, i)
    <3>1. i \in 0 .. N /\ i # 0
      BY <1>4
    <3> QED
      BY <2>1, <3>1
  <2> QED
    BY <2>2, <2>3
<1>9. \A c \in old : log[c[1]].time \in Nat /\ log[c[1]].time <= Now
  <2> TAKE c \in old
  <2>1. log[c[1]] \in Evaluation /\ log[c[1]].time <= Now
    BY <1>2, <1>3 DEF LogTyped
  <2> QED
    BY <2>1 DEF Evaluation
<1>10. /\ \A c \in new : T[c] = log'[c[1]].time
       /\ \A c : c \in H <=> c \in new /\ Holds(c, p)'
       /\ \A c \in old : Times(n, p)[c] = log[c[1]].time
       /\ \A c : c \in True(n, p) <=> c \in old /\ Holds(c, p)
    BY DEF Times, True, T, H, new, old
<1>11. \A i : \A c : c \in C(i) <=> c \in new /\ NotAfter(c, <<L + 1, i>>)
    BY <1>2 DEF Stage, C, new
<1> HIDE DEF L, N, m, old, new, H, T, C
\* What is new of the rule i is one look, of the last evaluation.
<1>12. ASSUME NEW i \in 0 .. N, NEW c PROVE c \in C(i) <=> c \in old \/ Seen(c, i)
  <2>1. CASE c \in old
    <3>1. c \in new /\ c[1] < L + 1
      <4>1. c[1] \in 1 .. L
        BY <1>3, <2>1
      <4> QED
        BY <1>2, <1>3, <2>1, <4>1
    <3> QED
      BY <1>11, <2>1, <3>1 DEF NotAfter
  <2>2. CASE c \notin old
    <3>1. ASSUME c \in C(i) PROVE Seen(c, i)
      <4>1. PICK k \in 1 .. N : c = <<L + 1, k>> /\ Looks(n, p, snap, k)
        BY <1>3, <1>11, <2>2, <3>1
      <4>2. NotAfter(<<L + 1, k>>, <<L + 1, i>>)
        BY <1>11, <3>1, <4>1
      <4>3. k <= i
        BY <1>2, <4>2 DEF NotAfter
      <4> QED
        BY <1>4, <4>1, <4>3
    <3>2. ASSUME NEW k \in 1 .. i, c = <<L + 1, k>>, Looks(n, p, snap, k) PROVE c \in C(i)
      <4>1. c \in new
        BY <1>3, <1>4, <3>2
      <4>2. NotAfter(c, <<L + 1, i>>)
        BY <3>2 DEF NotAfter
      <4> QED
        BY <1>11, <4>1, <4>2
    <3> QED
      BY <2>2, <3>1, <3>2
  <2> QED
    BY <2>1, <2>2
<1>13. \A i \in 0 .. N : \A c \in C(i) : T[c] \in Nat /\ T[c] <= Now'
  <2> TAKE i \in 0 .. N
  <2> TAKE c \in C(i)
  <2>1. c \in new
    BY <1>11
  <2>2. T[c] = log'[c[1]].time
    BY <1>10, <2>1
  <2>3. CASE c \in old
    <3>1. T[c] = log[c[1]].time
      BY <1>19, <2>2, <2>3
    <3> QED
      BY <1>2, <1>9, <2>3, <3>1
  <2>4. CASE Seen(c, i)
    <3>1. c[1] = L + 1
      BY <2>4
    <3>2. T[c] = Now + dt
      BY <1>2, <2>2, <3>1
    <3> QED
      BY <1>2, <3>2
  <2> QED
    BY <1>12, <2>3, <2>4
<1> DEFINE Good(i) == IsAge(m[i], C(i), H, T, Now')
           S == {i \in Nat : i <= N => Good(i)}
<1> HIDE DEF Good
<1>14. 0 \in S
  <2>1. IsAge(m[0], old, True(n, p), Times(n, p), Now')
    <3>1. \A c \in old : Times(n, p)[c] \in Nat /\ Times(n, p)[c] <= Now
      BY <1>9, <1>10
    <3> QED
      BY <1>2, <1>5, <1>8, <3>1, AgedIsAge
  <2>2. \A c : c \in C(0) <=> c \in old
    BY <1>4, <1>12
  <2>3. \A c \in old : (c \in H <=> c \in True(n, p)) /\ T[c] = Times(n, p)[c]
    <3> TAKE c \in old
    <3>1. c \in new
      BY <1>3
    <3> QED
      BY <1>10, <1>19, <3>1
  <2>4. IsAge(m[0], C(0), H, T, Now')
    BY <2>1, <2>2, <2>3, SameLooks
  <2> QED
    BY <2>4 DEF Good
<1>15. ASSUME NEW j \in Nat, j < N, j \in S PROVE j + 1 \in S
  <2> DEFINE i == j + 1
             rule == Rules[active][i]
  <2>0. PICK c : c = <<L + 1, i>>
    OBVIOUS
  <2>1. i \in 1 .. N /\ i \in 0 .. N /\ j \in 0 .. N /\ i - 1 = j
    BY <1>4, <1>15
  <2>2. IsAge(m[j], C(j), H, T, Now')
    BY <1>4, <1>15 DEF Good
  <2>3. m[i] = TimerRound(m[j], n, p, snap, i)
    BY <1>8, <2>1
  <2>4. \A d : d \in C(i) <=> d \in C(j) \/ (d = c /\ Looks(n, p, snap, i))
    <3>1. \A d : Seen(d, i) <=> Seen(d, j) \/ (d = c /\ Looks(n, p, snap, i))
      BY <2>0, <2>1
    <3> QED
      BY <1>12, <2>1, <3>1
  <2>5. c[1] = L + 1 /\ c[2] = i
    BY <2>0
  <2> HIDE DEF i, Seen
  <2>6. CASE ~Looks(n, p, snap, i)
    <3>1. m[i] = m[j]
      BY <2>3, <2>6 DEF Looks, TimerRound, TimerAfter
    <3> QED
      <4>1. \A d : d \in C(i) <=> d \in C(j)
        BY <2>4, <2>6
      <4>2. IsAge(m[i], C(i), H, T, Now')
        BY <2>2, <3>1, <4>1, SameLooks
      <4> QED
        BY <4>2 DEF i, Good
  <2>7. CASE Looks(n, p, snap, i)
    <3>1. m[i] = IF snap[p] \in rule.holds THEN IF m[j] = Stopped THEN 0 ELSE m[j] ELSE Stopped
      BY <2>3, <2>7 DEF Looks, TimerRound, TimerAfter
    <3>2. c \in C(i) /\ c \in new
      BY <1>11, <2>4, <2>7
    <3>3. c \in H <=> snap[p] \in rule.holds
      <4>1. Holds(c, p)' <=> snap[p] \in rule.holds
        BY <1>2, <2>5 DEF Holds
      <4> QED
        BY <1>10, <3>2, <4>1
    <3>4. T[c] = Now'
      BY <1>2, <1>10, <2>5, <3>2
    <3>5. NotAfter(c, c)
      BY <1>2, <2>1, <2>5 DEF NotAfter
    <3>6. ASSUME NEW b \in C(j) PROVE NotAfter(b, c) /\ ~NotAfter(c, b)
      <4>1. CASE b \in old
        <5>1. b[1] \in 1 .. L
          BY <1>3, <4>1
        <5> QED
          BY <1>2, <2>5, <5>1 DEF NotAfter
      <4>2. CASE Seen(b, j)
        <5>1. PICK k \in 1 .. j : b = <<L + 1, k>>
          BY <4>2 DEF Seen
        <5>2. b[1] = L + 1 /\ b[2] = k
          BY <5>1
        <5> QED
          BY <1>2, <2>5, <5>2 DEF NotAfter, i
      <4> QED
        BY <1>12, <2>1, <4>1, <4>2
    <3>7. IsAge(IF c \in H THEN IF m[j] = Stopped THEN 0 ELSE m[j] ELSE Stopped,
                C(j) \cup {c}, H, T, Now')
      <4>1. Now' \in Nat
        BY <1>2
      <4>2. \A b \in C(j) : T[b] \in Nat /\ T[b] <= Now'
        BY <1>13, <2>1
      <4> QED
        BY <2>2, <3>4, <3>5, <3>6, <4>1, <4>2, LookIsAge
    <3>8. m[i] = IF c \in H THEN IF m[j] = Stopped THEN 0 ELSE m[j] ELSE Stopped
      BY <3>1, <3>3
    <3>9. C(i) = C(j) \cup {c}
      BY <2>4, <2>7
    <3>10. IsAge(m[i], C(i), H, T, Now')
      BY <3>7, <3>8, <3>9
    <3> QED
      BY <3>10 DEF i, Good
  <2> QED
    BY <2>6, <2>7
<1> HIDE DEF S
<1>16. 0 .. N \subseteq S
    BY <1>4, <1>14, <1>15, UpTo
<1>17. \A i \in 0 .. N : IsAge(m[i], C(i), H, T, Now')
    BY <1>16 DEF S, Good
<1>18. ASSUME NEW i, i = N PROVE C(i) = new
  <2>1. i \in 0 .. N
    BY <1>4, <1>18
  <2>2. \A c : c \in C(i) <=> c \in old \/ Seen(c, i)
    BY <1>12, <2>1
  <2>3. \A c : c \in C(i) <=> c \in new
    BY <1>3, <1>18, <2>2
  <2> QED
    BY <2>3
<1> QED
    BY <1>17, <1>18 DEF N, m, H, T, C, new

LEMMA HistInitInv == HistInit => HistInv
<1> SUFFICES ASSUME Init, log = <<>> PROVE HistInv
    BY DEF HistInit
<1>1. TypeOK
    BY InitIInv DEF IInv
<1>2. LogTyped
    BY DEF LogTyped
<1>3. Now = 0
    BY DEF Now
<1>4. \A n, p : Checks(n, p) = {}
    BY DEF Checks
<1>5. ASSUME NEW n \in Names, NEW p \in Pids
      PROVE  IsAge(timers[<<n, p>>], Checks(n, p), True(n, p), Times(n, p), Now)
  <2>1. timers[<<n, p>>] = -1
    BY DEF Init, Stopped
  <2>2. \A s \in 0 .. Horizon : ~(-1 >= s)
    OBVIOUS
  <2> QED
    BY <1>4, <2>1, <2>2 DEF IsAge, Ages, Stopped
<1>6. FiresIffHeldAtEveryCheck
    BY DEF FiresIffHeldAtEveryCheck
<1> QED
    BY <1>1, <1>2, <1>5, <1>6 DEF HistInv, TimersAreAges

\* The reloader touches neither timers nor what has fired.
LEMMA HistReloadInv == HistInv /\ UNCHANGED <<log, engineVars>> /\ TypeOK' => HistInv'
<1> SUFFICES ASSUME HistInv, UNCHANGED <<log, engineVars>>, TypeOK' PROVE HistInv'
    OBVIOUS
<1>1. log' = log /\ timers' = timers /\ fired' = fired
    BY DEF engineVars
<1>2. Now' = Now
    BY <1>1 DEF Now
<1>3. LogTyped'
    BY <1>1, <1>2 DEF HistInv, LogTyped
<1>4. ASSUME NEW n, NEW p
      PROVE  Checks(n, p)' = Checks(n, p) /\ \A c : Holds(c, p)' <=> Holds(c, p)
    BY <1>1 DEF Checks, Holds
<1>5. TimersAreAges'
  <2>1. ASSUME NEW n \in Names, NEW p \in Pids
        PROVE  True(n, p)' = True(n, p) /\ Times(n, p)' = Times(n, p)
    BY <1>1, <1>4 DEF True, Times
  <2> QED
    BY <1>1, <1>2, <1>4, <2>1 DEF HistInv, TimersAreAges
<1>6. FiresIffHeldAtEveryCheck'
  <2>1. \A l, i, p : HeldAtEveryCheck(<<l, i>>, p)' <=> HeldAtEveryCheck(<<l, i>>, p)
    BY <1>1, <1>2, <1>4 DEF HeldAtEveryCheck
  <2>2. PICK l : l = Len(log)
    OBVIOUS
  <2>3. FiresIffHeldAtEveryCheck <=>
          (log # <<>> =>
            \A i \in DOMAIN Rules[log[l].file], p \in DOMAIN log[l].snap :
              <<i, p>> \in fired <=>
                /\ log[l].snap[p] \in Rules[log[l].file][i].holds
                /\ \/ Rules[log[l].file][i].seconds = NoDuration
                   \/ HeldAtEveryCheck(<<l, i>>, p))
    BY <2>2 DEF FiresIffHeldAtEveryCheck, Latest
  <2>4. FiresIffHeldAtEveryCheck' <=>
          (log # <<>> =>
            \A i \in DOMAIN Rules[log[l].file], p \in DOMAIN log[l].snap :
              <<i, p>> \in fired <=>
                /\ log[l].snap[p] \in Rules[log[l].file][i].holds
                /\ \/ Rules[log[l].file][i].seconds = NoDuration
                   \/ HeldAtEveryCheck(<<l, i>>, p)')
    BY <1>1, <2>2 DEF FiresIffHeldAtEveryCheck, Latest
  <2> QED
    BY <2>1, <2>3, <2>4 DEF HistInv
<1> QED
    BY <1>3, <1>5, <1>6 DEF HistInv

LEMMA HistEvaluateInv ==
  ASSUME HistInv, NEW snap \in Snapshots, NEW dt \in Elapsed, HistEvaluate(snap, dt), TypeOK'
  PROVE  HistInv'
<1> DEFINE L == Len(log)
           N == Len(Rules[active])
<1>1. /\ TypeOK /\ LogTyped /\ TimersAreAges /\ active \in Accepted
      /\ dt \in Nat /\ EvaluateSnapshot(snap, dt) /\ active' = active
      /\ log' = Append(log, [time |-> Now + dt, file |-> active, snap |-> snap])
    BY EngineAssumption DEF HistInv, HistEvaluate, EvaluateSnapshot, reloadVars, TypeOK
<1>2. /\ L \in Nat /\ Len(log') = L + 1 /\ LogTyped'
      /\ log'[L + 1] = [time |-> Now + dt, file |-> active, snap |-> snap]
    BY <1>1, LogGrows
<1>3. /\ N \in Nat /\ DOMAIN Rules[active] = 1 .. N
      /\ \A i \in 1 .. N : /\ Rules[active][i].name \in Names
                          /\ Rules[active][i].seconds \in {NoDuration} \cup 0 .. Horizon
    BY <1>1, RulesAreList
<1>4. DOMAIN snap \subseteq Pids
    BY DEF Snapshots
<1>5. TimersAreAges'
  <2> SUFFICES ASSUME NEW n \in Names, NEW p \in Pids
               PROVE  IsAge(timers'[<<n, p>>], Checks(n, p)', True(n, p)', Times(n, p)', Now')
      BY DEF TimersAreAges
  <2>1. timers'[<<n, p>>] = TimerAt(n, p, snap, dt)[N]
    BY <1>1 DEF EvaluateSnapshot
  <2>2. PICK i : i = N
    OBVIOUS
  <2>3. i \in 0 .. N
    BY <1>3, <2>2
  <2>4. /\ IsAge(TimerAt(n, p, snap, dt)[i], Stage(n, p, i)', True(n, p)', Times(n, p)', Now')
        /\ Stage(n, p, i)' = Checks(n, p)'
    BY <1>1, <2>2, <2>3, StagesAreAges
  <2> QED
    BY <2>1, <2>2, <2>4
<1>6. FiresIffHeldAtEveryCheck'
  <2>1. Latest' = [time |-> Now + dt, file |-> active, snap |-> snap]
    BY <1>2 DEF Latest
  <2> SUFFICES ASSUME NEW i \in 1 .. N, NEW p \in DOMAIN snap
               PROVE  <<i, p>> \in fired' <=>
                        /\ snap[p] \in Rules[active][i].holds
                        /\ \/ Rules[active][i].seconds = NoDuration
                           \/ HeldAtEveryCheck(<<Len(log), i>>, p)'
      BY <1>3, <2>1 DEF FiresIffHeldAtEveryCheck
  <2>2. <<i, p>> \in fired' <=> Fires(i, p, snap, dt)
    BY <1>1, <1>3 DEF EvaluateSnapshot
  <2>3. ASSUME Rules[active][i].seconds # NoDuration
        PROVE  TimerAt(Rules[active][i].name, p, snap, dt)[i] >= Rules[active][i].seconds
                 <=> HeldAtEveryCheck(<<Len(log), i>>, p)'
    <3>1. PICK n \in Names : n = Rules[active][i].name
      BY <1>3
    <3>2. PICK s \in 0 .. Horizon : s = Rules[active][i].seconds
      BY <1>3, <2>3
    <3>3. p \in Pids /\ i \in 0 .. N
      BY <1>3, <1>4
    <3> DEFINE t == TimerAt(n, p, snap, dt)[i]
               C == Stage(n, p, i)'
               H == True(n, p)'
               T == Times(n, p)'
    <3>4. IsAge(t, C, H, T, Now')
      BY <1>1, <3>3, StagesAreAges
    <3>5. t >= s <=> \E b \in C : TrueSince(b, C, H) /\ Now' - T[b] >= s
      BY <3>4 DEF IsAge
    <3>6. \A b : b \in C <=> b \in Checks(n, p)' /\ NotAfter(b, <<L + 1, i>>)
      BY <1>2 DEF Stage
    <3>7. \A b \in Checks(n, p)' :
            T[b] = log'[b[1]].time /\ (b \in H <=> Holds(b, p)')
      BY DEF True, Times
    <3>8. Rules[log'[<<L + 1, i>>[1]].file][<<L + 1, i>>[2]] = Rules[active][i]
      BY <1>2
    <3>9. HeldAtEveryCheck(<<Len(log), i>>, p)' <=>
            \E b \in Checks(n, p)' :
              /\ NotAfter(b, <<L + 1, i>>) /\ Now' - log'[b[1]].time >= s
              /\ \A d \in Checks(n, p)' :
                   NotAfter(b, d) /\ NotAfter(d, <<L + 1, i>>) => Holds(d, p)'
      BY <1>2, <3>1, <3>2, <3>8 DEF HeldAtEveryCheck
    <3> HIDE DEF t, C, H, T, L
    <3>10. HeldAtEveryCheck(<<Len(log), i>>, p)' <=>
             \E b \in C : TrueSince(b, C, H) /\ Now' - T[b] >= s
      BY <3>6, <3>7, <3>9 DEF TrueSince
    <3> QED
      BY <3>1, <3>2, <3>5, <3>10 DEF t
  <2> QED
    BY <2>2, <2>3 DEF Fires
<1> QED
    BY <1>2, <1>5, <1>6 DEF HistInv

\* For every rule file that is accepted, every history of snapshots and every
\* change of the file between them: a rule fires exactly when its condition
\* is true and every look at the pid under its name has been, for as long as
\* it says.
THEOREM FiringIsSustained == HistSpec => []FiresIffHeldAtEveryCheck
<1>1. HistInit => HistInv
    BY HistInitInv
<1>2. HistInv /\ [HistNext]_histVars => HistInv'
  <2> SUFFICES ASSUME HistInv, [HistNext]_histVars PROVE HistInv'
      OBVIOUS
  <2>1. TypeOK'
    <3>1. [Next]_scriptVars
      BY DEF HistNext, HistReload, HistEvaluate, Next, histVars
    <3> QED
      BY <3>1, NextTypeOK DEF HistInv
  <2>2. CASE HistReload
    <3>1. UNCHANGED <<log, engineVars>>
      BY <2>2 DEF HistReload, Reload, Write, StartWatch, Deliver, BeginDebounce, Absorb,
                  ReadFile, Store, Cancel, StopWatch
    <3> QED
      BY <2>1, <3>1, HistReloadInv
  <2>3. ASSUME NEW snap \in Snapshots, NEW dt \in Elapsed, HistEvaluate(snap, dt) PROVE HistInv'
    BY <2>1, <2>3, HistEvaluateInv
  <2>4. CASE UNCHANGED histVars
    BY <2>1, <2>4, HistReloadInv DEF histVars, scriptVars
  <2> QED
    BY <2>2, <2>3, <2>4 DEF HistNext
<1>3. HistInv => FiresIffHeldAtEveryCheck
    BY DEF HistInv
<1> QED
    BY <1>1, <1>2, <1>3, PTL DEF HistSpec
=============================================================================
