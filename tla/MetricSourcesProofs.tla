------------------------- MODULE MetricSourcesProofs -------------------------
(***************************************************************************)
(* Theorems about MetricSources and SharedState: no batch is lost on its   *)
(* way to the engine, the list of targets only grows, the histories of the *)
(* pages miss nothing and their updates are of one moment, and all         *)
(* surfaces tell the same, for channels, series, configurations, services, *)
(* pages and snapshots of any size.                                        *)
(***************************************************************************)
EXTENDS MetricSources, SharedState, FiniteSetTheorems, NaturalsInduction, WellFoundedInduction, TLAPS

-----------------------------------------------------------------------------
(* Sequences of whatever elements.                                         *)

IsSequence(s) == \E S : s \in Seq(S)

LEMMA AppendToSequence ==
  ASSUME NEW s, NEW x, IsSequence(s)
  PROVE  /\ IsSequence(Append(s, x))
         /\ Len(s) \in Nat /\ DOMAIN s = 1 .. Len(s)
         /\ Len(Append(s, x)) = Len(s) + 1 /\ DOMAIN Append(s, x) = 1 .. Len(s) + 1
         /\ \A i \in 1 .. Len(s) : Append(s, x)[i] = s[i]
         /\ Append(s, x)[Len(s) + 1] = x
<1>1. PICK S : s \in Seq(S)
    BY DEF IsSequence
<1>2. s \in Seq(S \cup {x})
    BY <1>1
<1>3. Append(s, x) \in Seq(S \cup {x})
    BY <1>2
<1> QED
    BY <1>2, <1>3 DEF IsSequence
-----------------------------------------------------------------------------
(* What the sources hand over.                                             *)

BatchLabel == [source : Sources, round : Nat]

\* The batches of s in the sequence w are its first n, once each, in order.
Complete(w, s, n) ==
  LET own == {i \in DOMAIN w : w[i].source = s}
  IN /\ {w[i].round : i \in own} = 1 .. n
     /\ \A i, j \in own : i < j => w[i].round < w[j].round

\* One more batch of s, the next one, on the way.
LEMMA OneMore ==
  ASSUME NEW w \in Seq(BatchLabel), NEW s \in Sources, NEW n \in Nat, Complete(w, s, n),
         NEW x \in BatchLabel, x.source = s, x.round = n + 1
  PROVE  Complete(Append(w, x), s, n + 1)
<1> DEFINE v == Append(w, x)
           own == {i \in DOMAIN w : w[i].source = s}
           ownAfter == {i \in DOMAIN v : v[i].source = s}
<1>1. /\ DOMAIN w = 1 .. Len(w) /\ DOMAIN v = 1 .. Len(w) + 1 /\ Len(w) \in Nat
      /\ \A i \in DOMAIN w : v[i] = w[i] /\ w[i] \in BatchLabel
      /\ v[Len(w) + 1] = x
    OBVIOUS
<1> HIDE DEF v
<1>2. ownAfter = own \cup {Len(w) + 1}
    BY <1>1
<1>3. {w[i].round : i \in own} = 1 .. n /\ \A i, j \in own : i < j => w[i].round < w[j].round
    BY DEF Complete
<1>4. {v[i].round : i \in ownAfter} = {w[i].round : i \in own} \cup {n + 1}
    BY <1>1, <1>2
<1>5. ASSUME NEW i \in ownAfter, NEW j \in ownAfter, i < j
      PROVE  v[i].round < v[j].round
  <2>1. i \in own
    BY <1>1, <1>2, <1>5
  <2>2. CASE j \in own
    BY <1>1, <1>3, <1>5, <2>1, <2>2
  <2>3. CASE j = Len(w) + 1
    <3>1. w[i].round \in 1 .. n
      BY <1>3, <2>1
    <3> QED
      BY <1>1, <2>1, <2>3, <3>1
  <2> QED
    BY <1>2, <2>2, <2>3
<1>6. (1 .. n) \cup {n + 1} = 1 .. n + 1
    OBVIOUS
<1> QED
    BY <1>3, <1>4, <1>5, <1>6 DEF Complete, v

\* A batch of another source changes nothing for s.
LEMMA OneOfAnother ==
  ASSUME NEW w \in Seq(BatchLabel), NEW s \in Sources, NEW n, Complete(w, s, n),
         NEW x \in BatchLabel, x.source # s
  PROVE  Complete(Append(w, x), s, n)
<1> DEFINE v == Append(w, x)
           own == {i \in DOMAIN w : w[i].source = s}
           ownAfter == {i \in DOMAIN v : v[i].source = s}
<1>1. /\ DOMAIN w = 1 .. Len(w) /\ DOMAIN v = 1 .. Len(w) + 1 /\ Len(w) \in Nat
      /\ \A i \in DOMAIN w : v[i] = w[i]
      /\ v[Len(w) + 1] = x
    OBVIOUS
<1> HIDE DEF v
<1>2. ownAfter = own
    BY <1>1
<1>3. {v[i].round : i \in ownAfter} = {w[i].round : i \in own}
    BY <1>1, <1>2
<1> QED
    BY <1>1, <1>2, <1>3 DEF Complete, v
-----------------------------------------------------------------------------
(* The inductive invariant: types as far as they matter, and that the way  *)
(* of every source's batches is complete while there is a receiver.        *)

TaskFields == {"at", "asked", "left", "series"}

SourcesTyped ==
  /\ rounds \in [Sources -> Nat]
  /\ DOMAIN tasks = Sources /\ tasks = [s \in Sources |-> tasks[s]]
  /\ \A s \in Sources : DOMAIN tasks[s] = TaskFields
  /\ \A s \in Sources : tasks[s].at = "sending" => rounds[s] > 0
  /\ taken \in Seq(BatchLabel) /\ IsSequence(channel) /\ Labels(channel) \in Seq(BatchLabel)

Received == up /\ engine # "stopped"

BatchInv == SourcesTyped /\ (Received => \A s \in Sources : Complete(Way, s, HandedOver(s)))

LEMMA BatchInvSuffices == BatchInv => NoBatchLost
BY DEF BatchInv, NoBatchLost, Received, Complete, Own

LEMMA EmptyIsSequence == IsSequence(<<>>) /\ Labels(<<>>) = <<>>
<1>1. <<>> \in Seq({})
    OBVIOUS
<1>2. DOMAIN <<>> = {}
    OBVIOUS
<1> QED
    BY <1>1, <1>2 DEF IsSequence, Labels

LEMMA InitBatch == Init => BatchInv
<1> SUFFICES ASSUME Init PROVE BatchInv
    OBVIOUS
<1>1. SourcesTyped
  <2>1. IsSequence(channel) /\ Labels(channel) \in Seq(BatchLabel) /\ taken \in Seq(BatchLabel)
    BY EmptyIsSequence DEF Init, Labels
  <2>2. DOMAIN Idle = TaskFields /\ Idle.at = "waiting"
    BY DEF Idle, TaskFields
  <2> QED
    BY <2>1, <2>2 DEF Init, SourcesTyped
<1>2. Way = <<>>
    BY EmptyIsSequence DEF Init, Way
<1>3. ASSUME NEW s \in Sources PROVE Complete(Way, s, HandedOver(s))
  <2>1. HandedOver(s) = 0
    BY DEF Init, HandedOver, Idle
  <2>2. DOMAIN <<>> = {} /\ 1 .. 0 = {}
    OBVIOUS
  <2> QED
    BY <1>2, <2>1, <2>2 DEF Complete
<1> QED
    BY <1>1, <1>3 DEF BatchInv

\* A step that moves no batch: what a source has handed over stays the same.
LEMMA BatchesStay ==
  ASSUME BatchInv, SourcesTyped',
         Received' => Received,
         UNCHANGED <<channel, taken>>,
         \A s \in Sources : Received' => HandedOver(s)' = HandedOver(s)
  PROVE  BatchInv'
BY DEF BatchInv, Way, Labels

LEMMA LookKeeps ==
  ASSUME BatchInv, NEW s \in Sources, Look(s)
  PROVE  BatchInv'
<1>1. PICK seen : tasks' = [tasks EXCEPT ![s] = AfterLook(s, seen)]
    BY DEF Look
<1>2. /\ tasks[s].at = "looking"
      /\ rounds' = [rounds EXCEPT ![s] = IF tasks'[s].at = "sending" THEN @ + 1 ELSE @]
      /\ UNCHANGED <<channel, taken, up, engine>>
    BY DEF Look, env
<1>3. SourcesTyped
    BY DEF BatchInv
<1>4. DOMAIN AfterLook(s, seen) = TaskFields /\ AfterLook(s, seen).at \in {"looking", "sending", "waiting"}
    BY <1>2, <1>3 DEF SourcesTyped, AfterLook, Idle, TaskFields
<1>5. tasks'[s] = AfterLook(s, seen) /\ \A r \in Sources \ {s} : tasks'[r] = tasks[r]
    BY <1>1, <1>3 DEF SourcesTyped
<1>6. SourcesTyped'
    BY <1>1, <1>2, <1>3, <1>4, <1>5 DEF SourcesTyped, Labels
<1>7. ASSUME NEW r \in Sources PROVE HandedOver(r)' = HandedOver(r)
    BY <1>2, <1>3, <1>4, <1>5, <1>7 DEF HandedOver, SourcesTyped
<1> QED
    BY <1>2, <1>6, <1>7, BatchesStay DEF Received

LEMMA SendKeeps ==
  ASSUME BatchInv, NEW s \in Sources, Send(s)
  PROVE  BatchInv'
<1> DEFINE label == [source |-> s, round |-> rounds[s]]
<1>1. /\ tasks[s].at = "sending" /\ Received
      /\ channel' = Append(channel, BatchOf(s)) /\ tasks' = [tasks EXCEPT ![s] = Idle]
      /\ UNCHANGED <<taken, rounds, up, engine>>
    BY DEF Send, env, Received
<1>2. SourcesTyped
    BY DEF BatchInv
<1>3. label \in BatchLabel /\ label.source = s /\ label.round = HandedOver(s) + 1 /\ HandedOver(s) \in Nat
    BY <1>1, <1>2 DEF BatchLabel, HandedOver, SourcesTyped
<1>4. IsSequence(channel') /\ Labels(channel') = Append(Labels(channel), label)
  <2>1. /\ IsSequence(channel') /\ Len(channel) \in Nat
        /\ DOMAIN channel = 1 .. Len(channel) /\ DOMAIN channel' = 1 .. Len(channel) + 1
        /\ \A i \in 1 .. Len(channel) : channel'[i] = channel[i]
        /\ channel'[Len(channel) + 1] = BatchOf(s)
    BY <1>1, <1>2, AppendToSequence DEF SourcesTyped
  <2>2. Labels(channel) \in Seq(BatchLabel) /\ Len(Labels(channel)) = Len(channel)
    BY <1>2, <2>1 DEF SourcesTyped, Labels
  <2>3. Append(Labels(channel), label) =
          [i \in 1 .. Len(channel) + 1 |->
             IF i = Len(channel) + 1 THEN label ELSE Labels(channel)[i]]
    BY <2>1, <2>2, <1>3
  <2>4. ASSUME NEW i \in 1 .. Len(channel) + 1
        PROVE  [source |-> channel'[i].source, round |-> channel'[i].round] =
                 IF i = Len(channel) + 1 THEN label ELSE Labels(channel)[i]
    BY <2>1, <2>4 DEF BatchOf, Labels
  <2> QED
    BY <2>1, <2>3, <2>4 DEF Labels
<1>5. Way' = Append(Way, label) /\ Way \in Seq(BatchLabel)
    BY <1>1, <1>2, <1>3, <1>4, SMTT(30) DEF Way, SourcesTyped
<1>6. tasks'[s] = Idle /\ \A r \in Sources \ {s} : tasks'[r] = tasks[r]
    BY <1>1, <1>2 DEF SourcesTyped
<1>7. SourcesTyped'
  <2>1. Labels(channel') \in Seq(BatchLabel)
    BY <1>2, <1>3, <1>4 DEF SourcesTyped
  <2>2. DOMAIN tasks' = Sources /\ tasks' = [r \in Sources |-> tasks'[r]]
    BY <1>1, <1>2 DEF SourcesTyped
  <2>3. DOMAIN Idle = TaskFields /\ Idle.at = "waiting"
    BY DEF Idle, TaskFields
  <2> QED
    BY <1>1, <1>2, <1>4, <1>6, <2>1, <2>2, <2>3 DEF SourcesTyped
<1>8. ASSUME NEW r \in Sources PROVE Complete(Way', r, HandedOver(r)')
  <2>1. Complete(Way, r, HandedOver(r))
    BY <1>1 DEF BatchInv
  <2>2. CASE r = s
    <3>1. HandedOver(s)' = HandedOver(s) + 1
      BY <1>1, <1>2, <1>6 DEF HandedOver, Idle, SourcesTyped
    <3> QED
      BY <1>3, <1>5, <2>1, <2>2, <3>1, OneMore
  <2>3. CASE r # s
    <3>1. HandedOver(r)' = HandedOver(r)
      BY <1>1, <1>6, <2>3 DEF HandedOver
    <3> QED
      BY <1>3, <1>5, <2>1, <2>3, <3>1, OneOfAnother
  <2> QED
    BY <2>2, <2>3
<1> QED
    BY <1>7, <1>8 DEF BatchInv

LEMMA EngineTickKeeps ==
  ASSUME BatchInv, EngineTick
  PROVE  BatchInv'
<1>1. SourcesTyped
    BY DEF BatchInv
<1>2. /\ channel' = <<>> /\ taken' = taken \o Labels(channel)
      /\ UNCHANGED <<tasks, rounds, up, engine>>
    BY DEF EngineTick, env
<1>3. SourcesTyped'
  <2>1. taken' \in Seq(BatchLabel) /\ <<>> \in Seq(BatchLabel)
    BY <1>1, <1>2 DEF SourcesTyped
  <2>2. IsSequence(channel') /\ Labels(channel') = <<>>
    BY <1>2, EmptyIsSequence DEF Labels
  <2> QED
    BY <1>1, <1>2, <2>1, <2>2 DEF SourcesTyped
<1>4. Way' = Way
    BY <1>1, <1>2, EmptyIsSequence DEF Way, SourcesTyped
<1>5. Received' = Received /\ \A s \in Sources : HandedOver(s)' = HandedOver(s)
    BY <1>2 DEF Received, HandedOver
<1> QED
    BY <1>3, <1>4, <1>5 DEF BatchInv
LEMMA BeginKeeps ==
  ASSUME BatchInv, NEW s \in Sources, Begin(s)
  PROVE  BatchInv'
<1> DEFINE begun == [at |-> "looking", asked |-> EndpointsFor(s), left |-> EndpointsFor(s),
                     series |-> <<>>]
<1>1. /\ tasks[s].at = "waiting" /\ tasks' = [tasks EXCEPT ![s] = begun]
      /\ UNCHANGED <<channel, taken, rounds, up, engine>>
    BY DEF Begin, env
<1>2. SourcesTyped
    BY DEF BatchInv
<1>3. DOMAIN begun = TaskFields /\ begun.at = "looking"
    BY DEF TaskFields
<1> HIDE DEF begun
<1>4. tasks'[s] = begun /\ \A r \in Sources \ {s} : tasks'[r] = tasks[r]
    BY <1>1, <1>2 DEF SourcesTyped
<1>5. SourcesTyped'
    BY <1>1, <1>2, <1>3, <1>4 DEF SourcesTyped, Labels
<1>6. ASSUME NEW r \in Sources PROVE HandedOver(r)' = HandedOver(r)
    BY <1>1, <1>3, <1>4 DEF HandedOver
<1> QED
    BY <1>1, <1>5, <1>6, BatchesStay DEF Received

LEMMA StopKeeps ==
  ASSUME BatchInv, NEW s \in Sources, SourceStops(s)
  PROVE  BatchInv'
<1>1. /\ tasks[s].at = "waiting" \/ engine = "stopped"
      /\ tasks' = [tasks EXCEPT ![s].at = "done"]
      /\ UNCHANGED <<channel, taken, rounds, up, engine>>
    BY DEF SourceStops, env
<1>2. SourcesTyped
    BY DEF BatchInv
<1>3. /\ DOMAIN tasks'[s] = TaskFields /\ tasks'[s].at = "done"
      /\ \A r \in Sources \ {s} : tasks'[r] = tasks[r]
    BY <1>1, <1>2 DEF SourcesTyped, TaskFields
<1>4. SourcesTyped'
    BY <1>1, <1>2, <1>3 DEF SourcesTyped, Labels
<1>5. ASSUME NEW r \in Sources, Received PROVE HandedOver(r)' = HandedOver(r)
    BY <1>1, <1>3, <1>5 DEF HandedOver, Received
<1> QED
    BY <1>1, <1>4, <1>5, BatchesStay DEF Received

\* When main returns or the engine stops there is no receiver any more.
LEMMA NoReceiverKeeps ==
  ASSUME BatchInv, EngineStops \/ MainReturns
  PROVE  BatchInv'
<1>1. SourcesTyped
    BY DEF BatchInv
<1>2. /\ channel' = <<>> /\ ~Received'
      /\ UNCHANGED <<taken, rounds>>
      /\ tasks' = tasks \/ tasks' = [s \in Sources |-> Idle]
    BY DEF EngineStops, MainReturns, Received
<1>3. IsSequence(channel') /\ Labels(channel') \in Seq(BatchLabel)
    BY <1>2, EmptyIsSequence DEF Labels
<1>4. DOMAIN Idle = TaskFields /\ Idle.at = "waiting"
    BY DEF Idle, TaskFields
<1>5. SourcesTyped'
  <2>1. CASE tasks' = tasks
    BY <1>1, <1>2, <1>3, <2>1 DEF SourcesTyped
  <2>2. CASE tasks' = [s \in Sources |-> Idle]
    BY <1>1, <1>2, <1>3, <1>4, <2>2 DEF SourcesTyped
  <2> QED
    BY <1>2, <2>1, <2>2
<1> QED
    BY <1>2, <1>5 DEF BatchInv

LEMMA NextBatch == BatchInv /\ [Next]_vars => BatchInv'
<1> SUFFICES ASSUME BatchInv, [Next]_vars PROVE BatchInv'
    OBVIOUS
<1>1. CASE UNCHANGED <<tasks, channel, taken, rounds, up, engine>>
  <2>1. SourcesTyped' /\ Received' = Received /\ \A s \in Sources : HandedOver(s)' = HandedOver(s)
    BY <1>1 DEF BatchInv, SourcesTyped, Labels, Received, HandedOver
  <2> QED
    BY <1>1, <2>1, BatchesStay
<1>2. CASE ServicesChange
    BY <1>1, <1>2 DEF ServicesChange
<1>3. CASE Finder
    BY <1>1, <1>3 DEF Finder, FinderBegins, FinderScans, FinderProbes, FinderStops, env
<1>4. ASSUME NEW s \in Sources, Source(s) PROVE BatchInv'
    BY <1>4, BeginKeeps, LookKeeps, SendKeeps, StopKeeps DEF Source
<1>5. CASE EngineTick
    BY <1>5, EngineTickKeeps
<1>6. CASE EngineStops \/ MainReturns
    BY <1>6, NoReceiverKeeps
<1>7. CASE Cancel
    BY <1>1, <1>7 DEF Cancel
<1>8. CASE UNCHANGED vars
    BY <1>1, <1>8 DEF vars
<1> QED
    BY <1>2, <1>3, <1>4, <1>5, <1>6, <1>7, <1>8 DEF Next

\* Whatever the size of the channel and however the sources, the engine and
\* the end of the program are interleaved: what the sources have handed over
\* is with the engine or in the channel, once and in order.
THEOREM NoBatchIsLost == Spec => []NoBatchLost
<1> QED
    BY InitBatch, NextBatch, BatchInvSuffices, PTL DEF Spec
-----------------------------------------------------------------------------
(* Induction over the natural numbers, with a set for the predicate.       *)

LEMMA SetOfAllNaturals ==
  ASSUME NEW S, 0 \in S, \A n \in Nat : n \in S => n + 1 \in S
  PROVE  Nat \subseteq S
<1> SUFFICES ASSUME Nat \ S # {} PROVE FALSE
    OBVIOUS
<1> DEFINE R == OpToRel(<, Nat)
<1>2. IsWellFoundedOn(R, Nat)
    BY NatLessThanWellFounded
<1> HIDE DEF R
<1>3. PICK x \in Nat \ S : \A y \in Nat \ S : ~ (<<y, x>> \in R)
    BY <1>2, WFMin
<1>4. x # 0 /\ x - 1 \in Nat
    OBVIOUS
<1>5. <<x - 1, x>> \in R
    BY <1>4 DEF R, OpToRel
<1>6. x - 1 \in S
    BY <1>3, <1>4, <1>5
<1>7. x - 1 + 1 \in S
    BY <1>4, <1>6
<1> QED
    BY <1>3, <1>7

\* The functions that MergeTargets and OpenPorts define, up to the place n.
Merges(m, e, d, n) == m = [k \in 0 .. n |-> IF k = 0 THEN e ELSE WithTarget(m[k - 1], d[k])]

ScanStep(svcs, ports, open, k) ==
  IF ports[k] \in DOMAIN svcs THEN Append(open, ports[k]) ELSE open
Scans(m, svcs, ports, n) ==
  m = [k \in 0 .. n |-> IF k = 0 THEN <<>> ELSE ScanStep(svcs, ports, m[k - 1], k)]

\* What a loop over a sequence builds exists, step by step.
LEMMA MergedExists ==
  ASSUME NEW e, NEW d, NEW N \in Nat
  PROVE  \E m : Merges(m, e, d, N)
<1> USE DEF Merges
<1> DEFINE S == {n \in Nat : \E m : Merges(m, e, d, n)}
<1>1. 0 \in S
  <2> DEFINE m == [k \in 0 .. 0 |-> e]
  <2>1. m = [k \in 0 .. 0 |-> IF k = 0 THEN e ELSE WithTarget(m[k - 1], d[k])]
    OBVIOUS
  <2> QED
    BY <2>1
<1>2. ASSUME NEW n \in Nat, n \in S PROVE n + 1 \in S
  <2>1. PICK m : m = [k \in 0 .. n |-> IF k = 0 THEN e ELSE WithTarget(m[k - 1], d[k])]
    BY <1>2
  <2> DEFINE l == [k \in 0 .. n + 1 |-> IF k = n + 1 THEN WithTarget(m[n], d[n + 1]) ELSE m[k]]
  <2>2. ASSUME NEW k \in 0 .. n + 1
        PROVE  l[k] = IF k = 0 THEN e ELSE WithTarget(l[k - 1], d[k])
    <3>1. CASE k = n + 1
      BY <3>1
    <3>2. CASE k \in 0 .. n
      BY <2>1, <3>2
    <3> QED
      BY <3>1, <3>2
  <2>3. l = [k \in 0 .. n + 1 |-> IF k = 0 THEN e ELSE WithTarget(l[k - 1], d[k])]
    BY <2>2
  <2> HIDE DEF l
  <2> QED
    BY <2>3
<1> HIDE DEF S, Merges
<1>3. Nat \subseteq S
    BY <1>1, <1>2, SetOfAllNaturals
<1> QED
    BY <1>3 DEF S

LEMMA ScannedExists ==
  ASSUME NEW svcs, NEW ports, NEW N \in Nat
  PROVE  \E m : Scans(m, svcs, ports, N)
<1> DEFINE Step(q, k) == ScanStep(svcs, ports, q, k)
           S == {n \in Nat : \E m : Scans(m, svcs, ports, n)}
<1> USE DEF Scans
<1>1. 0 \in S
  <2> DEFINE m == [k \in 0 .. 0 |-> <<>>]
  <2>1. m = [k \in 0 .. 0 |-> IF k = 0 THEN <<>> ELSE Step(m[k - 1], k)]
    OBVIOUS
  <2> QED
    BY <2>1
<1>2. ASSUME NEW n \in Nat, n \in S PROVE n + 1 \in S
  <2>1. PICK m : m = [k \in 0 .. n |-> IF k = 0 THEN <<>> ELSE Step(m[k - 1], k)]
    BY <1>2
  <2> DEFINE l == [k \in 0 .. n + 1 |-> IF k = n + 1 THEN Step(m[n], n + 1) ELSE m[k]]
  <2>2. ASSUME NEW k \in 0 .. n + 1
        PROVE  l[k] = IF k = 0 THEN <<>> ELSE Step(l[k - 1], k)
    <3>1. CASE k = n + 1
      BY <3>1
    <3>2. CASE k \in 0 .. n
      BY <2>1, <3>2
    <3> QED
      BY <3>1, <3>2
  <2>3. l = [k \in 0 .. n + 1 |-> IF k = 0 THEN <<>> ELSE Step(l[k - 1], k)]
    BY <2>2
  <2> HIDE DEF l
  <2> QED
    BY <2>3
<1> HIDE DEF S, Scans
<1>3. Nat \subseteq S
    BY <1>1, <1>2, SetOfAllNaturals
<1> QED
    BY <1>3 DEF S
-----------------------------------------------------------------------------
(* Merging: the list that is merged into stays in front, and only targets  *)
(* with new names come after it.                                           *)

\* The targets of l have names of their own, but for those at the places C.
Distinct(l, C) == \A i, j \in DOMAIN l : l[i].id = l[j].id => i = j \/ {i, j} \subseteq C

Starts(e, l) == Len(e) <= Len(l) /\ \A i \in 1 .. Len(e) : l[i] = e[i]

Grown(e, l, C) == IsSequence(l) /\ Starts(e, l) /\ Distinct(l, C)

LEMMA WithTargetGrows ==
  ASSUME NEW e, NEW l, NEW C, NEW t, IsSequence(e), Grown(e, l, C)
  PROVE  Grown(e, WithTarget(l, t), C)
<1> DEFINE v == Append(l, t)
<1>1. CASE \E i \in DOMAIN l : l[i].id = t.id
    BY <1>1 DEF WithTarget
<1>2. CASE ~ \E i \in DOMAIN l : l[i].id = t.id
  <2>1. WithTarget(l, t) = v
    BY <1>2 DEF WithTarget
  <2>2. /\ IsSequence(v) /\ Len(l) \in Nat /\ DOMAIN l = 1 .. Len(l)
        /\ Len(v) = Len(l) + 1 /\ DOMAIN v = 1 .. Len(l) + 1
        /\ \A i \in 1 .. Len(l) : v[i] = l[i]
        /\ v[Len(l) + 1] = t
    BY AppendToSequence DEF Grown
  <2> HIDE DEF v
  <2>3. Len(e) \in Nat
    BY DEF IsSequence
  <2>4. Starts(e, v)
    BY <2>2, <2>3 DEF Grown, Starts
  <2>5. Distinct(v, C)
    BY <1>2, <2>2 DEF Grown, Distinct
  <2> QED
    BY <2>1, <2>2, <2>4, <2>5 DEF Grown
<1> QED
    BY <1>1, <1>2

LEMMA MergeGrows ==
  ASSUME NEW e, NEW d, NEW C, IsSequence(e), Len(d) \in Nat, Distinct(e, C)
  PROVE  Grown(e, MergeTargets(e, d), C)
<1> DEFINE N == Len(d)
           m == CHOOSE q : Merges(q, e, d, N)
<1>1. \E q : Merges(q, e, d, N)
    BY MergedExists
<1>2. Merges(m, e, d, N)
    BY <1>1
<1>3. MergeTargets(e, d) = m[N]
    BY DEF MergeTargets, Merges
<1> HIDE DEF m
<1> DEFINE S == {n \in Nat : n <= N => Grown(e, m[n], C)}
<1>4. 0 \in S
  <2>1. m[0] = e /\ Len(e) \in Nat
    BY <1>2 DEF IsSequence, Merges
  <2> QED
    BY <2>1 DEF Grown, Starts
<1>5. ASSUME NEW n \in Nat, n \in S PROVE n + 1 \in S
  <2>1. SUFFICES ASSUME n + 1 <= N PROVE Grown(e, m[n + 1], C)
    OBVIOUS
  <2>2. m[n + 1] = WithTarget(m[n], d[n + 1])
    BY <1>2, <2>1 DEF Merges
  <2>3. Grown(e, m[n], C)
    BY <1>5, <2>1
  <2> QED
    BY <2>2, <2>3, WithTargetGrows
<1> HIDE DEF S
<1>6. Nat \subseteq S
    BY <1>4, <1>5, SetOfAllNaturals
<1>7. N \in S
    BY <1>6
<1> QED
    BY <1>3, <1>7 DEF S

LEMMA OpenIsSequence ==
  ASSUME NEW svcs, NEW ports, Len(ports) \in Nat
  PROVE  IsSequence(OpenPorts(svcs, ports))
<1> DEFINE N == Len(ports)
           m == CHOOSE q : Scans(q, svcs, ports, N)
<1>1. \E q : Scans(q, svcs, ports, N)
    BY ScannedExists
<1>2. Scans(m, svcs, ports, N)
    BY <1>1
<1>3. OpenPorts(svcs, ports) = m[N]
    BY DEF OpenPorts, Scans, ScanStep
<1> HIDE DEF m
<1> DEFINE S == {n \in Nat : n <= N => IsSequence(m[n])}
<1>4. 0 \in S
    BY <1>2, EmptyIsSequence DEF Scans
<1>5. ASSUME NEW n \in Nat, n \in S PROVE n + 1 \in S
  <2>1. SUFFICES ASSUME n + 1 <= N PROVE IsSequence(m[n + 1])
    OBVIOUS
  <2>2. n + 1 \in 0 .. N /\ n + 1 # 0 /\ n + 1 - 1 = n
    BY <2>1
  <2>3. m[n + 1] = ScanStep(svcs, ports, m[n], n + 1)
    BY <1>2, <2>2 DEF Scans
  <2>4. IsSequence(m[n])
    BY <1>5, <2>1
  <2>5. IsSequence(Append(m[n], ports[n + 1]))
    BY <2>4, AppendToSequence
  <2> QED
    BY <2>3, <2>4, <2>5 DEF ScanStep
<1> HIDE DEF S
<1>6. Nat \subseteq S
    BY <1>4, <1>5, SetOfAllNaturals
<1>7. N \in S
    BY <1>6
<1> QED
    BY <1>3, <1>7 DEF S

\* IsPrefix compares a part of the longer sequence.
LEMMA StartsIsPrefix ==
  ASSUME NEW e, NEW l, IsSequence(e), IsSequence(l), Starts(e, l)
  PROVE  IsPrefix(e, l)
<1>1. PICK S, T : e \in Seq(S) /\ l \in Seq(T)
    BY DEF IsSequence
<1>2. e \in Seq(S \cup T) /\ l \in Seq(S \cup T)
    BY <1>1
<1>3. SubSeq(e, 1, Len(e)) = [i \in 1 .. Len(e) |-> e[i]]
    BY <1>2
<1>4. SubSeq(l, 1, Len(e)) = [i \in 1 .. Len(e) |-> l[i]]
    BY <1>2 DEF Starts
<1> QED
    BY <1>3, <1>4 DEF Starts, IsPrefix
-----------------------------------------------------------------------------
(* The list of targets.                                                    *)

TargetInv ==
  /\ IsSequence(targets) /\ IsSequence(served) /\ Starts(served, targets)
  /\ Distinct(targets, DOMAIN Config)
  /\ DOMAIN finder = {"at", "ports", "found"}
  /\ finder.at = "probing" => IsSequence(finder.found)

Growth ==
  /\ IsPrefix(targets, targets') /\ IsPrefix(served, targets')
  /\ \A i, j \in DOMAIN targets' :
       targets'[i].id = targets'[j].id => i = j \/ {i, j} \subseteq DOMAIN Config

LEMMA InitTargets == Init => TargetInv
<1> SUFFICES ASSUME Init PROVE TargetInv
    OBVIOUS
<1> DEFINE configured == [i \in DOMAIN Config |-> TargetFromConfig(Config[i])]
           found == Discover(services, ScanPorts)
<1>1. Len(Config) \in Nat /\ DOMAIN Config = 1 .. Len(Config) /\ Len(ScanPorts) \in Nat
    BY SourcesAssumption
<1>2. configured \in Seq({configured[i] : i \in DOMAIN Config})
    BY <1>1
<1>3. IsSequence(configured) /\ DOMAIN configured = DOMAIN Config
    BY <1>2 DEF IsSequence
<1>4. Distinct(configured, DOMAIN Config)
    BY <1>3 DEF Distinct
<1>5. Len(found) \in Nat
  <2> DEFINE open == OpenPorts(services, ScanPorts)
  <2>1. PICK S : open \in Seq(S)
    BY <1>1, OpenIsSequence DEF IsSequence
  <2> HIDE DEF open
  <2>2. found = [i \in DOMAIN open |-> PortTarget(services, open[i])]
    BY DEF Discover, open
  <2>3. [i \in DOMAIN open |-> PortTarget(services, open[i])]
          \in Seq({PortTarget(services, open[i]) : i \in DOMAIN open})
    BY <2>1
  <2> QED
    BY <2>2, <2>3
<1>6. targets = MergeTargets(configured, found) /\ served = targets /\ finder = FinderIdle
    BY DEF Init
<1> HIDE DEF configured, found
<1>7. Grown(configured, targets, DOMAIN Config)
    BY <1>3, <1>4, <1>5, <1>6, MergeGrows
<1>8. Starts(served, targets)
  <2>1. Len(targets) \in Nat
    BY <1>7 DEF Grown, IsSequence
  <2> QED
    BY <1>6, <2>1 DEF Starts
<1> QED
    BY <1>6, <1>7, <1>8 DEF TargetInv, Grown, FinderIdle

\* A list that stays as it is keeps everything.
LEMMA TargetsStay ==
  ASSUME TargetInv, UNCHANGED <<targets, served>>,
         DOMAIN finder' = {"at", "ports", "found"},
         finder'.at = "probing" => IsSequence(finder'.found)
  PROVE  TargetInv' /\ Growth
<1>1. TargetInv'
    BY DEF TargetInv
<1>2. Starts(targets, targets)
    BY DEF TargetInv, Starts, IsSequence
<1> QED
    BY <1>1, <1>2, StartsIsPrefix DEF TargetInv, Growth, Distinct

\* The scan collects ports, the probes collect targets; the last probe is
\* followed by the merge.
LEMMA ProbeGrows ==
  ASSUME TargetInv, FinderProbes
  PROVE  TargetInv' /\ Growth
<1> DEFINE found == Append(finder.found, PortTarget(services, Head(finder.ports)))
<1>1. IsSequence(found) /\ Len(found) \in Nat
  <2>1. IsSequence(finder.found)
    BY DEF TargetInv, FinderProbes
  <2> QED
    BY <2>1, AppendToSequence
<1> HIDE DEF found
<1>2. CASE Len(finder.ports) > 1
  <2>1. /\ finder' = [finder EXCEPT !.ports = Tail(@), !.found = found]
        /\ UNCHANGED <<targets, served>>
    BY <1>2 DEF FinderProbes, found
  <2>2. DOMAIN finder' = {"at", "ports", "found"} /\ finder'.found = found
    BY <2>1 DEF TargetInv
  <2> QED
    BY <1>1, <2>1, <2>2, TargetsStay
<1>3. CASE ~ (Len(finder.ports) > 1)
  <2>1. finder' = FinderIdle /\ targets' = MergeTargets(targets, found) /\ served' = served
    BY <1>3 DEF FinderProbes, found
  <2>2. Grown(targets, targets', DOMAIN Config)
    BY <1>1, <2>1, MergeGrows DEF TargetInv
  <2>3. IsSequence(served) /\ IsSequence(targets) /\ IsSequence(targets')
        /\ Starts(targets, targets') /\ Distinct(targets', DOMAIN Config)
    BY <2>2 DEF TargetInv, Grown
  <2>4. Starts(served, targets')
    <3>1. Len(served) \in Nat /\ Len(targets) \in Nat /\ Len(targets') \in Nat
      BY <2>3 DEF IsSequence
    <3> QED
      BY <2>3, <3>1 DEF TargetInv, Starts
  <2>5. TargetInv'
    BY <2>1, <2>3, <2>4 DEF TargetInv, FinderIdle
  <2> QED
    BY <2>3, <2>4, <2>5, StartsIsPrefix DEF Growth, Distinct
<1> QED
    BY <1>2, <1>3

LEMMA NextTargets == TargetInv /\ [Next]_vars => TargetInv' /\ Growth
<1> SUFFICES ASSUME TargetInv, [Next]_vars PROVE TargetInv' /\ Growth
    OBVIOUS
<1>1. CASE UNCHANGED <<targets, served, finder>>
    BY <1>1, TargetsStay DEF TargetInv
<1>2. CASE ServicesChange
    BY <1>1, <1>2 DEF ServicesChange
<1>3. CASE FinderBegins
  <2>1. UNCHANGED <<targets, served>> /\ DOMAIN finder' = {"at", "ports", "found"}
        /\ finder'.at = "scanning"
    BY <1>3 DEF FinderBegins
  <2> QED
    BY <2>1, TargetsStay
<1>4. CASE FinderScans
  <2> DEFINE open == IF Head(finder.ports) \in DOMAIN services
                     THEN Append(finder.found, Head(finder.ports)) ELSE finder.found
  <2>1. /\ UNCHANGED <<targets, served>> /\ finder.at = "scanning"
        /\ \/ finder' = [finder EXCEPT !.ports = Tail(@), !.found = open]
           \/ finder' = FinderIdle
           \/ finder' = [at |-> "probing", ports |-> open, found |-> <<>>]
    BY <1>4 DEF FinderScans
  <2> HIDE DEF open
  <2>2. CASE finder' = [finder EXCEPT !.ports = Tail(@), !.found = open]
    <3>1. DOMAIN finder' = {"at", "ports", "found"} /\ finder'.at = "scanning"
      BY <2>1, <2>2 DEF TargetInv
    <3> QED
      BY <2>1, <3>1, TargetsStay
  <2>3. CASE finder' = FinderIdle
    BY <2>1, <2>3, TargetsStay DEF FinderIdle
  <2>4. CASE finder' = [at |-> "probing", ports |-> open, found |-> <<>>]
    BY <2>1, <2>4, EmptyIsSequence, TargetsStay
  <2> QED
    BY <2>1, <2>2, <2>3, <2>4
<1>5. CASE FinderProbes
    BY <1>5, ProbeGrows
<1>6. CASE FinderStops
  <2>1. UNCHANGED <<targets, served>> /\ DOMAIN finder' = {"at", "ports", "found"}
        /\ finder'.at = "done"
    BY <1>6 DEF FinderStops, TargetInv
  <2> QED
    BY <2>1, TargetsStay
<1>7. ASSUME NEW s \in Sources, Source(s) PROVE TargetInv' /\ Growth
    BY <1>1, <1>7 DEF Source, Begin, Look, Send, SourceStops
<1>8. CASE EngineTick \/ EngineStops \/ Cancel
    BY <1>1, <1>8 DEF EngineTick, EngineStops, Cancel
<1>9. CASE MainReturns
  <2>1. UNCHANGED <<targets, served>> /\ finder' = FinderIdle
    BY <1>9 DEF MainReturns
  <2> QED
    BY <2>1, TargetsStay DEF FinderIdle
<1>10. CASE UNCHANGED vars
    BY <1>1, <1>10 DEF vars
<1> QED
    BY <1>2, <1>3, <1>4, <1>5, <1>6, <1>7, <1>8, <1>9, <1>10 DEF Next, Finder

\* For every configuration, every choice of ports and whatever services come
\* and go: the list of targets only grows, the copy that the gRPC server
\* holds stays a part of it, and no discovered target is named twice.
THEOREM TargetListOnlyGrows == Spec => TargetListGrows
<1>1. TargetInv /\ [Next]_vars => [Growth]_vars
    BY NextTargets
<1> QED
    BY <1>1, InitTargets, NextTargets, PTL DEF Spec, TargetListGrows, Growth
-----------------------------------------------------------------------------
(* The histories of the pages.                                             *)

RecentStep(s, cutoff, h, n) == IF s[n] >= cutoff THEN Append(h, s[n]) ELSE h
Recents(m, s, cutoff, n) ==
  m = [k \in 0 .. n |-> IF k = 0 THEN <<>> ELSE RecentStep(s, cutoff, m[k - 1], k)]

LEMMA RecentExists ==
  ASSUME NEW s, NEW cutoff, NEW N \in Nat
  PROVE  \E m : Recents(m, s, cutoff, N)
<1> DEFINE Step(h, k) == RecentStep(s, cutoff, h, k)
           S == {n \in Nat : \E m : m = [k \in 0 .. n |-> IF k = 0 THEN <<>> ELSE Step(m[k - 1], k)]}
<1>1. 0 \in S
  <2> DEFINE m == [k \in 0 .. 0 |-> <<>>]
  <2>1. m = [k \in 0 .. 0 |-> IF k = 0 THEN <<>> ELSE Step(m[k - 1], k)]
    OBVIOUS
  <2> QED
    BY <2>1
<1>2. ASSUME NEW n \in Nat, n \in S PROVE n + 1 \in S
  <2>1. PICK m : m = [k \in 0 .. n |-> IF k = 0 THEN <<>> ELSE Step(m[k - 1], k)]
    BY <1>2
  <2> DEFINE l == [k \in 0 .. n + 1 |-> IF k = n + 1 THEN Step(m[n], n + 1) ELSE m[k]]
  <2>2. ASSUME NEW k \in 0 .. n + 1
        PROVE  l[k] = IF k = 0 THEN <<>> ELSE Step(l[k - 1], k)
    <3>1. CASE k = n + 1
      BY <3>1
    <3>2. CASE k \in 0 .. n
      BY <2>1, <3>2
    <3> QED
      BY <3>1, <3>2
  <2>3. l = [k \in 0 .. n + 1 |-> IF k = 0 THEN <<>> ELSE Step(l[k - 1], k)]
    BY <2>2
  <2> HIDE DEF l
  <2> QED
    BY <2>3
<1> HIDE DEF S
<1>3. Nat \subseteq S
    BY <1>1, <1>2, SetOfAllNaturals
<1>4. N \in S
    BY <1>3
<1> QED
    BY <1>4 DEF S, Recents

\* How often v is among the first n elements of s.
Times(s, n, v) == Cardinality({i \in 1 .. n : s[i] = v})

LEMMA OneTimeMore ==
  ASSUME NEW s, NEW n \in Nat, NEW v
  PROVE  /\ Times(s, n, v) \in Nat
         /\ Times(s, n + 1, v) = IF s[n + 1] = v THEN Times(s, n, v) + 1 ELSE Times(s, n, v)
<1> DEFINE T == {i \in 1 .. n : s[i] = v}
<1>1. IsFiniteSet(T)
  <2>1. IsFiniteSet(1 .. n)
    BY FS_Interval
  <2>2. T \in SUBSET (1 .. n)
    OBVIOUS
  <2> QED
    BY <2>1, <2>2, FS_Subset
<1>2. {i \in 1 .. n + 1 : s[i] = v} = IF s[n + 1] = v THEN T \cup {n + 1} ELSE T
    OBVIOUS
<1>3. n + 1 \notin T
    OBVIOUS
<1> HIDE DEF T
<1>4. Cardinality(T \cup {n + 1}) = Cardinality(T) + 1 /\ Cardinality(T) \in Nat
    BY <1>1, <1>3, FS_AddElement, FS_CardinalityType
<1> QED
    BY <1>2, <1>4 DEF Times, T

\* What is not older than the cutoff is in the history as often as in the series.
LEMMA RecentIsKept ==
  ASSUME NEW s \in Seq(Nat), NEW cutoff \in Nat, NEW m, Recents(m, s, cutoff, Len(s)),
         NEW v \in Nat, v >= cutoff
  PROVE  /\ m[Len(s)] \in Seq(Nat)
         /\ Times(m[Len(s)], Len(m[Len(s)]), v) = Times(s, Len(s), v)
<1> DEFINE N == Len(s)
           SoFar(n) == m[n] \in Seq(Nat) /\ Times(m[n], Len(m[n]), v) = Times(s, n, v)
           S == {n \in Nat : n <= N => SoFar(n)}
<1>0. N \in Nat
    OBVIOUS
<1>1. 0 \in S
  <2>1. m[0] = <<>>
    BY <1>0 DEF Recents
  <2>2. <<>> \in Seq(Nat) /\ Len(<<>>) = 0
    OBVIOUS
  <2>3. {i \in 1 .. 0 : <<>>[i] = v} = {} /\ {i \in 1 .. 0 : s[i] = v} = {}
    OBVIOUS
  <2> QED
    BY <2>1, <2>2, <2>3 DEF Times
<1>2. ASSUME NEW n \in Nat, n \in S PROVE n + 1 \in S
  <2>1. SUFFICES ASSUME n + 1 <= N PROVE SoFar(n + 1)
    OBVIOUS
  <2>2. SoFar(n) /\ s[n + 1] \in Nat
    BY <1>2, <2>1
  <2>3. m[n + 1] = IF s[n + 1] >= cutoff THEN Append(m[n], s[n + 1]) ELSE m[n]
    <3>1. m[n + 1] = RecentStep(s, cutoff, m[n], n + 1)
      BY <1>0, <2>1 DEF Recents
    <3> QED
      BY <3>1 DEF RecentStep
  <2>4. CASE s[n + 1] < cutoff
    <3>1. Times(s, n + 1, v) = Times(s, n, v)
      BY <2>2, <2>4, OneTimeMore
    <3> QED
      BY <2>2, <2>3, <2>4, <3>1
  <2>5. CASE s[n + 1] >= cutoff
    <3> DEFINE h == m[n]  g == Append(h, s[n + 1])
    <3>1. m[n + 1] = g
      BY <2>3, <2>5
    <3>2. /\ g \in Seq(Nat) /\ Len(h) \in Nat /\ Len(g) = Len(h) + 1
          /\ g[Len(h) + 1] = s[n + 1] /\ \A i \in 1 .. Len(h) : g[i] = h[i]
      BY <2>2, SMTT(30)
    <3> HIDE DEF g, h
    <3>3. {i \in 1 .. Len(h) : g[i] = v} = {i \in 1 .. Len(h) : h[i] = v}
      BY <3>2
    <3>4. Times(g, Len(h), v) = Times(h, Len(h), v)
      BY <3>3 DEF Times
    <3>5. Times(g, Len(h) + 1, v) = IF g[Len(h) + 1] = v THEN Times(g, Len(h), v) + 1 ELSE Times(g, Len(h), v)
      <4>1. Len(h) \in Nat
        BY <3>2
      <4> QED
        BY <4>1, OneTimeMore
    <3>6. Times(s, n + 1, v) = IF s[n + 1] = v THEN Times(s, n, v) + 1 ELSE Times(s, n, v)
      BY OneTimeMore
    <3>7. Times(h, Len(h), v) = Times(s, n, v)
      BY <2>2 DEF h
    <3> QED
      BY <3>1, <3>2, <3>4, <3>5, <3>6, <3>7
  <2> QED
    BY <2>2, <2>4, <2>5
<1> HIDE DEF S
<1>3. Nat \subseteq S
    BY <1>1, <1>2, SetOfAllNaturals
<1>4. N \in S
    BY <1>3
<1> QED
    BY <1>4 DEF S

SeriesInv ==
  /\ now \in Nat /\ series \in Seq(Nat)
  /\ pc = [t \in Tasks |-> pc[t]] /\ held = [t \in Tasks |-> held[t]]
  /\ \A t \in Tasks : held[t].at \in Nat

LEMMA SeriesInvSuffices == SeriesInv => HistoryMissesNothing
<1> SUFFICES ASSUME SeriesInv, NEW d \in 0 .. MaxNow, NEW i \in DOMAIN series,
                    \A j \in DOMAIN series : series[i] + d >= series[j]
             PROVE  Cardinality({j \in DOMAIN series : series[j] = series[i]}) =
                    Cardinality({j \in DOMAIN History(series, d) : History(series, d)[j] = series[i]})
    BY DEF HistoryMissesNothing
<1> DEFINE N == Len(series)
           cutoff == IF series[N] >= d THEN series[N] - d ELSE 0
           m == CHOOSE q : Recents(q, series, cutoff, N)
<1>1. series \in Seq(Nat) /\ N \in Nat /\ DOMAIN series = 1 .. N /\ N \in DOMAIN series
    BY DEF SeriesInv
<1>2. CASE d = 0
    BY <1>2 DEF History
<1>3. CASE d # 0
  <2>1. \E q : Recents(q, series, cutoff, N)
    BY <1>1, RecentExists
  <2>2. Recents(m, series, cutoff, N)
    BY <2>1
  <2>3. History(series, d) = m[N]
    BY <1>1, <1>3 DEF History, Recents, RecentStep
  <2>4. cutoff \in Nat /\ series[i] \in Nat /\ series[i] >= cutoff
    <3>1. series[i] + d >= series[N] /\ series[N] \in Nat /\ series[i] \in Nat /\ d \in Nat
      BY <1>1, SharedStateAssumption, SMTT(30)
    <3> QED
      BY <3>1
  <2> HIDE DEF m, cutoff
  <2>5. /\ m[N] \in Seq(Nat)
        /\ Times(m[N], Len(m[N]), series[i]) = Times(series, N, series[i])
    BY <1>1, <2>2, <2>4, RecentIsKept
  <2>6. DOMAIN m[N] = 1 .. Len(m[N])
    BY <2>5
  <2> QED
    BY <1>1, <2>3, <2>5, <2>6 DEF Times
<1> QED
    BY <1>2, <1>3

\* A page stamps with what the clock says while it reads, and pushes what it stamped.
LEMMA NextSeries == SeriesInv /\ [SharedNext]_sharedVars => SeriesInv'
<1> SUFFICES ASSUME SeriesInv, [SharedNext]_sharedVars PROVE SeriesInv'
    OBVIOUS
<1> USE DEF SeriesInv
<1>0. Client \in Tasks
    BY DEF Tasks
<1>1. ASSUME NEW t \in Tasks, NEW label, NEW x, Goto(t, label, x), x.at \in Nat
      PROVE  /\ pc' = [u \in Tasks |-> pc'[u]] /\ held' = [u \in Tasks |-> held'[u]]
             /\ \A u \in Tasks : held'[u].at \in Nat
  <2>1. /\ pc' = [u \in Tasks |-> IF u = t THEN label ELSE pc[u]]
        /\ held' = [u \in Tasks |-> IF u = t THEN x ELSE held[u]]
    BY <1>1 DEF Goto
  <2> QED
    BY <1>1, <2>1
<1>2. Nothing.at = 0
    BY DEF Nothing
<1>3. ASSUME NEW a \in Nat, NEW w
      PROVE  [Nothing EXCEPT !.at = a].at = a /\ [Nothing EXCEPT !.world = w, !.at = a].at = a
  <2>1. [Nothing EXCEPT !.at = a].at = a
    BY DEF Nothing
  <2>2. [Nothing EXCEPT !.world = w, !.at = a].at = a
    BY DEF Nothing
  <2> QED
    BY <2>1, <2>2
<1>4. ASSUME NEW p \in Pages, PageReads(p) \/ PageReadsDiagnostics(p) \/ PageRecords(p)
      PROVE  SeriesInv'
  <2>1. p \in Tasks
    BY DEF Tasks
  <2>2. CASE PageReads(p)
    <3> DEFINE x == [Nothing EXCEPT !.world = world, !.at = now]
    <3>1. x.at \in Nat
      BY <1>3
    <3>2. Goto(p, "reading", x) /\ UNCHANGED <<now, series>>
      BY <2>2 DEF PageReads
    <3> HIDE DEF x
    <3> QED
      BY <1>1, <2>1, <3>1, <3>2
  <2>3. CASE PageReadsDiagnostics(p)
    BY <1>1, <1>3, <2>1, <2>3 DEF PageReadsDiagnostics
  <2>4. CASE PageRecords(p)
    <3>1. held[p].at \in Nat
      BY <2>1
    <3>2. Pushed(series, held[p].at) \in Seq(Nat)
      <4>1. Len(series) >= Capacity => Tail(series) \in Seq(Nat)
        BY SharedStateAssumption
      <4> QED
        BY <3>1, <4>1 DEF Pushed
    <3>3. Goto(p, "idle", Nothing) /\ series' = Pushed(series, held[p].at) /\ now' = now
      BY <2>4 DEF PageRecords
    <3>4. /\ pc' = [u \in Tasks |-> pc'[u]] /\ held' = [u \in Tasks |-> held'[u]]
          /\ \A u \in Tasks : held'[u].at \in Nat
      BY <1>1, <1>2, <2>1, <3>3
    <3> QED
      BY <3>2, <3>3, <3>4
  <2> QED
    BY <1>4, <2>2, <2>3, <2>4
<1>5. ASSUME NEW id \in Ids, ExecuteLooksUp(id) PROVE SeriesInv'
  <2>1. PICK e : Goto(Client, "submitting", [Nothing EXCEPT !.entry = e])
    BY <1>5 DEF ExecuteLooksUp
  <2> DEFINE x == [Nothing EXCEPT !.entry = e]
  <2>2. x.at \in Nat
    BY DEF Nothing
  <2>3. Goto(Client, "submitting", x) /\ UNCHANGED <<now, series>>
    BY <1>5, <2>1 DEF ExecuteLooksUp
  <2> HIDE DEF x
  <2> QED
    BY <1>0, <1>1, <2>2, <2>3
<1>6. CASE Submits
    BY <1>0, <1>1, <1>2, <1>6 DEF Submits
<1>7. CASE Tick
    BY <1>7 DEF Tick
<1>8. CASE \/ \E w \in Worlds : SnapshotArrives(w)
           \/ SnapshotApplied \/ ExporterUpdates
           \/ \E id \in Ids : Dismissed(id)
           \/ \E d \in Findings : Collected(d)
           \/ UNCHANGED sharedVars
    BY <1>8 DEF SnapshotArrives, SnapshotApplied, ExporterUpdates, Dismissed, Collected, sharedVars
<1> QED
    BY <1>4, <1>5, <1>6, <1>7, <1>8 DEF SharedNext

\* What the history of a series leaves out of a window is older than the window, for any
\* order in which the pages record (state.rs history, ws.rs record_metrics).
THEOREM NoSampleIsMissed == SharedSpec => []HistoryMissesNothing
<1>1. SharedInit => SeriesInv
    BY DEF SharedInit, SeriesInv, Nothing
<1> QED
    BY <1>1, NextSeries, SeriesInvSuffices, PTL DEF SharedSpec
-----------------------------------------------------------------------------
(* The locks of a page's update.                                           *)

\* A page between its two halves holds the graph, and the graph is what it read.
LockInv ==
  /\ pc = [t \in Tasks |-> pc[t]] /\ held = [t \in Tasks |-> held[t]]
  /\ \A p \in Pages : pc[p] = "reading" => p \in readers /\ held[p].world = world

LEMMA NextLock == LockInv /\ [SharedNext]_sharedVars => LockInv'
<1> SUFFICES ASSUME LockInv, [SharedNext]_sharedVars PROVE LockInv'
    OBVIOUS
<1> USE DEF LockInv
<1>1. ASSUME NEW t \in Tasks, NEW label, NEW x, Goto(t, label, x)
      PROVE  /\ pc' = [u \in Tasks |-> pc'[u]] /\ held' = [u \in Tasks |-> held'[u]]
             /\ pc'[t] = label /\ held'[t] = x
             /\ \A u \in Tasks \ {t} : pc'[u] = pc[u] /\ held'[u] = held[u]
  <2>1. /\ pc' = [u \in Tasks |-> IF u = t THEN label ELSE pc[u]]
        /\ held' = [u \in Tasks |-> IF u = t THEN x ELSE held[u]]
    BY <1>1 DEF Goto
  <2> QED
    BY <2>1
<1>2. Pages \subseteq Tasks /\ Client \in Tasks
    BY DEF Tasks
<1>3. ASSUME NEW p \in Pages, PageReads(p) PROVE LockInv'
  <2> DEFINE x == [Nothing EXCEPT !.world = world, !.at = now]
  <2>1. x.world = world
    BY DEF Nothing
  <2>2. Goto(p, "reading", x) /\ readers' = readers \cup {p} /\ world' = world
    BY <1>3 DEF PageReads
  <2> HIDE DEF x
  <2>3. /\ pc' = [u \in Tasks |-> pc'[u]] /\ held' = [u \in Tasks |-> held'[u]]
        /\ held'[p] = x /\ \A u \in Tasks \ {p} : pc'[u] = pc[u] /\ held'[u] = held[u]
    BY <1>1, <1>2, <2>2
  <2> QED
    BY <1>2, <2>1, <2>2, <2>3
<1>4. ASSUME NEW p \in Pages, PageReadsDiagnostics(p) PROVE LockInv'
    BY <1>1, <1>2, <1>4, SMTT(30) DEF PageReadsDiagnostics
<1>5. ASSUME NEW p \in Pages, PageRecords(p) PROVE LockInv'
    BY <1>1, <1>2, <1>5, SMTT(30) DEF PageRecords
<1>6. ASSUME NEW id \in Ids, ExecuteLooksUp(id) PROVE LockInv'
  <2> DEFINE x == [Nothing EXCEPT !.entry =
                     Entry("diagnostic-engine", ActionOf(Found(id)), ActionOf(Found(id)).pid)]
  <2>1. Goto(Client, "submitting", x) /\ readers' = readers /\ world' = world
    BY <1>6 DEF ExecuteLooksUp
  <2> HIDE DEF x
  <2>2. /\ pc' = [u \in Tasks |-> pc'[u]] /\ held' = [u \in Tasks |-> held'[u]]
        /\ pc'[Client] = "submitting"
        /\ \A u \in Tasks \ {Client} : pc'[u] = pc[u] /\ held'[u] = held[u]
    BY <1>1, <1>2, <2>1
  <2> QED
    BY <1>2, <2>1, <2>2
<1>7. CASE Submits
    BY <1>1, <1>2, <1>7 DEF Submits
<1>8. CASE SnapshotApplied
    BY <1>8 DEF SnapshotApplied
<1>9. CASE \/ \E w \in Worlds : SnapshotArrives(w)
           \/ ExporterUpdates \/ Tick
           \/ \E id \in Ids : Dismissed(id)
           \/ \E d \in Findings : Collected(d)
           \/ UNCHANGED sharedVars
    BY <1>9 DEF SnapshotArrives, ExporterUpdates, Tick, Dismissed, Collected, sharedVars
<1> QED
    BY <1>3, <1>4, <1>5, <1>6, <1>7, <1>8, <1>9 DEF SharedNext

\* The graph and the diagnostics of a page's update belong to one moment, for any number
\* of pages (ws.rs build_world_update).
THEOREM UpdatesAreOfOneMoment == SharedSpec => UpdateIsOneMoment
<1> DEFINE Still == \A t \in Pages :
                      (pc[t] = "reading" /\ pc'[t] # "reading") => held[t].world = world
<1>1. SharedInit => LockInv
    BY DEF SharedInit, LockInv, Tasks
<1>2. LockInv => Still
    BY DEF LockInv
<1>3. LockInv /\ [SharedNext]_sharedVars => [Still]_sharedVars
    BY <1>2
<1> QED
    BY <1>1, <1>3, NextLock, PTL DEF SharedSpec, UpdateIsOneMoment
-----------------------------------------------------------------------------
(* What a filter lets through.                                             *)

KeepStep(s, wanted, q, n) == IF s[n] \in wanted THEN Append(q, s[n]) ELSE q
Keeps(m, s, wanted, n) ==
  m = [k \in 0 .. n |-> IF k = 0 THEN <<>> ELSE KeepStep(s, wanted, m[k - 1], k)]

LEMMA KeepsExists ==
  ASSUME NEW s, NEW wanted, NEW N \in Nat
  PROVE  \E m : Keeps(m, s, wanted, N)
<1> DEFINE Step(q, k) == KeepStep(s, wanted, q, k)
           S == {n \in Nat : \E m : m = [k \in 0 .. n |-> IF k = 0 THEN <<>> ELSE Step(m[k - 1], k)]}
<1>1. 0 \in S
  <2> DEFINE m == [k \in 0 .. 0 |-> <<>>]
  <2>1. m = [k \in 0 .. 0 |-> IF k = 0 THEN <<>> ELSE Step(m[k - 1], k)]
    OBVIOUS
  <2> QED
    BY <2>1
<1>2. ASSUME NEW n \in Nat, n \in S PROVE n + 1 \in S
  <2>1. PICK m : m = [k \in 0 .. n |-> IF k = 0 THEN <<>> ELSE Step(m[k - 1], k)]
    BY <1>2
  <2> DEFINE l == [k \in 0 .. n + 1 |-> IF k = n + 1 THEN Step(m[n], n + 1) ELSE m[k]]
  <2>2. ASSUME NEW k \in 0 .. n + 1
        PROVE  l[k] = IF k = 0 THEN <<>> ELSE Step(l[k - 1], k)
    <3>1. CASE k = n + 1
      BY <3>1
    <3>2. CASE k \in 0 .. n
      BY <2>1, <3>2
    <3> QED
      BY <3>1, <3>2
  <2>3. l = [k \in 0 .. n + 1 |-> IF k = 0 THEN <<>> ELSE Step(l[k - 1], k)]
    BY <2>2
  <2> HIDE DEF l
  <2> QED
    BY <2>3
<1> HIDE DEF S
<1>3. Nat \subseteq S
    BY <1>1, <1>2, SetOfAllNaturals
<1>4. N \in S
    BY <1>3
<1> QED
    BY <1>4 DEF S, Keeps

LEMMA KeptIs ==
  ASSUME NEW s, NEW wanted, Len(s) \in Nat
  PROVE  \E m : /\ Kept(s, wanted) = m[Len(s)] /\ m[0] = <<>>
                /\ \A k \in 1 .. Len(s) : m[k] = KeepStep(s, wanted, m[k - 1], k)
<1> DEFINE N == Len(s)
           m == CHOOSE q : Keeps(q, s, wanted, N)
<1>1. \E q : Keeps(q, s, wanted, N)
    BY KeepsExists
<1>2. Keeps(m, s, wanted, N)
    BY <1>1
<1>3. Kept(s, wanted) = m[N]
    BY DEF Kept, Keeps, KeepStep
<1> HIDE DEF m
<1>4. m[0] = <<>> /\ \A k \in 1 .. N : m[k] = KeepStep(s, wanted, m[k - 1], k)
    BY <1>2 DEF Keeps
<1> QED
    BY <1>3, <1>4

LEMMA SetOfAppend ==
  ASSUME NEW S, NEW q \in Seq(S), NEW x \in S
  PROVE  Append(q, x) \in Seq(S) /\ ToSet(Append(q, x)) = ToSet(q) \cup {x}
<1> DEFINE a == Append(q, x)
           K == Len(q)
<1>1. /\ a \in Seq(S) /\ K \in Nat /\ DOMAIN q = 1 .. K /\ DOMAIN a = 1 .. K + 1
      /\ a[K + 1] = x /\ \A k \in 1 .. K : a[k] = q[k]
    OBVIOUS
<1> HIDE DEF a, K
<1>2. ToSet(a) = {a[k] : k \in 1 .. K + 1} /\ ToSet(q) = {q[k] : k \in 1 .. K}
    BY <1>1 DEF ToSet
<1>3. 1 .. K + 1 = (1 .. K) \cup {K + 1}
    BY <1>1
<1> QED
    BY <1>1, <1>2, <1>3 DEF a

LEMMA KeptType ==
  ASSUME NEW S, NEW s \in Seq(S), NEW wanted
  PROVE  Kept(s, wanted) \in Seq(S) /\ ToSet(Kept(s, wanted)) = ToSet(s) \cap wanted
<1> DEFINE N == Len(s)
           First(n) == {s[j] : j \in 1 .. n}
<1>1. N \in Nat /\ ToSet(s) = First(N) /\ \A k \in 1 .. N : s[k] \in S
    BY DEF ToSet
<1>2. PICK m : /\ Kept(s, wanted) = m[N] /\ m[0] = <<>>
               /\ \A k \in 1 .. N : m[k] = KeepStep(s, wanted, m[k - 1], k)
    BY <1>1, KeptIs
<1> DEFINE Ok(n) == m[n] \in Seq(S) /\ ToSet(m[n]) = First(n) \cap wanted
           T == {n \in Nat : n <= N => Ok(n)}
<1>3. 0 \in T
  <2>1. m[0] = <<>> /\ First(0) = {} /\ <<>> \in Seq(S)
    BY <1>2
  <2>2. ToSet(m[0]) = {}
    BY <2>1 DEF ToSet
  <2> HIDE DEF First
  <2> QED
    BY <2>1, <2>2
<1>4. ASSUME NEW n \in Nat, n \in T PROVE n + 1 \in T
  <2> SUFFICES ASSUME n + 1 <= N PROVE Ok(n + 1)
    OBVIOUS
  <2>1. n + 1 \in 1 .. N /\ n + 1 - 1 = n /\ n <= N
    BY <1>1
  <2>2. m[n] \in Seq(S) /\ ToSet(m[n]) = First(n) \cap wanted
    BY <1>4, <2>1
  <2>3. m[n + 1] = KeepStep(s, wanted, m[n], n + 1) /\ s[n + 1] \in S
    BY <1>1, <1>2, <2>1
  <2>4. First(n + 1) = First(n) \cup {s[n + 1]}
    <3>1. 1 .. n + 1 = (1 .. n) \cup {n + 1}
      OBVIOUS
    <3> QED
      BY <3>1
  <2> HIDE DEF First
  <2>5. CASE s[n + 1] \in wanted
    <3>1. m[n + 1] = Append(m[n], s[n + 1])
      BY <2>3, <2>5 DEF KeepStep
    <3>2. m[n] \in Seq(S) /\ s[n + 1] \in S
      BY <2>2, <2>3
    <3>3. /\ Append(m[n], s[n + 1]) \in Seq(S)
          /\ ToSet(Append(m[n], s[n + 1])) = ToSet(m[n]) \cup {s[n + 1]}
      <4> DEFINE q == m[n]
                 x == s[n + 1]
      <4>1. q \in Seq(S) /\ x \in S
        BY <3>2
      <4> HIDE DEF q, x
      <4>2. Append(q, x) \in Seq(S) /\ ToSet(Append(q, x)) = ToSet(q) \cup {x}
        BY <4>1, SetOfAppend
      <4> QED
        BY <4>2 DEF q, x
    <3> QED
      BY <2>2, <2>4, <2>5, <3>1, <3>3
  <2>6. CASE s[n + 1] \notin wanted
    <3>1. m[n + 1] = m[n]
      BY <2>3, <2>6 DEF KeepStep
    <3> QED
      BY <2>2, <2>4, <2>6, <3>1
  <2> QED
    BY <2>5, <2>6
<1> HIDE DEF T
<1>5. Nat \subseteq T
    BY <1>3, <1>4, SetOfAllNaturals
<1>6. Ok(N)
  <2>1. N \in T
    BY <1>1, <1>5
  <2> HIDE DEF Ok, N
  <2> QED
    BY <1>1, <2>1 DEF T
<1> QED
    BY <1>1, <1>2, <1>6

LEMMA AppendIs ==
  ASSUME NEW S, NEW q \in Seq(S), NEW x \in S
  PROVE  /\ Append(q, x) \in Seq(S) /\ Len(q) \in Nat /\ Len(Append(q, x)) = Len(q) + 1
         /\ Append(q, x)[Len(q) + 1] = x /\ \A i \in 1 .. Len(q) : Append(q, x)[i] = q[i]
OBVIOUS

\* Two filters in step over sequences in step.
LEMMA KeptInStep ==
  ASSUME NEW S, NEW s \in Seq(S), NEW A, NEW T, NEW t \in Seq(T), NEW B, Len(s) = Len(t),
         \A i \in 1 .. Len(s) : (s[i] \in A <=> t[i] \in B) /\ s[i].id = t[i].id
  PROVE  /\ Len(Kept(s, A)) = Len(Kept(t, B))
         /\ \A i \in 1 .. Len(Kept(s, A)) : Kept(s, A)[i].id = Kept(t, B)[i].id
<1> DEFINE N == Len(s)
<1>1. N \in Nat /\ N = Len(t) /\ \A k \in 1 .. N : s[k] \in S /\ t[k] \in T
    OBVIOUS
<1>2. PICK m : /\ Kept(s, A) = m[N] /\ m[0] = <<>>
               /\ \A k \in 1 .. N : m[k] = KeepStep(s, A, m[k - 1], k)
    BY <1>1, KeptIs
<1>3. PICK l : /\ Kept(t, B) = l[N] /\ l[0] = <<>>
               /\ \A k \in 1 .. N : l[k] = KeepStep(t, B, l[k - 1], k)
  <2>1. Len(t) \in Nat
    OBVIOUS
  <2>2. PICK l : /\ Kept(t, B) = l[Len(t)] /\ l[0] = <<>>
                 /\ \A k \in 1 .. Len(t) : l[k] = KeepStep(t, B, l[k - 1], k)
    BY <2>1, KeptIs
  <2> QED
    BY <1>1, <2>2
<1> DEFINE Ok(n) == /\ m[n] \in Seq(S) /\ l[n] \in Seq(T) /\ Len(m[n]) = Len(l[n])
                    /\ \A i \in 1 .. Len(m[n]) : m[n][i].id = l[n][i].id
           P == {n \in Nat : n <= N => Ok(n)}
<1>4. 0 \in P
  <2>1. m[0] = <<>> /\ l[0] = <<>>
    BY <1>2, <1>3
  <2>2. <<>> \in Seq(S) /\ <<>> \in Seq(T) /\ Len(<<>>) = 0
    OBVIOUS
  <2>3. Ok(0)
    BY <2>1, <2>2
  <2> QED
    BY <2>3
<1>5. ASSUME NEW n \in Nat, n \in P PROVE n + 1 \in P
  <2> SUFFICES ASSUME n + 1 <= N PROVE Ok(n + 1)
    OBVIOUS
  <2>1. n + 1 \in 1 .. N /\ n + 1 - 1 = n /\ n <= N
    BY <1>1
  <2>2. Ok(n)
    BY <1>5, <2>1
  <2>3. /\ m[n + 1] = KeepStep(s, A, m[n], n + 1) /\ l[n + 1] = KeepStep(t, B, l[n], n + 1)
        /\ s[n + 1] \in S /\ t[n + 1] \in T
        /\ (s[n + 1] \in A <=> t[n + 1] \in B) /\ s[n + 1].id = t[n + 1].id
    BY <1>1, <1>2, <1>3, <2>1
  <2>4. CASE s[n + 1] \in A
    <3> DEFINE a == Append(m[n], s[n + 1])
               b == Append(l[n], t[n + 1])
               K == Len(m[n])
    <3>1. m[n + 1] = a /\ l[n + 1] = b
      BY <2>3, <2>4 DEF KeepStep
    <3>2. /\ K \in Nat /\ a \in Seq(S) /\ Len(a) = K + 1 /\ a[K + 1] = s[n + 1]
          /\ \A i \in 1 .. K : a[i] = m[n][i]
      <4> DEFINE q == m[n]
                 x == s[n + 1]
      <4>1. q \in Seq(S) /\ x \in S
        BY <2>2, <2>3
      <4> HIDE DEF q, x
      <4>2. /\ Append(q, x) \in Seq(S) /\ Len(q) \in Nat /\ Len(Append(q, x)) = Len(q) + 1
            /\ Append(q, x)[Len(q) + 1] = x /\ \A i \in 1 .. Len(q) : Append(q, x)[i] = q[i]
        BY <4>1, AppendIs
      <4> QED
        BY <4>2 DEF q, x
    <3>3. /\ b \in Seq(T) /\ Len(b) = K + 1 /\ b[K + 1] = t[n + 1]
          /\ \A i \in 1 .. K : b[i] = l[n][i]
      <4> DEFINE q == l[n]
                 x == t[n + 1]
      <4>1. q \in Seq(T) /\ x \in T /\ K = Len(q)
        BY <2>2, <2>3
      <4> HIDE DEF q, x
      <4>2. /\ Append(q, x) \in Seq(T) /\ Len(Append(q, x)) = Len(q) + 1
            /\ Append(q, x)[Len(q) + 1] = x /\ \A i \in 1 .. Len(q) : Append(q, x)[i] = q[i]
        BY <4>1, AppendIs
      <4> QED
        BY <4>1, <4>2 DEF q, x
    <3>4. \A i \in 1 .. K : m[n][i].id = l[n][i].id
      BY <2>2
    <3> HIDE DEF a, b, K
    <3>5. ASSUME NEW i \in 1 .. K + 1 PROVE a[i].id = b[i].id
      <4>1. CASE i = K + 1
        BY <2>3, <3>2, <3>3, <4>1
      <4>2. CASE i # K + 1
        <5>1. i \in 1 .. K
          BY <3>2, <4>2
        <5> QED
          BY <3>2, <3>3, <3>4, <5>1
      <4> QED
        BY <4>1, <4>2
    <3> QED
      BY <3>1, <3>2, <3>3, <3>5
  <2>5. CASE s[n + 1] \notin A
    <3>1. m[n + 1] = m[n] /\ l[n + 1] = l[n]
      BY <2>3, <2>5 DEF KeepStep
    <3> QED
      BY <2>2, <3>1
  <2> QED
    BY <2>4, <2>5
<1> HIDE DEF P
<1>6. Nat \subseteq P
    BY <1>4, <1>5, SetOfAllNaturals
<1>7. Ok(N)
  <2>1. N \in P
    BY <1>1, <1>6
  <2> HIDE DEF Ok, N
  <2> QED
    BY <1>1, <2>1 DEF P
<1> QED
    BY <1>2, <1>3, <1>7
-----------------------------------------------------------------------------
(* The surfaces.                                                           *)

Process == [cpu : Nat, mem : Nat, hp : Nat, zombie : BOOLEAN]

SurfaceInv ==
  /\ world \in Worlds /\ writer \in Worlds \cup {NoWorld}
  /\ diagnostics \in Seq(Findings)
  /\ IsFiniteSet(DOMAIN gauges) /\ gauges \in [DOMAIN gauges -> Process]

LEMMA WorldIs ==
  ASSUME SurfaceInv
  PROVE  /\ IsFiniteSet(DOMAIN world.procs) /\ DOMAIN world.procs \subseteq 0 .. PidWidth - 1
         /\ world.procs \in [DOMAIN world.procs -> Process]
         /\ \A p \in DOMAIN world.procs : p % PidWidth = p /\ p \in Nat
<1>1. /\ IsFiniteSet(DOMAIN world.procs) /\ DOMAIN world.procs \subseteq 0 .. PidWidth - 1
      /\ world.procs \in [DOMAIN world.procs -> Process]
  BY SharedStateAssumption DEF SharedStateAssumption, SurfaceInv, Process
<1>2. ASSUME NEW p \in DOMAIN world.procs PROVE p % PidWidth = p /\ p \in Nat
  <2>1. PidWidth \in Nat
    BY SurfaceViewsAssumption DEF SurfaceViewsAssumption
  <2>2. p \in 0 .. PidWidth - 1
    BY <1>1
  <2> QED
    BY <2>1, <2>2
<1> QED
  BY <1>1, <1>2

LEMMA FoundIs ==
  ASSUME SurfaceInv, NEW d \in ToSet(diagnostics)
  PROVE  d \in Findings /\ d.severity \in 0 .. 2
<1>1. d \in Findings
  BY DEF SurfaceInv, ToSet
<1> QED
  BY <1>1, SharedStateAssumption DEF SharedStateAssumption

LEMMA Lists ==
  ASSUME SurfaceInv
  PROVE  ListsAgree
<1> DEFINE everyone == {d.host : d \in Findings}
           kinds == {d.category : d \in Findings}
           aims == {d.target : d \in Findings}
           ds == diagnostics
<1>1. ASSUME NEW text \in SeverityTexts, text.says # Nonsense, NEW d \in ToSet(ds)
      PROVE  /\ (text = NoText \/ d.severity = text.says) <=> d.severity \in Severities(text)
             /\ d.host \in everyone /\ d.category \in kinds /\ d.target \in aims
  <2>1. d \in Findings /\ d.severity \in 0 .. 2
    BY FoundIs
  <2>2. (text = NoText /\ text.says = 4) \/ (text # NoText /\ text.says \in 0 .. 2)
    BY <1>1 DEF SeverityTexts, NoText, Nonsense
  <2>3. (text = NoText \/ d.severity = text.says) <=> d.severity \in Severities(text)
    BY <2>1, <2>2 DEF Severities, Nonsense
  <2> QED
    BY <2>1, <2>3
<1> HIDE DEF everyone, kinds, aims
<1>2. ASSUME NEW text \in SeverityTexts, text.says # Nonsense
      PROVE  /\ RestList(ds, text, everyone) = McpList(ds, everyone, text, kinds)
             /\ RestList(ds, text, everyone) = GrpcList(ds, text, aims)
  <2>1. {d \in ToSet(ds) : (text = NoText \/ d.severity = text.says) /\ d.host \in everyone} =
        {d \in ToSet(ds) : /\ d.host \in everyone /\ d.severity \in Severities(text)
                           /\ d.category \in kinds}
    BY <1>1, <1>2
  <2>2. {d \in ToSet(ds) : (text = NoText \/ d.severity = text.says) /\ d.host \in everyone} =
        {d \in ToSet(ds) : d.severity \in Severities(text) /\ d.target \in aims}
    BY <1>1, <1>2
  <2> QED
    BY <2>1, <2>2 DEF RestList, McpList, GrpcList
<1>3. ASSUME NEW text \in SeverityTexts, text.says # Nonsense, text.lower
      PROVE  LET listed == GrpcList(ds, text, aims)
                 streamed == Streamed(Published(ds), text)
             IN [i \in DOMAIN listed |-> ServiceDiagnostic(listed[i]).id]
                  = [i \in DOMAIN streamed |-> streamed[i].id]
  <2> DEFINE Event(d) == [kind |-> "DiagnosticCreated", id |-> d.id, severity |-> d.severity]
             Events == {Event(d) : d \in Findings}
             events == Published(ds)
             A == {d \in ToSet(ds) : d.severity \in Severities(text) /\ d.target \in aims}
             B == {e \in ToSet(events) : e.kind = "DiagnosticCreated" =>
                                           text = NoText \/ (text.lower /\ e.severity = text.says)}
             listed == Kept(ds, A)
             wanted == Kept(events, B)
             streamed == [i \in DOMAIN wanted |-> ServiceEvent(wanted[i])]
  <2>1. GrpcList(ds, text, aims) = listed /\ Streamed(events, text) = streamed
    BY DEF GrpcList, Streamed
  <2>2. ds \in Seq(Findings) /\ DOMAIN ds = 1 .. Len(ds) /\ Len(ds) \in Nat
    BY DEF SurfaceInv
  <2>3. events = [i \in 1 .. Len(ds) |-> Event(ds[i])]
    BY <2>2 DEF Published
  <2> HIDE DEF events
  <2>4. /\ events \in Seq(Events) /\ Len(events) = Len(ds)
        /\ \A i \in 1 .. Len(ds) : events[i] = Event(ds[i]) /\ events[i] \in Events
    BY <2>2, <2>3
  <2>5. ASSUME NEW i \in 1 .. Len(ds)
        PROVE  (ds[i] \in A <=> events[i] \in B) /\ ds[i].id = events[i].id
    <3>1. ds[i] \in ToSet(ds)
      BY <2>2 DEF ToSet
    <3>2. events[i] \in ToSet(events)
      <4>1. DOMAIN events = 1 .. Len(ds)
        BY <2>4
      <4> QED
        BY <4>1 DEF ToSet
    <3>3. events[i].kind = "DiagnosticCreated" /\ events[i].id = ds[i].id /\ events[i].severity = ds[i].severity
      <4>1. events[i] = Event(ds[i])
        BY <2>4
      <4>2. \A d : Event(d).kind = "DiagnosticCreated" /\ Event(d).id = d.id /\ Event(d).severity = d.severity
        OBVIOUS
      <4> HIDE DEF Event
      <4> QED
        BY <4>1, <4>2
    <3> QED
      BY <1>1, <1>3, <3>1, <3>2, <3>3
  <2> HIDE DEF A, B, Events
  <2>6. /\ Len(listed) = Len(wanted)
        /\ \A i \in 1 .. Len(listed) : listed[i].id = wanted[i].id
    BY <2>2, <2>4, <2>5, KeptInStep
  <2>7. listed \in Seq(Findings) /\ wanted \in Seq(Events)
    BY <2>2, <2>4, KeptType
  <2> HIDE DEF listed, wanted
  <2>8. /\ DOMAIN listed = 1 .. Len(listed) /\ DOMAIN wanted = 1 .. Len(listed)
        /\ \A i \in 1 .. Len(listed) : wanted[i] \in Events
    BY <2>6, <2>7
  <2>9. ASSUME NEW i \in 1 .. Len(listed)
        PROVE  ServiceDiagnostic(listed[i]).id = streamed[i].id
    <3>1. streamed[i] = ServiceEvent(wanted[i])
      BY <2>8
    <3>2. PICK d \in Findings : wanted[i] = Event(d)
      BY <2>8 DEF Events
    <3>3. ServiceEvent(wanted[i]).id = wanted[i].id
      BY <3>2 DEF ServiceEvent
    <3> QED
      BY <2>6, <3>1, <3>3 DEF ServiceDiagnostic
  <2>10. DOMAIN streamed = 1 .. Len(listed)
    BY <2>8
  <2> HIDE DEF streamed
  <2>11. [i \in DOMAIN listed |-> ServiceDiagnostic(listed[i]).id] = [i \in DOMAIN streamed |-> streamed[i].id]
    BY <2>8, <2>9, <2>10
  <2> QED
    BY <2>1, <2>11 DEF events
<1> QED
  BY <1>2, <1>3 DEF ListsAgree, everyone, kinds, aims

LEMMA Counts ==
  ASSUME SurfaceInv
  PROVE  /\ CountsAgree
         /\ \A i \in 1 .. 3 : ExportedCounts(diagnostics)[i] \in Nat
<1> DEFINE Of(severities) == {d \in ToSet(diagnostics) : d.severity \in severities}
<1>1. Of(Int \ {1, 2}) = Of({0})
  BY FoundIs
<1>2. CountOf(diagnostics, Int \ {1, 2}) = CountOf(diagnostics, {0})
  BY <1>1 DEF CountOf
<1>3. \A severities : CountOf(diagnostics, severities) \in Nat
  <2> TAKE severities
  <2>1. Kept(diagnostics, Of(severities)) \in Seq(Findings)
    <3>1. diagnostics \in Seq(Findings)
      BY DEF SurfaceInv
    <3> HIDE DEF Of
    <3> QED
      BY <3>1, KeptType
  <2> QED
    BY <2>1 DEF CountOf
<1> QED
  BY <1>2, <1>3 DEF CountsAgree, RestCounts, McpCounts, ExportedCounts

LEMMA Actions ==
  ASSUME SurfaceInv
  PROVE  ActionsAgree
<1>1. ASSUME NEW p \in DOMAIN world.procs, NEW kind \in {"kill", "inspect"}
      PROVE  {e.action : e \in ToolEntry(kind, p)} = {e.action : e \in ServiceEntry(kind, p, p)}
  <2>1. p % PidWidth = p
    BY WorldIs
  <2>2. ToolEntry(kind, p) = {[source |-> "mcp-agent", action |-> [kind |-> kind, pid |-> p], pid |-> p]}
    <3>1. {kind} \cap {"kill", "restart", "inspect"} = {kind}
      OBVIOUS
    <3> QED
      BY <2>1, <3>1 DEF ToolEntry
  <2>3. ServiceEntry(kind, p, p) = {[source |-> "grpc-api", action |-> [kind |-> kind, pid |-> p], pid |-> p]}
    <3>1. {kind} \cap {"kill", "restart", "inspect", "script"} = {kind}
      OBVIOUS
    <3> QED
      BY <3>1 DEF ServiceEntry
  <2> QED
    BY <2>2, <2>3
<1>2. ASSUME NEW d \in Findings, ActionOf(d).kind = "kill" PROVE TerminalActionOf(d) = ActionOf(d)
  BY <1>2 DEF ActionOf, TerminalActionOf, NoAction
<1> QED
  BY <1>1, <1>2 DEF ActionsAgree

LEMMA Refusals == RefusesWhatIsMissing
<1> SUFFICES ASSUME NEW name \in DOMAIN ToolDefinitions \cup {"kill_process"},
                    NEW present \in SUBSET {"pid", "action"}
             PROVE  LET args == [a \in present |-> IF a = "pid" THEN 1 ELSE "kill"]
                        answer == JsonRpc(world, "tools/call", {[name |-> name, arguments |-> args]})
                    IN  /\ (answer.code = MethodNotFound) = (name \notin DOMAIN ToolDefinitions)
                        /\ name \in DOMAIN ToolDefinitions =>
                             (answer.code = InvalidParams) = ~(ToolDefinitions[name] \subseteq present)
  BY DEF RefusesWhatIsMissing
<1> DEFINE args == [a \in present |-> IF a = "pid" THEN 1 ELSE "kill"]
           call == [name |-> name, arguments |-> args]
           answer == JsonRpc(world, "tools/call", {call})
<1>1. answer = DispatchTool(world, name, args)
  <2>1. "name" \in DOMAIN call
    OBVIOUS
  <2>2. (CHOOSE p \in {call} : TRUE) = call
    OBVIOUS
  <2>3. call.name = name /\ call.arguments = args
    OBVIOUS
  <2> HIDE DEF call
  <2>4. ToolsCall(world, {call}) = DispatchTool(world, call.name, call.arguments)
    BY <2>1, <2>2 DEF ToolsCall
  <2> QED
    BY <2>3, <2>4 DEF JsonRpc
<1>2. DOMAIN args = present
  OBVIOUS
<1>3. DOMAIN ToolDefinitions = {"get_system_topology", "inspect_process", "list_anomalies", "execute_action",
                                "predict_anomalies", "get_diagnostics"}
  BY DEF ToolDefinitions
<1>4. /\ ToolDefinitions["inspect_process"] = {"pid"} /\ ToolDefinitions["execute_action"] = {"action"}
      /\ \A n \in {"get_system_topology", "list_anomalies", "predict_anomalies", "get_diagnostics"} :
           ToolDefinitions[n] = {}
  BY DEF ToolDefinitions, Required
<1> HIDE DEF args
<1>5. answer.code = CASE name = "inspect_process" -> IF "pid" \in present THEN 0 ELSE InvalidParams
                      [] name = "execute_action" -> IF "action" \in present THEN 0 ELSE InvalidParams
                      [] name = "kill_process" -> MethodNotFound
                      [] OTHER -> 0
  BY <1>1, <1>2, <1>3 DEF DispatchTool
<1> HIDE DEF answer
<1>6. /\ (answer.code = MethodNotFound) = (name \notin DOMAIN ToolDefinitions)
      /\ name \in DOMAIN ToolDefinitions =>
           (answer.code = InvalidParams) = ~(ToolDefinitions[name] \subseteq present)
  BY <1>3, <1>4, <1>5 DEF MethodNotFound, InvalidParams
<1> QED
  BY <1>6 DEF answer, args, call
-----------------------------------------------------------------------------
(* The anomalies: what is critical of a process has a place in every list, *)
(* with nothing but critical ones before it.                               *)

LEMMA OrderIsOnto ==
  ASSUME NEW S, IsFiniteSet(S), NEW q \in SetToSeqs(S)
  PROVE  /\ Cardinality(S) \in Nat /\ DOMAIN q = 1 .. Cardinality(S)
         /\ \A i \in DOMAIN q : q[i] \in S
         /\ \A x \in S : \E i \in DOMAIN q : q[i] = x
<1> DEFINE n == Cardinality(S)
<1>1. n \in Nat
  BY FS_CardinalityType
<1>2. q \in [1 .. n -> S] /\ \A a, b \in 1 .. n : a # b => q[a] # q[b]
  BY DEF SetToSeqs
<1>3. IsFiniteSet(1 .. n) /\ Cardinality(1 .. n) = n
  BY <1>1, FS_Interval
<1>4. q \in Injection(1 .. n, S)
  BY <1>2 DEF Injection, IsInjective
<1>5. q \in Surjection(1 .. n, S)
  BY <1>3, <1>4, FS_Injection
<1> QED
  BY <1>1, <1>2, <1>5 DEF Surjection

LEMMA FiniteImage ==
  ASSUME NEW D, IsFiniteSet(D), NEW f, DOMAIN f = D
  PROVE  IsFiniteSet({f[x] : x \in D})
<1> DEFINE R == {f[x] : x \in D}
           g == [x \in D |-> f[x]]
<1>1. g \in Surjection(D, R)
  BY DEF Surjection
<1> HIDE DEF R, g
<1>2. IsFiniteSet(R)
  BY <1>1, FS_Surjection
<1> QED
  BY <1>2 DEF R

LEMMA AnomaliesFinite ==
  ASSUME SurfaceInv
  PROVE  IsFiniteSet(Anomalies(world))
<1> DEFINE D == DOMAIN world.procs
           f == [p \in D |-> AnomaliesOf(p, world.procs[p])]
           R == {f[p] : p \in D}
<1>1. ASSUME NEW p \in D PROVE IsFiniteSet(AnomaliesOf(p, world.procs[p]))
  <2> DEFINE K == {b \in {"zombie", "hp", "cpu"} :
                     \/ b = "zombie" /\ world.procs[p].zombie
                     \/ b = "hp" /\ world.procs[p].hp < 50
                     \/ b = "cpu" /\ world.procs[p].cpu > 90}
             one(a) == [pid |-> p, hp |-> world.procs[p].hp, what |-> a,
                        critical |-> a = "zombie" \/ (a = "hp" /\ world.procs[p].hp < 25)]
             g == [a \in K |-> one(a)]
  <2>1. IsFiniteSet({"zombie", "hp", "cpu"})
    <3>1. {"zombie", "hp", "cpu"} = {"zombie"} \cup {"hp"} \cup {"cpu"}
      OBVIOUS
    <3>2. IsFiniteSet({"zombie"} \cup {"hp"})
      BY FS_Singleton, FS_Union
    <3>3. IsFiniteSet({"zombie"} \cup {"hp"} \cup {"cpu"})
      BY <3>2, FS_Singleton, FS_Union
    <3> QED
      BY <3>1, <3>3
  <2>2. K \in SUBSET {"zombie", "hp", "cpu"}
    OBVIOUS
  <2>3. AnomaliesOf(p, world.procs[p]) = {one(a) : a \in K}
    BY DEF AnomaliesOf
  <2> HIDE DEF K, one
  <2>4. IsFiniteSet(K)
    BY <2>1, <2>2, FS_Subset
  <2>5. {one(a) : a \in K} = {g[a] : a \in K} /\ DOMAIN g = K
    OBVIOUS
  <2> HIDE DEF g
  <2>6. IsFiniteSet({g[a] : a \in K})
    BY <2>4, <2>5, FiniteImage
  <2> QED
    BY <2>3, <2>5, <2>6
<1>2. IsFiniteSet(D) /\ DOMAIN f = D
  BY WorldIs
<1>3. Anomalies(world) = UNION R
  BY DEF Anomalies
<1>4. \A T \in R : IsFiniteSet(T)
  BY <1>1
<1>5. IsFiniteSet(R)
  <2> HIDE DEF f, D
  <2> QED
    BY <1>2, FiniteImage
<1> HIDE DEF R
<1> QED
  BY <1>3, <1>4, <1>5, FS_UNION

LEMMA Criticals ==
  ASSUME SurfaceInv
  PROVE  CriticalComeFirst
<1> SUFFICES ASSUME NEW l \in AnomalyLists(world), NEW p \in DOMAIN world.procs,
                    world.procs[p].zombie \/ world.procs[p].hp < 25
             PROVE  \E i \in DOMAIN l : l[i].pid = p /\ \A j \in 1 .. i : l[j].critical
  BY DEF CriticalComeFirst
<1>1. l \in SetToSeqs(Anomalies(world)) /\ \A i, j \in DOMAIN l : i < j => Before(l[i], l[j])
  BY DEF AnomalyLists
<1> DEFINE N == Cardinality(Anomalies(world))
<1>2. /\ N \in Nat /\ DOMAIN l = 1 .. N /\ \A i \in 1 .. N : l[i] \in Anomalies(world)
      /\ \A x \in Anomalies(world) : \E i \in 1 .. N : l[i] = x
  <2> HIDE DEF N
  <2> QED
    BY <1>1, AnomaliesFinite, OrderIsOnto DEF N
<1> HIDE DEF N
<1>3. PICK x \in AnomaliesOf(p, world.procs[p]) : x.pid = p /\ x.critical
  <2> DEFINE proc == world.procs[p]
             what == IF proc.zombie THEN "zombie" ELSE "hp"
             one(a) == [pid |-> p, hp |-> proc.hp, what |-> a,
                        critical |-> a = "zombie" \/ (a = "hp" /\ proc.hp < 25)]
  <2>1. proc \in Process
    BY WorldIs
  <2>2. \/ what = "zombie" /\ proc.zombie
        \/ what = "hp" /\ proc.hp < 50 /\ proc.hp < 25
    BY <2>1 DEF Process
  <2>3. AnomaliesOf(p, proc) = {one(a) : a \in {b \in {"zombie", "hp", "cpu"} :
                                                  \/ b = "zombie" /\ proc.zombie
                                                  \/ b = "hp" /\ proc.hp < 50
                                                  \/ b = "cpu" /\ proc.cpu > 90}}
    BY DEF AnomaliesOf
  <2>4. one(what).pid = p /\ one(what).critical
    BY <2>2
  <2> HIDE DEF one, what, proc
  <2>5. one(what) \in AnomaliesOf(p, proc)
    BY <2>2, <2>3
  <2> QED
    BY <2>4, <2>5 DEF proc
<1>4. x \in Anomalies(world)
  BY DEF Anomalies
<1>5. PICK i \in 1 .. N : l[i] = x
  BY <1>2, <1>4
<1>6. ASSUME NEW j \in 1 .. i PROVE l[j].critical
  <2>1. CASE j = i
    BY <1>3, <1>5, <2>1
  <2>2. CASE j # i
    <3>1. j \in 1 .. N /\ j < i
      BY <1>2, <2>2
    <3>2. Before(l[j], x)
      BY <1>1, <1>2, <1>5, <3>1
    <3> QED
      BY <1>3, <3>2 DEF Before
  <2> QED
    BY <2>1, <2>2
<1> QED
  BY <1>2, <1>3, <1>5, <1>6
-----------------------------------------------------------------------------
(* The heaviest processes: those of the summary are among those of the     *)
(* topology, because any choice of the heaviest can be extended.           *)

LEMMA HeaviestOf ==
  ASSUME NEW E, IsFiniteSet(E), E # {}, NEW cpu \in [E -> Nat]
  PROVE  \E q \in E : \A r \in E : cpu[q] >= cpu[r]
<1> DEFINE Above(q) == {r \in E : cpu[r] > cpu[q]}
           C == {Cardinality(Above(q)) : q \in E}
           R == OpToRel(<, Nat)
<1>1. \A q \in E : IsFiniteSet(Above(q)) /\ Cardinality(Above(q)) \in Nat
  <2> TAKE q \in E
  <2>1. Above(q) \in SUBSET E
    OBVIOUS
  <2> HIDE DEF Above
  <2> QED
    BY <2>1, FS_Subset, FS_CardinalityType
<1>2. C \subseteq Nat /\ C # {}
  BY <1>1
<1>3. IsWellFoundedOn(R, Nat)
  BY NatLessThanWellFounded
<1> HIDE DEF R, C
<1>4. PICK c \in C : \A b \in C : ~ (<<b, c>> \in R)
  <2>1. C \in SUBSET Nat
    BY <1>2
  <2> QED
    BY <1>2, <1>3, <2>1, WFMin
<1>5. PICK q \in E : c = Cardinality(Above(q))
  BY DEF C
<1>6. ASSUME NEW r \in E, cpu[r] > cpu[q] PROVE FALSE
  <2>1. Above(r) \in SUBSET Above(q) /\ r \in Above(q) /\ r \notin Above(r)
    BY <1>6
  <2>2. Cardinality(Above(r)) \in C
    BY DEF C
  <2> HIDE DEF Above
  <2>3. Cardinality(Above(r)) <= Cardinality(Above(q)) /\ Cardinality(Above(r)) # Cardinality(Above(q))
    BY <1>1, <2>1, FS_Subset
  <2>4. Cardinality(Above(r)) < c /\ Cardinality(Above(r)) \in Nat /\ c \in Nat
    BY <1>1, <1>5, <2>3
  <2>5. <<Cardinality(Above(r)), c>> \in R
    BY <2>4 DEF R, OpToRel
  <2> QED
    BY <1>4, <2>2, <2>5
<1>7. \A r \in E : cpu[q] >= cpu[r]
  <2> TAKE r \in E
  <2>1. cpu[q] \in Nat /\ cpu[r] \in Nat
    OBVIOUS
  <2> QED
    BY <1>6, <2>1
<1> QED
  BY <1>7

Leads(t, D, procs) == \A p \in t, q \in D \ t : procs[p].cpu >= procs[q].cpu

LEMMA LeadersGrow ==
  ASSUME NEW D, IsFiniteSet(D), NEW procs \in [D -> Process],
         NEW top \in SUBSET D, Leads(top, D, procs),
         NEW n \in Nat, Cardinality(top) + n <= Cardinality(D)
  PROVE  \E t \in SUBSET D : top \subseteq t /\ Cardinality(t) = Cardinality(top) + n /\ Leads(t, D, procs)
<1> DEFINE Ok(k) == \E t \in SUBSET D : /\ top \subseteq t /\ Cardinality(t) = Cardinality(top) + k
                                        /\ Leads(t, D, procs)
           T == {k \in Nat : k <= n => Ok(k)}
<1>1. IsFiniteSet(top) /\ Cardinality(top) \in Nat /\ Cardinality(D) \in Nat
  BY FS_Subset, FS_CardinalityType
<1>2. 0 \in T
  BY <1>1
<1>3. ASSUME NEW k \in Nat, k \in T PROVE k + 1 \in T
  <2> SUFFICES ASSUME k + 1 <= n PROVE Ok(k + 1)
    OBVIOUS
  <2>1. PICK t \in SUBSET D : /\ top \subseteq t /\ Cardinality(t) = Cardinality(top) + k
                              /\ Leads(t, D, procs)
    BY <1>3
  <2>2. Cardinality(t) < Cardinality(D)
    BY <1>1, <2>1
  <2> DEFINE E == D \ t
             cpu == [p \in E |-> procs[p].cpu]
  <2>3. E \in SUBSET D /\ IsFiniteSet(E) /\ IsFiniteSet(t)
    <3>1. E \in SUBSET D
      OBVIOUS
    <3> HIDE DEF E
    <3> QED
      BY <3>1, FS_Subset
  <2>4. E # {}
    BY <1>1, <2>2
  <2>5. cpu \in [E -> Nat] /\ \A p \in E : cpu[p] = procs[p].cpu
    BY DEF Process
  <2> HIDE DEF E, cpu
  <2>6. PICK q \in E : \A r \in E : cpu[q] >= cpu[r]
    BY <2>3, <2>4, <2>5, HeaviestOf
  <2> DEFINE more == t \cup {q}
  <2>7. q \notin t /\ q \in D /\ more \in SUBSET D /\ top \subseteq more
    BY <2>1, <2>3 DEF E
  <2>8. Cardinality(more) = Cardinality(top) + (k + 1)
    <3>1. Cardinality(more) = Cardinality(t) + 1
      BY <2>3, <2>7, FS_AddElement
    <3> HIDE DEF more
    <3> QED
      BY <1>1, <2>1, <3>1
  <2>9. Leads(more, D, procs)
    <3> SUFFICES ASSUME NEW p \in more, NEW r \in D \ more PROVE procs[p].cpu >= procs[r].cpu
      BY DEF Leads
    <3>1. r \in E /\ r \in D \ t
      BY DEF E
    <3>2. CASE p \in t
      BY <2>1, <3>1, <3>2 DEF Leads
    <3>3. CASE p = q
      BY <2>5, <2>6, <3>1, <3>3
    <3> QED
      BY <3>2, <3>3
  <2> HIDE DEF more
  <2> QED
    BY <2>7, <2>8, <2>9
<1> HIDE DEF T, Ok
<1>4. Nat \subseteq T
  BY <1>2, <1>3, SetOfAllNaturals
<1>5. Ok(n)
  <2>1. n \in T
    BY <1>4
  <2> QED
    BY <2>1 DEF T
<1> QED
  BY <1>5 DEF Ok

LEMMA HeaviestAre ==
  ASSUME NEW D, IsFiniteSet(D), NEW procs \in [D -> Process], NEW n \in Nat, NEW top
  PROVE  top \in Heaviest(procs, n) <=>
           /\ top \in SUBSET D /\ Leads(top, D, procs)
           /\ Cardinality(top) = IF Cardinality(D) < n THEN Cardinality(D) ELSE n
<1>1. DOMAIN procs = D
  OBVIOUS
<1> QED
  BY <1>1 DEF Heaviest, kSubset, Leads

LEMMA SummaryInTopology ==
  ASSUME SurfaceInv, NEW top \in Heaviest(world.procs, TopCount)
  PROVE  \E t \in Heaviest(world.procs, MaxProcesses) : top \subseteq t
<1> DEFINE D == DOMAIN world.procs
           procs == world.procs
           Few(n) == IF Cardinality(D) < n THEN Cardinality(D) ELSE n
<1>1. IsFiniteSet(D) /\ procs \in [D -> Process] /\ Cardinality(D) \in Nat
  BY WorldIs, FS_CardinalityType
<1>2. TopCount \in Nat /\ MaxProcesses \in Nat /\ TopCount <= MaxProcesses
  BY SurfaceViewsAssumption DEF SurfaceViewsAssumption
<1> HIDE DEF D, procs
<1>3. top \in SUBSET D /\ Leads(top, D, procs) /\ Cardinality(top) = Few(TopCount)
  BY <1>1, <1>2, HeaviestAre DEF procs
<1> DEFINE n == Few(MaxProcesses) - Few(TopCount)
<1>4. n \in Nat /\ Cardinality(top) + n = Few(MaxProcesses) /\ Cardinality(top) + n <= Cardinality(D)
  BY <1>1, <1>2, <1>3
<1> HIDE DEF n
<1>5. PICK t \in SUBSET D : top \subseteq t /\ Cardinality(t) = Few(MaxProcesses) /\ Leads(t, D, procs)
  BY <1>1, <1>3, <1>4, LeadersGrow
<1>6. t \in Heaviest(procs, MaxProcesses)
  BY <1>1, <1>2, <1>5, HeaviestAre
<1> QED
  BY <1>5, <1>6 DEF procs

LEMMA GraphViews ==
  ASSUME SurfaceInv
  PROVE  GraphViewsAgree
<1>1. ASSUME NEW s \in Summaries(world, diagnostics)
      PROVE  /\ s.counts = McpCounts(diagnostics) /\ s.memory = RestStats(world).memory
             /\ \E t \in Topologies(world) : s.top \subseteq DOMAIN t.processes
  <2>1. PICK top \in Heaviest(world.procs, TopCount) :
          s = [cpu |-> CpuTotal(world), memory |-> MemTotal(world), processes |-> Count(world),
               top |-> top, counts |-> RestCounts(diagnostics)]
    BY DEF Summaries
  <2>2. RestCounts(diagnostics) = McpCounts(diagnostics)
    BY Counts DEF CountsAgree
  <2>3. PICK more \in Heaviest(world.procs, MaxProcesses) : top \subseteq more
    BY SummaryInTopology
  <2>4. \E t \in Topologies(world) : DOMAIN t.processes = more
    <3> DEFINE t == [processes |-> [p \in more |-> world.procs[p]],
                     connections |-> {l \in world.links : l.from \in more},
                     summary |-> [processes |-> Count(world), connections |-> Cardinality(world.links),
                                  avgCpu |-> IF Count(world) > 0 THEN CpuTotal(world) \div Count(world) ELSE 0,
                                  memory |-> MemTotal(world)]]
    <3>1. t \in Topologies(world)
      BY DEF Topologies
    <3>2. DOMAIN t.processes = more
      OBVIOUS
    <3> HIDE DEF t
    <3> QED
      BY <3>1, <3>2
  <2>5. s.counts = RestCounts(diagnostics) /\ s.memory = MemTotal(world) /\ s.top = top
    BY <2>1
  <2>6. RestStats(world).memory = MemTotal(world)
    BY DEF RestStats
  <2> QED
    BY <2>2, <2>3, <2>4, <2>5, <2>6
<1>2. ASSUME NEW t \in Topologies(world)
      PROVE  /\ t.summary.memory = RestStats(world).memory
             /\ \A p \in DOMAIN t.processes : \A one \in ProcessDetail(world, p) :
                  /\ one.process = t.processes[p]
                  /\ {l \in one.connections : l.from = p} = {l \in t.connections : l.from = p}
  <2>1. PICK top \in Heaviest(world.procs, MaxProcesses) :
          /\ t.processes = [p \in top |-> world.procs[p]]
          /\ t.connections = {l \in world.links : l.from \in top}
          /\ t.summary.memory = MemTotal(world)
    BY DEF Topologies
  <2>2. RestStats(world).memory = MemTotal(world)
    BY DEF RestStats
  <2>3. ASSUME NEW p \in DOMAIN t.processes, NEW one \in ProcessDetail(world, p)
        PROVE  /\ one.process = t.processes[p]
               /\ {l \in one.connections : l.from = p} = {l \in t.connections : l.from = p}
    <3>1. one.process = world.procs[p] /\ one.connections = ConnectionsOf(world, p)
      BY DEF ProcessDetail
    <3>2. p \in top /\ t.processes[p] = world.procs[p]
      BY <2>1
    <3>3. {l \in ConnectionsOf(world, p) : l.from = p} = {l \in t.connections : l.from = p}
      BY <2>1, <3>2 DEF ConnectionsOf
    <3> QED
      BY <3>1, <3>2, <3>3
  <2> QED
    BY <2>1, <2>2, <2>3
<1>3. ASSUME NEW p \in DOMAIN world.procs, NEW one \in InspectProcess(world, p),
             NEW seen \in ProcessDetail(world, p)
      PROVE  one.connections = seen.connections
  <2>1. p % PidWidth = p
    BY WorldIs
  <2>2. one.connections = ConnectionsOf(world, p)
    BY <2>1 DEF InspectProcess
  <2>3. seen.connections = ConnectionsOf(world, p)
    BY DEF ProcessDetail
  <2> QED
    BY <2>2, <2>3
<1> QED
  BY <1>1, <1>2, <1>3 DEF GraphViewsAgree
-----------------------------------------------------------------------------
(* The exporter's page.                                                    *)

SampleLine(g) ==
  LET label == CHOOSE l \in DOMAIN g.labels : TRUE
  IN [form |-> "sample", name |-> g.name, family |-> g.name, value |-> g.value,
      labels |-> <<[key |-> label, value |-> g.labels[label], form |-> "quoted"]>>]
HelpLine(m) == [form |-> "help", name |-> m[1], text |-> "help"]
TypeLine(m) == [form |-> "type", name |-> m[1], text |-> m[2]]
Family(G, m) ==
  LET samples == SetToSeq({g \in G : g.name = m[1]})
  IN <<HelpLine(m), TypeLine(m)>> \o [i \in DOMAIN samples |-> SampleLine(samples[i])]
Registered == ToSet(RegisteredMetrics)
Lines(G) == {HelpLine(m) : m \in Registered} \cup {TypeLine(m) : m \in Registered}
            \cup {SampleLine(g) : g \in G}

LEMMA PageIs ==
  ASSUME NEW G
  PROVE  MetricsPage(G) = FlattenSeq([i \in DOMAIN RegisteredMetrics |-> Family(G, RegisteredMetrics[i])])
BY DEF MetricsPage, Family, SampleLine, HelpLine, TypeLine

\* A sample under the type line of its family.
Under(page, i, g) ==
  /\ page[i] = SampleLine(g)
  /\ \E k \in 1 .. i - 1 :
       /\ page[k].form = "type" /\ page[k].name = g.name /\ page[k].text = "gauge"
       /\ \A j \in k + 1 .. i - 1 : page[j].form # "type"

\* A page with the samples of the gauges in H and no others.
Shows(page, H) ==
  /\ \A i \in 1 .. Len(page) :
       page[i].form \in {"help", "type"} \/ \E g \in H : Under(page, i, g)
  /\ \A g \in H : \E i \in 1 .. Len(page) : page[i] = SampleLine(g)

LEMMA JoinIs ==
  ASSUME NEW S, NEW p \in Seq(S), NEW q \in Seq(S)
  PROVE  /\ p \o q \in Seq(S) /\ Len(p \o q) = Len(p) + Len(q)
         /\ \A i \in 1 .. Len(p) : (p \o q)[i] = p[i]
         /\ \A i \in 1 .. Len(q) : (p \o q)[Len(p) + i] = q[i]
OBVIOUS

LEMMA ShowsBoth ==
  ASSUME NEW S, NEW p \in Seq(S), NEW q \in Seq(S), NEW H, NEW I, Shows(p, H), Shows(q, I)
  PROVE  Shows(p \o q, H \cup I) /\ p \o q \in Seq(S)
<1> DEFINE r == p \o q
           m == Len(p)
           n == Len(q)
<1>1. /\ m \in Nat /\ n \in Nat /\ r \in Seq(S) /\ Len(r) = m + n
      /\ \A i \in 1 .. m : r[i] = p[i]
      /\ \A i \in 1 .. n : r[m + i] = q[i]
  OBVIOUS
<1> HIDE DEF r, m, n
<1>2. \A i \in 1 .. m + n : i \in 1 .. m \/ (i - m \in 1 .. n /\ i = m + (i - m))
  BY <1>1
<1>3. ASSUME NEW i \in 1 .. m, NEW g, Under(p, i, g) PROVE Under(r, i, g)
  <2>1. r[i] = p[i] /\ \A j \in 1 .. i - 1 : r[j] = p[j]
    BY <1>1
  <2>2. p[i] = SampleLine(g)
    BY <1>3 DEF Under
  <2>3. PICK k \in 1 .. i - 1 :
          /\ p[k].form = "type" /\ p[k].name = g.name /\ p[k].text = "gauge"
          /\ \A j \in k + 1 .. i - 1 : p[j].form # "type"
    BY <1>3 DEF Under
  <2>4. ASSUME NEW j \in k + 1 .. i - 1 PROVE r[j].form # "type"
    <3>1. j \in 1 .. i - 1
      BY <1>1
    <3>2. r[j] = p[j] /\ p[j].form # "type"
      BY <2>1, <2>3, <3>1
    <3> QED
      BY <3>2
  <2> QED
    BY <2>1, <2>2, <2>3, <2>4 DEF Under
<1>4. ASSUME NEW i \in 1 .. n, NEW g, Under(q, i, g), NEW at, at = m + i
      PROVE  Under(r, at, g)
  <2>1. r[at] = SampleLine(g)
    BY <1>1, <1>4 DEF Under
  <2>2. PICK k \in 1 .. i - 1 :
          /\ q[k].form = "type" /\ q[k].name = g.name /\ q[k].text = "gauge"
          /\ \A j \in k + 1 .. i - 1 : q[j].form # "type"
    BY <1>4 DEF Under
  <2> DEFINE l == m + k
  <2>3. k \in 1 .. n /\ l \in 1 .. at - 1 /\ r[l] = q[k]
    BY <1>1, <1>4
  <2>4. ASSUME NEW j \in l + 1 .. at - 1 PROVE r[j].form # "type"
    <3>1. j - m \in k + 1 .. i - 1 /\ j - m \in 1 .. n /\ j = m + (j - m)
      BY <1>1, <1>4
    <3>2. r[j] = q[j - m]
      BY <1>1, <3>1
    <3> QED
      BY <2>2, <3>1, <3>2
  <2> HIDE DEF l
  <2> QED
    BY <2>1, <2>2, <2>3, <2>4 DEF Under
<1>5. ASSUME NEW i \in 1 .. m + n
      PROVE  r[i].form \in {"help", "type"} \/ \E g \in H \cup I : Under(r, i, g)
  <2>1. CASE i \in 1 .. m
    <3>1. p[i].form \in {"help", "type"} \/ \E g \in H : Under(p, i, g)
      BY <2>1 DEF Shows, m
    <3> QED
      BY <1>1, <1>3, <2>1, <3>1
  <2>2. CASE i - m \in 1 .. n /\ i = m + (i - m)
    <3> DEFINE j == i - m
    <3>1. j \in 1 .. n /\ i = m + j
      BY <2>2
    <3> HIDE DEF j
    <3>2. q[j].form \in {"help", "type"} \/ \E g \in I : Under(q, j, g)
      BY <3>1 DEF Shows, n
    <3>3. r[i] = q[j]
      BY <1>1, <3>1
    <3>4. \A g : Under(q, j, g) => Under(r, i, g)
      BY <1>4, <3>1
    <3> QED
      BY <3>2, <3>3, <3>4
  <2> QED
    BY <1>2, <2>1, <2>2
<1>6. ASSUME NEW g \in H \cup I PROVE \E i \in 1 .. m + n : r[i] = SampleLine(g)
  <2>1. CASE g \in H
    <3>1. PICK i \in 1 .. m : p[i] = SampleLine(g)
      BY <2>1 DEF Shows, m
    <3>2. i \in 1 .. m + n /\ r[i] = p[i]
      BY <1>1
    <3> QED
      BY <3>1, <3>2
  <2>2. CASE g \in I
    <3>1. PICK i \in 1 .. n : q[i] = SampleLine(g)
      BY <2>2 DEF Shows, n
    <3>2. m + i \in 1 .. m + n /\ r[m + i] = q[i]
      BY <1>1
    <3> QED
      BY <3>1, <3>2
  <2> QED
    BY <2>1, <2>2
<1>7. Shows(r, H \cup I)
  BY <1>1, <1>5, <1>6 DEF Shows
<1> QED
  BY <1>1, <1>7 DEF r

LEMMA SetInSequence ==
  ASSUME NEW S, IsFiniteSet(S)
  PROVE  /\ SetToSeq(S) \in Seq(S)
         /\ \A x \in S : \E i \in 1 .. Len(SetToSeq(S)) : SetToSeq(S)[i] = x
<1> DEFINE n == Cardinality(S)
           f == SetToSeq(S)
<1>1. n \in Nat /\ ExistsBijection(1 .. n, S)
  BY FS_CardinalityType, FS_CountingElements
<1> HIDE DEF n
<1>2. \E g \in [1 .. n -> S] : IsInjective(g)
  BY <1>1 DEF ExistsBijection, Bijection, Injection
<1>3. f \in [1 .. n -> S] /\ IsInjective(f)
  BY <1>2 DEF SetToSeq, n
<1> HIDE DEF f
<1>4. IsFiniteSet(1 .. n) /\ Cardinality(1 .. n) = n
  BY <1>1, FS_Interval
<1>5. f \in Injection(1 .. n, S)
  BY <1>3 DEF Injection
<1>6. f \in Surjection(1 .. n, S)
  BY <1>4, <1>5, FS_Injection DEF n
<1>7. f \in Seq(S) /\ Len(f) = n
  BY <1>1, <1>3
<1>8. \A x \in S : \E i \in 1 .. n : f[i] = x
  BY <1>6 DEF Surjection
<1> QED
  BY <1>7, <1>8 DEF f

\* A page of families that show their gauges shows them all.
Joined(p, q) == p \o q
FlatStep(seqs, m, k) == IF k = 1 THEN seqs[k] ELSE Joined(m[k - 1], seqs[k])
Flat(m, seqs, n) == m = [k \in 1 .. n |-> FlatStep(seqs, m, k)]

LEMMA FlattenIs ==
  ASSUME NEW seqs, Len(seqs) \in Nat \ {0}
  PROVE  \E m : /\ FlattenSeq(seqs) = m[Len(seqs)] /\ m[1] = seqs[1]
                /\ \A k \in 1 .. Len(seqs) - 1 : m[k + 1] = Joined(m[k], seqs[k + 1])
<1> DEFINE N == Len(seqs)
           Has(n) == \E m : Flat(m, seqs, n)
           S == {n \in Nat : n >= 1 => Has(n)}
<1>1. 0 \in S
  OBVIOUS
<1>2. ASSUME NEW n \in Nat, n \in S PROVE n + 1 \in S
  <2> SUFFICES Has(n + 1)
    OBVIOUS
  <2>1. CASE n = 0
    <3> DEFINE m == [k \in 1 .. 1 |-> seqs[1]]
    <3>1. \A k \in 1 .. 1 : FlatStep(seqs, m, k) = seqs[1]
      BY DEF FlatStep
    <3>2. m = [k \in 1 .. 1 |-> FlatStep(seqs, m, k)]
      BY <3>1
    <3> HIDE DEF m
    <3>3. Flat(m, seqs, 1)
      BY <3>2 DEF Flat
    <3> QED
      BY <2>1, <3>3
  <2>2. CASE n # 0
    <3>1. PICK m : m = [k \in 1 .. n |-> FlatStep(seqs, m, k)]
      BY <1>2, <2>2 DEF Flat
    <3> DEFINE last == Joined(m[n], seqs[n + 1])
               l == [k \in 1 .. n + 1 |-> IF k = n + 1 THEN last ELSE m[k]]
    <3> HIDE DEF last
    <3>2. ASSUME NEW k \in 1 .. n + 1
          PROVE  l[k] = FlatStep(seqs, l, k)
      <4>1. CASE k = n + 1
        <5>1. l[k] = last /\ k - 1 = n /\ l[n] = m[n] /\ k # 1
          BY <2>2, <4>1
        <5> HIDE DEF l
        <5> QED
          BY <4>1, <5>1 DEF last, FlatStep
      <4>2. CASE k \in 1 .. n
        <5>1. l[k] = m[k] /\ (k # 1 => l[k - 1] = m[k - 1])
          BY <4>2
        <5>2. m[k] = FlatStep(seqs, m, k)
          BY <3>1, <4>2
        <5> HIDE DEF l
        <5> QED
          BY <5>1, <5>2 DEF FlatStep
      <4> QED
        BY <4>1, <4>2
    <3>3. l = [k \in 1 .. n + 1 |-> FlatStep(seqs, l, k)]
      BY <3>2
    <3> HIDE DEF l
    <3> QED
      BY <3>3 DEF Flat
  <2> QED
    BY <2>1, <2>2
<1> HIDE DEF S
<1>3. Nat \subseteq S
  BY <1>1, <1>2, SetOfAllNaturals
<1>4. N \in S /\ N >= 1
  BY <1>3
<1>5. \E q : Flat(q, seqs, N)
  BY <1>4 DEF S
<1> DEFINE m == CHOOSE q : Flat(q, seqs, N)
<1>6. Flat(m, seqs, N)
  BY <1>5
<1>7. FlattenSeq(seqs) = m[N]
  BY <1>4 DEF FlattenSeq, Flat, FlatStep, Joined
<1> HIDE DEF m
<1>8. \A k \in 1 .. N : m[k] = FlatStep(seqs, m, k)
  BY <1>6 DEF Flat
<1>9. m[1] = seqs[1]
  BY <1>4, <1>8 DEF FlatStep
<1>10. ASSUME NEW k \in 1 .. N - 1 PROVE m[k + 1] = Joined(m[k], seqs[k + 1])
  <2>1. k + 1 \in 1 .. N /\ k + 1 # 1 /\ k + 1 - 1 = k
    BY <1>4
  <2>2. m[k + 1] = FlatStep(seqs, m, k + 1)
    BY <1>8, <2>1
  <2> DEFINE n == k + 1
  <2>3. n # 1
    BY <2>1
  <2> HIDE DEF n
  <2>4. FlatStep(seqs, m, n) = Joined(m[n - 1], seqs[n])
    BY <2>3 DEF FlatStep
  <2> QED
    BY <2>1, <2>2, <2>4 DEF n
<1> QED
  BY <1>7, <1>9, <1>10

\* The gauges of a family, and those of the first n families.
OfFamily(G, m) == {g \in G : g.name = m[1]}
OfFirst(G, n) == {g \in G : \E j \in 1 .. n : g.name = RegisteredMetrics[j][1]}

LEMMA ShowsAll ==
  ASSUME NEW S, NEW G, NEW seqs \in Seq(Seq(S)), Len(seqs) \in Nat \ {0},
         \A i \in 1 .. Len(seqs) : Shows(seqs[i], OfFamily(G, RegisteredMetrics[i]))
  PROVE  FlattenSeq(seqs) \in Seq(S) /\ Shows(FlattenSeq(seqs), OfFirst(G, Len(seqs)))
<1> DEFINE N == Len(seqs)
<1>1. PICK m : /\ FlattenSeq(seqs) = m[N] /\ m[1] = seqs[1]
               /\ \A k \in 1 .. N - 1 : m[k + 1] = Joined(m[k], seqs[k + 1])
  BY FlattenIs
<1>2. \A k \in 1 .. N : seqs[k] \in Seq(S)
  OBVIOUS
<1> DEFINE Of(k) == OfFamily(G, RegisteredMetrics[k])
           Ok(n) == m[n] \in Seq(S) /\ Shows(m[n], OfFirst(G, n))
           T == {n \in Nat : n \in 1 .. N => Ok(n)}
<1>3. 0 \in T
  OBVIOUS
<1>4. ASSUME NEW n \in Nat, n \in T PROVE n + 1 \in T
  <2> SUFFICES ASSUME n + 1 \in 1 .. N PROVE Ok(n + 1)
    OBVIOUS
  <2>1. seqs[n + 1] \in Seq(S) /\ Shows(seqs[n + 1], Of(n + 1))
    BY <1>2
  <2>2. CASE n = 0
    <3>1. OfFirst(G, 1) = Of(1)
      BY DEF OfFirst, OfFamily
    <3> HIDE DEF Of
    <3>2. m[1] = seqs[1]
      BY <1>1
    <3> QED
      BY <2>1, <2>2, <3>1, <3>2
  <2>3. CASE n # 0
    <3>1. n \in 1 .. N /\ n \in 1 .. N - 1
      BY <2>3
    <3>2. m[n] \in Seq(S) /\ Shows(m[n], OfFirst(G, n))
      BY <1>4, <3>1
    <3>3. m[n + 1] = Joined(m[n], seqs[n + 1])
      BY <1>1, <3>1
    <3>4. OfFirst(G, n + 1) = OfFirst(G, n) \cup Of(n + 1)
      <4>1. 1 .. n + 1 = (1 .. n) \cup {n + 1}
        OBVIOUS
      <4> QED
        BY <4>1 DEF OfFirst, OfFamily
    <3> DEFINE p == m[n]
               q == seqs[n + 1]
               H == OfFirst(G, n)
               I == Of(n + 1)
    <3> HIDE DEF Of
    <3>5. p \in Seq(S) /\ q \in Seq(S) /\ Shows(p, H) /\ Shows(q, I)
      BY <2>1, <3>2
    <3> HIDE DEF p, q, H, I
    <3>6. Shows(p \o q, H \cup I) /\ p \o q \in Seq(S)
      BY <3>5, ShowsBoth
    <3> QED
      BY <3>3, <3>4, <3>6 DEF p, q, H, I, Joined
  <2> QED
    BY <2>2, <2>3
<1> HIDE DEF T, Ok
<1>5. Nat \subseteq T
  BY <1>3, <1>4, SetOfAllNaturals
<1>6. N \in T /\ N \in 1 .. N
  BY <1>5
<1>7. Ok(N)
  BY <1>6 DEF T
<1> QED
  BY <1>1, <1>7 DEF Ok
-----------------------------------------------------------------------------
(* The gauges, and what is read back.                                      *)

IsGauge(g) ==
  \E name \in {"aether_process_cpu_percent", "aether_process_memory_bytes",
               "aether_process_hp", "aether_diagnostics_active"},
     label \in {"pid", "severity"}, value \in Nat :
    \E key : g = Gauge(name, label, key, value)

LEMMA GaugesAre ==
  ASSUME SurfaceInv
  PROVE  /\ IsFiniteSet(Gauges(gauges, diagnostics))
         /\ \A g \in Gauges(gauges, diagnostics) : IsGauge(g)
<1> DEFINE D == DOMAIN gauges
           Three(p) == {Gauge("aether_process_cpu_percent", "pid", p, gauges[p].cpu),
                        Gauge("aether_process_memory_bytes", "pid", p, gauges[p].mem),
                        Gauge("aether_process_hp", "pid", p, gauges[p].hp)}
           f == [p \in D |-> Three(p)]
           R == {f[p] : p \in D}
           counts == [i \in 1 .. 3 |-> Gauge("aether_diagnostics_active", "severity",
                        <<"critical", "warning", "info">>[i], ExportedCounts(diagnostics)[i])]
           C == {counts[i] : i \in 1 .. 3}
<1>1. Gauges(gauges, diagnostics) = (UNION R) \cup C
  BY DEF Gauges
<1>2. IsFiniteSet(UNION R)
  <2>1. \A T \in R : IsFiniteSet(T)
    <3>1. \A a, b, c : IsFiniteSet({a, b, c})
      <4> TAKE a, b, c
      <4>1. {a, b, c} = {a} \cup {b} \cup {c}
        OBVIOUS
      <4>2. IsFiniteSet({a} \cup {b})
        BY FS_Singleton, FS_Union
      <4>3. IsFiniteSet({a} \cup {b} \cup {c})
        BY <4>2, FS_Singleton, FS_Union
      <4> QED
        BY <4>1, <4>3
    <3>2. \A p \in D : IsFiniteSet(Three(p))
      BY <3>1
    <3> HIDE DEF Three
    <3> QED
      BY <3>2
  <2>2. IsFiniteSet(D) /\ DOMAIN f = D
    BY DEF SurfaceInv
  <2>3. IsFiniteSet(R)
    <3> HIDE DEF f, D
    <3> QED
      BY <2>2, FiniteImage
  <2> HIDE DEF R
  <2> QED
    BY <2>1, <2>3, FS_UNION
<1>3. IsFiniteSet(C)
  <2>1. IsFiniteSet(1 .. 3)
    <3> DEFINE n == 3
    <3>1. n \in Int /\ 1 \in Int
      OBVIOUS
    <3> HIDE DEF n
    <3>2. IsFiniteSet(1 .. n)
      BY <3>1, FS_Interval
    <3> QED
      BY <3>2 DEF n
  <2>2. DOMAIN counts = 1 .. 3
    OBVIOUS
  <2> HIDE DEF counts
  <2> QED
    BY <2>1, <2>2, FiniteImage
<1>4. ASSUME NEW g \in UNION R PROVE IsGauge(g)
  <2>1. PICK p \in D : g \in Three(p)
    OBVIOUS
  <2>2. gauges[p].cpu \in Nat /\ gauges[p].mem \in Nat /\ gauges[p].hp \in Nat
    <3>1. gauges[p] \in Process
      BY DEF SurfaceInv
    <3> QED
      BY <3>1 DEF Process
  <2> QED
    BY <2>1, <2>2 DEF IsGauge
<1>5. ASSUME NEW g \in C PROVE IsGauge(g)
  <2>1. PICK i \in 1 .. 3 : g = Gauge("aether_diagnostics_active", "severity",
                              <<"critical", "warning", "info">>[i], ExportedCounts(diagnostics)[i])
    OBVIOUS
  <2>2. ExportedCounts(diagnostics)[i] \in Nat
    BY Counts
  <2> QED
    BY <2>1, <2>2 DEF IsGauge
<1> HIDE DEF R, C
<1>6. IsFiniteSet((UNION R) \cup C)
  BY <1>2, <1>3, FS_Union
<1> QED
  BY <1>1, <1>4, <1>5, <1>6

LabelNext(pair, labels) ==
  [k \in {pair.key} \cup DOMAIN labels |-> IF k = pair.key THEN pair.value ELSE labels[k]]
LabelStep(pairs, l, n) ==
  IF n = 0 THEN <<>>
  ELSE IF pairs[n].key = "" THEN l[n - 1] ELSE LabelNext(pairs[n], l[n - 1])
LabelsUpTo(l, pairs, N) == l = [n \in 0 .. N |-> LabelStep(pairs, l, n)]

One(pairs, p) == Len(pairs) = 1 /\ pairs[1] = p
OneOf(key, value) == [l \in {key} |-> value]
Keyed(p, key, value) == p.key = key /\ p.value = value /\ key # ""

LEMMA OneLabel ==
  ASSUME NEW p, NEW key, NEW value, Keyed(p, key, value), NEW pairs, One(pairs, p)
  PROVE  LabelsOf(pairs) = OneOf(key, value)
<1> DEFINE all == [l \in {key} |-> value]
           w == [n \in 0 .. 1 |-> IF n = 0 THEN <<>> ELSE all]
           m == CHOOSE l : LabelsUpTo(l, pairs, 1)
<1>1. Len(pairs) = 1
  BY DEF One
<1>2. pairs[1] = p
  BY DEF One
<1>3. LabelsOf(pairs) = m[1]
  BY <1>1 DEF LabelsOf, LabelsUpTo, LabelStep, LabelNext
<1>4. ASSUME NEW l, l[0] = <<>> PROVE LabelStep(pairs, l, 1) = all
  <2>1. LabelStep(pairs, l, 1) = LabelNext(p, l[0])
    <3> DEFINE n == 1
    <3>1. n # 0 /\ n - 1 = 0 /\ pairs[n] = p
      BY <1>2
    <3>2. p.key # ""
      BY DEF Keyed
    <3> HIDE DEF n
    <3>3. LabelStep(pairs, l, n) = LabelNext(p, l[n - 1])
      BY <3>1, <3>2 DEF LabelStep
    <3>4. LabelStep(pairs, l, n) = LabelNext(p, l[0])
      BY <3>1, <3>3
    <3> QED
      BY <3>4 DEF n
  <2>2. {key} \cup DOMAIN l[0] = {key}
    BY <1>4
  <2>3. LabelNext(p, l[0]) = [k \in {key} \cup DOMAIN l[0] |-> IF k = key THEN value ELSE l[0][k]]
    BY DEF LabelNext, Keyed
  <2> QED
    BY <2>1, <2>2, <2>3
<1>5. \A l : LabelStep(pairs, l, 0) = <<>>
  BY DEF LabelStep
<1>6. LabelsUpTo(w, pairs, 1)
  <2> HIDE DEF all
  <2>1. w[0] = <<>> /\ w[1] = all
    OBVIOUS
  <2>2. \A n \in 0 .. 1 : n = 0 \/ n = 1
    OBVIOUS
  <2>3. \A n \in 0 .. 1 : w[n] = LabelStep(pairs, w, n)
    BY <1>4, <1>5, <2>1, <2>2
  <2>4. w = [n \in 0 .. 1 |-> LabelStep(pairs, w, n)]
    BY <2>3
  <2> HIDE DEF w
  <2> QED
    BY <2>4 DEF LabelsUpTo
<1> HIDE DEF w, all
<1>7. LabelsUpTo(m, pairs, 1)
  BY <1>6
<1> HIDE DEF m
<1>8. m[0] = LabelStep(pairs, m, 0) /\ m[1] = LabelStep(pairs, m, 1)
  BY <1>7 DEF LabelsUpTo
<1> QED
  BY <1>3, <1>4, <1>5, <1>8 DEF all, OneOf

\* The line of a gauge parses, and what is read from it is the gauge.
LEMMA LineReadsBack ==
  ASSUME NEW g, IsGauge(g)
  PROVE  /\ SampleParses(SampleLine(g)) /\ SampleLine(g).form = "sample"
         /\ SampleLine(g).name = g.name /\ SampleLine(g).value = g.value
         /\ ParseLabels(SampleLine(g).labels) = g.labels
         /\ g = [name |-> g.name, labels |-> g.labels, value |-> g.value]
<1>1. PICK name \in {"aether_process_cpu_percent", "aether_process_memory_bytes",
                     "aether_process_hp", "aether_diagnostics_active"},
           label \in {"pid", "severity"}, value \in Nat : \E key : g = Gauge(name, label, key, value)
  BY DEF IsGauge
<1>2. PICK key : g = Gauge(name, label, key, value)
  BY <1>1
<1>3. /\ g.name = name /\ g.value = value /\ g.labels = [l \in {label} |-> key]
      /\ g = [name |-> g.name, labels |-> g.labels, value |-> g.value]
  BY <1>2 DEF Gauge
<1>4. DOMAIN g.labels = {label} /\ g.labels[label] = key
  BY <1>3
<1> DEFINE pair == [key |-> label, value |-> key, form |-> "quoted"]
           pairs == <<pair>>
<1>5. SampleLine(g) = [form |-> "sample", name |-> name, family |-> name, value |-> value,
                       labels |-> pairs]
  <2>1. (CHOOSE l \in {label} : TRUE) = label
    OBVIOUS
  <2> QED
    BY <1>3, <1>4, <2>1 DEF SampleLine
<1>6. SampleParses(SampleLine(g))
  <2>1. value # Bad
    BY SMT DEF Bad
  <2>2. \A i \in DOMAIN pairs : pairs[i].form = "quoted"
    OBVIOUS
  <2>3. name # ""
    OBVIOUS
  <2> DEFINE line == SampleLine(g)
  <2> HIDE DEF pairs
  <2>4. line.form = "sample" /\ line.name = name /\ line.value = value /\ line.labels = pairs
    BY <1>5
  <2> HIDE DEF line
  <2>5. SampleParses(line)
    BY <2>1, <2>2, <2>3, <2>4 DEF SampleParses
  <2> QED
    BY <2>5 DEF line
<1>7. ParseLabels(pairs) = [l \in {label} |-> key]
  <2>1. {i \in DOMAIN pairs : pairs[i].form # "quoted"} = {}
    OBVIOUS
  <2>2. Keyed(pair, label, key)
    BY DEF Keyed
  <2> HIDE DEF pair
  <2>3. One(pairs, pair)
    BY DEF One
  <2> HIDE DEF pairs
  <2>4. LabelsOf(pairs) = OneOf(label, key)
    BY <2>2, <2>3, OneLabel
  <2>5. ParseLabels(pairs) = LabelsOf(pairs)
    BY <2>1 DEF ParseLabels
  <2> QED
    BY <2>4, <2>5 DEF OneOf
<1> QED
  BY <1>3, <1>5, <1>6, <1>7

LEMMA FamilyShows ==
  ASSUME NEW G, IsFiniteSet(G), \A g \in G : IsGauge(g), NEW m \in Registered,
         m[2] = "gauge" \/ \A g \in G : g.name # m[1]
  PROVE  Family(G, m) \in Seq(Lines(G)) /\ Shows(Family(G, m), OfFamily(G, m))
<1> DEFINE H == OfFamily(G, m)
           samples == SetToSeq(H)
           n == Len(samples)
           heads == <<HelpLine(m), TypeLine(m)>>
           tail == [i \in DOMAIN samples |-> SampleLine(samples[i])]
           page == Family(G, m)
<1>1. H \in SUBSET G
  BY DEF OfFamily
<1> HIDE DEF H
<1>2. IsFiniteSet(H)
  BY <1>1, FS_Subset
<1>3. samples \in Seq(H) /\ \A x \in H : \E i \in 1 .. n : samples[i] = x
  BY <1>2, SetInSequence
<1>4. page = heads \o tail
  BY DEF Family, OfFamily, H
<1> HIDE DEF samples
<1>5. n \in Nat /\ DOMAIN samples = 1 .. n /\ \A i \in 1 .. n : samples[i] \in H
  BY <1>3
<1> HIDE DEF n
<1>6. /\ tail \in Seq(Lines(G)) /\ Len(tail) = n
      /\ \A i \in 1 .. n : tail[i] = SampleLine(samples[i])
  <2>1. tail = [i \in 1 .. n |-> SampleLine(samples[i])]
    BY <1>5
  <2>2. \A i \in 1 .. n : SampleLine(samples[i]) \in Lines(G)
    BY <1>1, <1>5 DEF Lines
  <2> HIDE DEF tail
  <2> QED
    BY <1>5, <2>1, <2>2
<1>7. heads \in Seq(Lines(G)) /\ Len(heads) = 2 /\ heads[1] = HelpLine(m) /\ heads[2] = TypeLine(m)
  BY DEF Lines
<1> HIDE DEF heads, tail, page
<1>8. /\ page \in Seq(Lines(G)) /\ Len(page) = n + 2
      /\ page[1] = HelpLine(m) /\ page[2] = TypeLine(m)
      /\ \A i \in 1 .. n : page[i + 2] = SampleLine(samples[i])
  <2>1. /\ page \in Seq(Lines(G)) /\ Len(page) = n + 2
        /\ page[1] = heads[1] /\ page[2] = heads[2]
        /\ \A i \in 1 .. n : page[i + 2] = tail[i]
    <3>1. /\ heads \o tail \in Seq(Lines(G)) /\ Len(heads \o tail) = Len(heads) + Len(tail)
          /\ \A i \in 1 .. Len(heads) : (heads \o tail)[i] = heads[i]
          /\ \A i \in 1 .. Len(tail) : (heads \o tail)[Len(heads) + i] = tail[i]
      <4> DEFINE S == Lines(G)
      <4>1. heads \in Seq(S) /\ tail \in Seq(S)
        BY <1>6, <1>7
      <4> HIDE DEF S
      <4>2. /\ heads \o tail \in Seq(S) /\ Len(heads \o tail) = Len(heads) + Len(tail)
            /\ \A i \in 1 .. Len(heads) : (heads \o tail)[i] = heads[i]
            /\ \A i \in 1 .. Len(tail) : (heads \o tail)[Len(heads) + i] = tail[i]
        BY <4>1, JoinIs
      <4> QED
        BY <4>2 DEF S
    <3>2. /\ page \in Seq(Lines(G)) /\ Len(page) = 2 + n
          /\ \A i \in 1 .. 2 : page[i] = heads[i]
          /\ \A i \in 1 .. n : page[2 + i] = tail[i]
      BY <1>4, <1>6, <1>7, <3>1
    <3> QED
      BY <1>5, <3>2
  <2> QED
    BY <1>6, <1>7, <2>1
<1>9. ASSUME NEW i \in 1 .. n + 2
      PROVE  page[i].form \in {"help", "type"} \/ \E g \in H : Under(page, i, g)
  <2>1. CASE i = 1
    BY <1>8, <2>1 DEF HelpLine
  <2>2. CASE i = 2
    BY <1>8, <2>2 DEF TypeLine
  <2>3. CASE i \in 3 .. n + 2
    <3> DEFINE j == i - 2
    <3>1. j \in 1 .. n /\ i = j + 2 /\ 2 \in 1 .. i - 1
      BY <1>5, <2>3
    <3> HIDE DEF j
    <3> DEFINE g == samples[j]
    <3>2. g \in H /\ g \in G /\ g.name = m[1]
      BY <1>1, <1>5, <3>1 DEF H, OfFamily
    <3>3. page[i] = SampleLine(g)
      BY <1>8, <3>1
    <3>4. page[2].form = "type" /\ page[2].name = g.name /\ page[2].text = "gauge"
      <4>1. m[2] = "gauge"
        BY <3>2
      <4>2. page[2] = TypeLine(m)
        BY <1>8
      <4> QED
        BY <3>2, <4>1, <4>2 DEF TypeLine
    <3>5. ASSUME NEW k \in 2 + 1 .. i - 1 PROVE page[k].form # "type"
      <4> DEFINE l == k - 2
      <4>1. l \in 1 .. n /\ k = l + 2
        BY <1>5, <3>1
      <4> HIDE DEF l
      <4>2. page[k] = SampleLine(samples[l]) /\ samples[l] \in G
        BY <1>1, <1>5, <1>8, <4>1
      <4>3. SampleLine(samples[l]).form = "sample"
        BY <4>2, LineReadsBack
      <4> QED
        BY <4>2, <4>3
    <3> HIDE DEF g
    <3>6. Under(page, i, g)
      BY <3>1, <3>3, <3>4, <3>5 DEF Under
    <3> QED
      BY <3>2, <3>6
  <2> QED
    BY <1>5, <2>1, <2>2, <2>3
<1>10. ASSUME NEW g \in H PROVE \E i \in 1 .. n + 2 : page[i] = SampleLine(g)
  <2>1. PICK i \in 1 .. n : samples[i] = g
    BY <1>3 DEF n
  <2>2. i + 2 \in 1 .. n + 2 /\ page[i + 2] = SampleLine(g)
    BY <1>5, <1>8, <2>1
  <2> QED
    BY <2>2
<1>11. Shows(page, H)
  BY <1>8, <1>9, <1>10 DEF Shows
<1> QED
  BY <1>8, <1>11 DEF page, H

LEMMA PageShows ==
  ASSUME NEW G, IsFiniteSet(G), G # {}, \A g \in G : IsGauge(g)
  PROVE  /\ MetricsPage(G) \in Seq(Lines(G)) /\ Shows(MetricsPage(G), G)
         /\ IsPrometheusFormat(MetricsPage(G))
<1> DEFINE seqs == [i \in DOMAIN RegisteredMetrics |-> Family(G, RegisteredMetrics[i])]
<1>1. /\ DOMAIN RegisteredMetrics = 1 .. 8 /\ \A i \in 1 .. 8 : RegisteredMetrics[i] \in Registered
      /\ \A i \in 1 .. 7 : RegisteredMetrics[i][2] = "gauge"
      /\ RegisteredMetrics[1][1] = "aether_process_cpu_percent"
      /\ RegisteredMetrics[2][1] = "aether_process_memory_bytes"
      /\ RegisteredMetrics[3][1] = "aether_process_hp"
      /\ RegisteredMetrics[7][1] = "aether_diagnostics_active"
      /\ RegisteredMetrics[8][1] = "aether_analyze_evaluations_total"
  <2>1. DOMAIN RegisteredMetrics = 1 .. 8
    BY DEF RegisteredMetrics
  <2>2. \A i \in 1 .. 8 : RegisteredMetrics[i] \in Registered
    BY <2>1 DEF Registered, ToSet
  <2>3. \A i \in 1 .. 7 : RegisteredMetrics[i][2] = "gauge"
    BY DEF RegisteredMetrics
  <2> QED
    BY <2>1, <2>2, <2>3 DEF RegisteredMetrics
<1>2. ASSUME NEW g \in G
      PROVE  g.name \in {"aether_process_cpu_percent", "aether_process_memory_bytes",
                         "aether_process_hp", "aether_diagnostics_active"}
  BY DEF IsGauge, Gauge
<1>3. ASSUME NEW i \in 1 .. 8
      PROVE  RegisteredMetrics[i][2] = "gauge" \/ \A g \in G : g.name # RegisteredMetrics[i][1]
  <2>1. CASE i \in 1 .. 7
    BY <1>1, <2>1
  <2>2. CASE i = 8
    BY <1>1, <1>2, <2>2
  <2> QED
    BY <2>1, <2>2
<1>4. ASSUME NEW i \in 1 .. 8
      PROVE  /\ Family(G, RegisteredMetrics[i]) \in Seq(Lines(G))
             /\ Shows(Family(G, RegisteredMetrics[i]), OfFamily(G, RegisteredMetrics[i]))
  <2> DEFINE m == RegisteredMetrics[i]
  <2>1. m \in Registered /\ (m[2] = "gauge" \/ \A g \in G : g.name # m[1])
    BY <1>1, <1>3
  <2> HIDE DEF m
  <2>2. Family(G, m) \in Seq(Lines(G)) /\ Shows(Family(G, m), OfFamily(G, m))
    BY <2>1, FamilyShows
  <2> QED
    BY <2>2 DEF m
<1>5. MetricsPage(G) = FlattenSeq(seqs)
  BY PageIs
<1>6. /\ seqs \in Seq(Seq(Lines(G))) /\ Len(seqs) = 8
      /\ \A i \in 1 .. 8 : seqs[i] = Family(G, RegisteredMetrics[i])
  <2>1. seqs = [i \in 1 .. 8 |-> Family(G, RegisteredMetrics[i])]
    BY <1>1
  <2> HIDE DEF seqs
  <2> QED
    BY <1>4, <2>1
<1> HIDE DEF seqs
<1>7. \A i \in 1 .. 8 : Shows(seqs[i], OfFamily(G, RegisteredMetrics[i]))
  BY <1>4, <1>6
<1>8. FlattenSeq(seqs) \in Seq(Lines(G)) /\ Shows(FlattenSeq(seqs), OfFirst(G, 8))
  <2> DEFINE S == Lines(G)
  <2>1. seqs \in Seq(Seq(S))
    BY <1>6
  <2>2. Len(seqs) \in Nat \ {0}
    BY <1>6
  <2>3. \A i \in 1 .. Len(seqs) : Shows(seqs[i], OfFamily(G, RegisteredMetrics[i]))
    BY <1>6, <1>7
  <2> HIDE DEF S
  <2>4. FlattenSeq(seqs) \in Seq(S) /\ Shows(FlattenSeq(seqs), OfFirst(G, Len(seqs)))
    BY <2>1, <2>2, <2>3, ShowsAll
  <2> QED
    BY <1>6, <2>4 DEF S
<1>9. OfFirst(G, 8) = G
  <2>1. ASSUME NEW g \in G PROVE \E j \in 1 .. 8 : g.name = RegisteredMetrics[j][1]
    BY <1>1, <1>2
  <2> QED
    BY <2>1 DEF OfFirst
<1>10. MetricsPage(G) \in Seq(Lines(G)) /\ Shows(MetricsPage(G), G)
  BY <1>5, <1>8, <1>9
<1>11. IsPrometheusFormat(MetricsPage(G))
  <2> DEFINE page == MetricsPage(G)
  <2>1. page \in Seq(Lines(G)) /\ Shows(page, G)
    BY <1>10
  <2> HIDE DEF page
  <2>2. PICK g \in G, i \in 1 .. Len(page) : page[i] = SampleLine(g)
    BY <2>1 DEF Shows
  <2>3. SampleLine(g).form = "sample"
    BY LineReadsBack
  <2>4. PICK h \in G : Under(page, i, h)
    BY <2>1, <2>2, <2>3 DEF Shows
  <2>5. PICK k \in 1 .. i - 1 : page[k].form = "type"
    BY <2>4 DEF Under
  <2>6. k \in DOMAIN page
    BY <2>1
  <2> QED
    BY <2>5, <2>6 DEF IsPrometheusFormat, page
<1> QED
  BY <1>10, <1>11

LEMMA PageRead ==
  ASSUME SurfaceInv
  PROVE  PageReadsBack
<1> DEFINE G == Gauges(gauges, diagnostics)
           page == MetricsPage(G)
           N == Len(page)
           sampled == {i \in 1 .. N : page[i].form = "sample"}
           parsed == Kept([i \in DOMAIN page |-> i], {i \in DOMAIN page : SampleParses(page[i])})
           read == ParsePage(page)
<1>1. IsFiniteSet(G) /\ \A g \in G : IsGauge(g)
  BY GaugesAre
<1>2. G # {}
  <2> DEFINE g == Gauge("aether_diagnostics_active", "severity",
                        <<"critical", "warning", "info">>[1], ExportedCounts(diagnostics)[1])
  <2>1. g \in {Gauge("aether_diagnostics_active", "severity",
                     <<"critical", "warning", "info">>[i], ExportedCounts(diagnostics)[i]) : i \in 1 .. 3}
    OBVIOUS
  <2> HIDE DEF g
  <2>2. g \in G
    BY <2>1 DEF Gauges
  <2> QED
    BY <2>2
<1> HIDE DEF G
<1>3. page \in Seq(Lines(G)) /\ Shows(page, G) /\ IsPrometheusFormat(page)
  BY <1>1, <1>2, PageShows
<1> HIDE DEF page
<1>4. N \in Nat /\ DOMAIN page = 1 .. N
  BY <1>3
<1> HIDE DEF N
\* Each sample line is that of a gauge, and each gauge has one.
<1>5. ASSUME NEW i \in sampled PROVE \E g \in G : Under(page, i, g)
  BY <1>3, <1>5 DEF Shows, N
<1>6. ASSUME NEW g \in G PROVE \E i \in sampled : page[i] = SampleLine(g)
  <2>1. PICK i \in 1 .. N : page[i] = SampleLine(g)
    BY <1>3 DEF Shows, N
  <2>2. SampleLine(g).form = "sample"
    BY <1>1, LineReadsBack
  <2> QED
    BY <2>1, <2>2
<1>7. {i \in DOMAIN page : SampleParses(page[i])} = sampled
  <2>1. ASSUME NEW i \in sampled PROVE SampleParses(page[i])
    <3>1. PICK g \in G : page[i] = SampleLine(g)
      BY <1>5, <2>1 DEF Under
    <3> QED
      BY <1>1, <3>1, LineReadsBack
  <2>2. ASSUME NEW i \in DOMAIN page, SampleParses(page[i]) PROVE i \in sampled
    BY <1>4, <2>2 DEF SampleParses
  <2> QED
    BY <1>4, <2>1, <2>2
<1> HIDE DEF sampled
<1>8. parsed \in Seq(Nat) /\ ToSet(parsed) = sampled
  <2> DEFINE s == [i \in DOMAIN page |-> i]
  <2>1. s = [i \in 1 .. N |-> i]
    BY <1>4
  <2>2. s \in Seq(Nat)
    BY <1>4, <2>1
  <2>3. ToSet(s) = 1 .. N
    BY <1>4, <2>1 DEF ToSet
  <2>4. sampled \subseteq 1 .. N
    BY DEF sampled
  <2> HIDE DEF s
  <2>5. Kept(s, sampled) \in Seq(Nat) /\ ToSet(Kept(s, sampled)) = ToSet(s) \cap sampled
    BY <2>2, KeptType
  <2>6. parsed = Kept(s, sampled)
    BY <1>7 DEF s
  <2> QED
    BY <2>3, <2>4, <2>5, <2>6
<1> DEFINE sample(i) == [name |-> page[i].name, labels |-> ParseLabels(page[i].labels),
                         value |-> page[i].value, type |-> MetaOf(page, i, "type", "untyped"),
                         help |-> MetaOf(page, i, "help", "none")]
<1>9. read = [k \in DOMAIN parsed |-> sample(parsed[k])]
  BY DEF ParsePage
<1> HIDE DEF parsed, read
<1>10. DOMAIN read = DOMAIN parsed /\ \A k \in DOMAIN parsed : parsed[k] \in sampled
  BY <1>8, <1>9 DEF ToSet
<1> DEFINE gauge(i) == [name |-> sample(i).name, labels |-> sample(i).labels, value |-> sample(i).value]
<1>11. ASSUME NEW i \in sampled, NEW g \in G, page[i] = SampleLine(g) PROVE gauge(i) = g
  <2>1. /\ SampleLine(g).name = g.name /\ SampleLine(g).value = g.value
        /\ ParseLabels(SampleLine(g).labels) = g.labels
        /\ g = [name |-> g.name, labels |-> g.labels, value |-> g.value]
    BY <1>1, LineReadsBack
  <2>2. sample(i).name = g.name /\ sample(i).value = g.value /\ sample(i).labels = g.labels
    BY <1>11, <2>1
  <2> HIDE DEF sample
  <2> QED
    BY <2>1, <2>2
<1>12. {[name |-> m.name, labels |-> m.labels, value |-> m.value] : m \in ToSet(read)} = G
  <2>1. ToSet(read) = {sample(i) : i \in sampled}
    <3> HIDE DEF sample
    <3> QED
      BY <1>8, <1>9, <1>10 DEF ToSet
  <2>2. {[name |-> m.name, labels |-> m.labels, value |-> m.value] : m \in ToSet(read)} =
        {gauge(i) : i \in sampled}
    <3> HIDE DEF sample
    <3> QED
      BY <2>1
  <2> HIDE DEF gauge
  <2>3. \A i \in sampled : gauge(i) \in G
    BY <1>5, <1>11 DEF Under
  <2>4. \A g \in G : \E i \in sampled : gauge(i) = g
    BY <1>6, <1>11
  <2> QED
    BY <2>2, <2>3, <2>4
<1>13. ASSUME NEW i \in sampled PROVE sample(i).type = "gauge"
  <2>1. PICK g \in G : Under(page, i, g)
    BY <1>5
  <2>2. PICK k \in 1 .. i - 1 :
          /\ page[k].form = "type" /\ page[k].name = g.name /\ page[k].text = "gauge"
          /\ \A j \in k + 1 .. i - 1 : page[j].form # "type"
    BY <2>1 DEF Under
  <2>3. page[i].name = g.name
    BY <1>1, <2>1, LineReadsBack DEF Under
  <2>4. i \in Nat
    BY <1>4 DEF sampled
  <2> DEFINE before == {l \in 1 .. i - 1 : page[l].form = "type"}
  <2>5. k \in before /\ \A l \in before : k >= l
    BY <2>2, <2>4
  <2>6. before # {} /\ \A l \in before : l \in Nat
    BY <2>4, <2>5
  <2>7. sample(i).type = IF before = {} THEN "untyped"
                         ELSE IF page[Max(before)].name \in {page[i].name, page[i].family}
                              THEN page[Max(before)].text ELSE "untyped"
    BY DEF MetaOf
  <2> HIDE DEF before, sample
  <2>8. Max(before) = k
    <3>1. Max(before) \in before /\ \A l \in before : Max(before) >= l
      BY <2>5 DEF Max
    <3> DEFINE latest == Max(before)
    <3>2. latest \in Nat /\ k \in Nat /\ latest >= k /\ k >= latest
      BY <2>5, <2>6, <3>1
    <3> HIDE DEF latest
    <3>3. latest = k
      BY <3>2
    <3> QED
      BY <3>3 DEF latest
  <2> QED
    BY <2>2, <2>3, <2>6, <2>7, <2>8
<1>14. \A k \in DOMAIN read : read[k].type = "gauge"
  <2>1. \A k \in DOMAIN read : read[k] = sample(parsed[k])
    BY <1>9, <1>10
  <2> HIDE DEF sample
  <2> QED
    BY <1>10, <1>13, <2>1
<1> QED
  BY <1>3, <1>12, <1>14 DEF PageReadsBack, G, page, read
-----------------------------------------------------------------------------
(* The invariant is kept.                                                  *)

LEMMA SurfaceInit == SharedInit => SurfaceInv
<1> SUFFICES ASSUME SharedInit PROVE SurfaceInv
  OBVIOUS
<1>1. DOMAIN gauges = {} /\ gauges = << >>
  BY DEF SharedInit
<1>2. IsFiniteSet(DOMAIN gauges)
  BY <1>1, FS_EmptySet
<1>3. gauges \in [DOMAIN gauges -> Process]
  BY <1>1
<1>4. diagnostics \in Seq(Findings)
  BY DEF SharedInit
<1> QED
  BY <1>2, <1>3, <1>4 DEF SharedInit, SurfaceInv

LEMMA SurfaceStep == SurfaceInv /\ [SharedNext]_sharedVars => SurfaceInv'
<1> SUFFICES ASSUME SurfaceInv, [SharedNext]_sharedVars PROVE SurfaceInv'
  OBVIOUS
<1>1. ASSUME NEW w \in Worlds, SnapshotArrives(w) PROVE SurfaceInv'
  BY <1>1 DEF SurfaceInv, SnapshotArrives
<1>2. CASE SnapshotApplied
  BY <1>2 DEF SurfaceInv, SnapshotApplied
<1>3. ASSUME NEW p \in Pages, PageReads(p) \/ PageReadsDiagnostics(p) \/ PageRecords(p)
      PROVE  SurfaceInv'
  BY <1>3 DEF SurfaceInv, PageReads, PageReadsDiagnostics, PageRecords
<1>4. CASE ExporterUpdates
  <2> DEFINE D == DOMAIN world.procs
             E == DOMAIN gauges
  <2>1. gauges' = [p \in D \cup E |-> IF p \in D THEN world.procs[p] ELSE gauges[p]]
    BY <1>4 DEF ExporterUpdates
  <2>2. /\ IsFiniteSet(D) /\ IsFiniteSet(E)
        /\ \A p \in D : world.procs[p] \in Process
        /\ \A p \in E : gauges[p] \in Process
    BY WorldIs DEF SurfaceInv
  <2>3. DOMAIN gauges' = D \cup E
    BY <2>1
  <2> HIDE DEF D, E
  <2>4. IsFiniteSet(D \cup E)
    BY <2>2, FS_Union
  <2>5. gauges' \in [D \cup E -> Process]
    BY <2>1, <2>2
  <2> QED
    BY <1>4, <2>3, <2>4, <2>5 DEF SurfaceInv, ExporterUpdates
<1>5. ASSUME NEW id \in Ids, ExecuteLooksUp(id) PROVE SurfaceInv'
  BY <1>5 DEF SurfaceInv, ExecuteLooksUp
<1>6. ASSUME NEW id \in Ids, Dismissed(id) PROVE SurfaceInv'
  <2> DEFINE wanted == {d \in ToSet(diagnostics) : d.id # id}
  <2>1. diagnostics' = Kept(diagnostics, wanted)
    BY <1>6 DEF Dismissed
  <2>2. diagnostics \in Seq(Findings)
    BY DEF SurfaceInv
  <2> HIDE DEF wanted
  <2>3. diagnostics' \in Seq(Findings)
    BY <2>1, <2>2, KeptType
  <2> QED
    BY <1>6, <2>3 DEF SurfaceInv, Dismissed
<1>7. CASE Submits
  BY <1>7 DEF SurfaceInv, Submits
<1>8. ASSUME NEW d \in Findings, Collected(d) PROVE SurfaceInv'
  <2>1. diagnostics \in Seq(Findings)
    BY DEF SurfaceInv
  <2>2. diagnostics' = IF PositionsOf(d.id) = {} THEN Append(diagnostics, d)
                       ELSE [i \in DOMAIN diagnostics |->
                               IF i \in PositionsOf(d.id) THEN d ELSE diagnostics[i]]
    BY <1>8 DEF Collected
  <2>3. CASE PositionsOf(d.id) = {}
    <3>1. diagnostics' = Append(diagnostics, d)
      BY <2>2, <2>3
    <3>2. diagnostics' \in Seq(Findings)
      BY <2>1, <3>1
    <3> QED
      BY <1>8, <3>2 DEF SurfaceInv, Collected
  <2>4. CASE PositionsOf(d.id) # {}
    <3> DEFINE new == [i \in DOMAIN diagnostics |-> IF i \in PositionsOf(d.id) THEN d ELSE diagnostics[i]]
               N == Len(diagnostics)
    <3>1. diagnostics' = new
      BY <2>2, <2>4
    <3>2. N \in Nat /\ DOMAIN diagnostics = 1 .. N /\ \A i \in 1 .. N : diagnostics[i] \in Findings
      BY <2>1
    <3> HIDE DEF N
    <3>3. new \in [1 .. N -> Findings]
      BY <3>2
    <3> HIDE DEF new
    <3>4. new \in Seq(Findings)
      BY <3>2, <3>3
    <3> QED
      BY <1>8, <3>1, <3>4 DEF SurfaceInv, Collected
  <2> QED
    BY <2>3, <2>4
<1>9. CASE Tick
  BY <1>9 DEF SurfaceInv, Tick
<1>10. CASE UNCHANGED sharedVars
  BY <1>10 DEF SurfaceInv, sharedVars
<1> QED
  BY <1>1, <1>2, <1>3, <1>4, <1>5, <1>6, <1>7, <1>8, <1>9, <1>10 DEF SharedNext

\* Whatever the tasks do, and for any snapshots and findings, the surfaces' answers about
\* one state are one: the lists, the counts, the exporter's page read back, what is said
\* of the graph, the order of the anomalies and the actions that are offered (api.rs,
\* tools.rs, server.rs of aether-mcp and aether-api, exporter/server.rs, scrape/parser.rs).
THEOREM SurfacesAlwaysAgree == SharedSpec => []SurfacesAgree
<1>1. SurfaceInv => SurfacesAgree
  BY Lists, PageRead, Counts, GraphViews, Criticals, Actions, Refusals DEF SurfacesAgree
<1> QED
  BY <1>1, SurfaceInit, SurfaceStep, PTL DEF SharedSpec
=============================================================================
