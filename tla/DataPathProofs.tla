--------------------------- MODULE DataPathProofs ---------------------------
(***************************************************************************)
(* Theorems about the path of the data.  Ingestion: on its way to the      *)
(* graph no snapshot is lost, repeated or overtaken, and no rule action is *)
(* lost, for channels of any size.  AnalysisTick: what the engine makes of *)
(* the graph and of remote batches, for any processes, files and times:    *)
(* the groups of its diagnostics account for them, the rule for a drop of  *)
(* the throughput fires only for a counter that was reset, and every slope *)
(* is that of the least squares line.                                      *)
(***************************************************************************)
EXTENDS Ingestion, AnalysisTick, NaturalsInduction, WellFoundedInduction,
        FiniteSetTheorems, SequenceTheorems, TLAPS

\* A task's hand holds one event at most.
Hand == {h \in Seq(Nat) : Len(h) <= 1}

TypeOK ==
  /\ cancelled \in BOOLEAN /\ bridgeActive \in BOOLEAN
  /\ running \subseteq Tasks
  /\ sending \in Hand /\ bridging \in {<<>>, <<Other>>}
  /\ applying \in Hand /\ (applying # <<>> => Head(applying) # Other)
  /\ events \in Seq(Nat) /\ engineQueue \in Seq(Nat)
  /\ taken \in Nat /\ world \in Nat /\ evaluated \in Nat
  /\ todo \in Nat /\ actions \in Nat /\ triggered \in Nat /\ submitted \in Nat

\* Consecutive says nothing of an end before the beginning.
InOrder == Runs("updater") /\ Runs("pipeline") =>
             world <= taken /\ Consecutive(Transit, world, taken)

IInv == TypeOK /\ InOrder /\ NoRuleActionLost
-----------------------------------------------------------------------------
(* What a step does to the events in transit.                              *)

\* Concatenation is associative and the empty sequence its unit.
LEMMA Regrouped == \A s, t, u \in Seq(Nat) : (s \o t) \o u = s \o (t \o u)
  BY SMTT(30)

LEMMA Joined == \A s, t \in Seq(Nat) : s \o t \in Seq(Nat) /\ <<>> \o s = s
  OBVIOUS

\* A hand that is not empty holds one event.
LEMMA FullHand ==
  ASSUME NEW h \in Hand, h # <<>>
  PROVE  Head(h) \in Nat /\ h = <<Head(h)>>
<1>0. h \in Seq(Nat) /\ Len(h) <= 1
  BY DEF Hand
<1>1. Len(h) = 1
  <2>1. Len(h) \in Nat /\ Len(h) # 0
    BY <1>0, EmptySeq
  <2>2. \A n \in Nat : n # 0 /\ n <= 1 => n = 1
    OBVIOUS
  <2> QED BY <1>0, <2>1, <2>2, Zenon
<1>2. Head(h) = h[1] /\ h[1] \in Nat
  BY <1>0, <1>1
<1>3. Len(<<h[1]>>) = Len(h) /\ <<h[1]>>[1] = h[1] /\ <<h[1]>> \in Seq(Nat)
  BY <1>1, <1>2
<1> QED BY <1>0, <1>1, <1>2, <1>3, SeqEqual

\* A snapshot that is taken comes last.
LEMMA NextNumber ==
  ASSUME NEW s \in Seq(Nat), NEW low \in Nat, NEW high \in Nat, low <= high,
         Consecutive(s, low, high)
  PROVE  Consecutive(s \o <<high + 1>>, low, high + 1)
<1> DEFINE t == s \o <<high + 1>>
<1>1. /\ Len(s) \in Nat /\ DOMAIN s = 1 .. Len(s) /\ DOMAIN t = 1 .. Len(s) + 1
      /\ \A i \in 1 .. Len(s) : t[i] = s[i]
      /\ t[Len(s) + 1] = high + 1
  OBVIOUS
<1> HIDE DEF t
<1>2. /\ \A i \in DOMAIN s : s[i] # Other => s[i] \in low + 1 .. high
      /\ \A n \in low + 1 .. high : \E i \in DOMAIN s : s[i] = n
      /\ \A i, j \in DOMAIN s : i < j /\ s[i] # Other /\ s[j] # Other => s[i] < s[j]
  BY DEF Consecutive
<1>3. ASSUME NEW i \in DOMAIN t, t[i] # Other PROVE t[i] \in low + 1 .. high + 1
  <2>1. CASE i \in DOMAIN s
    <3>1. t[i] \in low + 1 .. high
      BY <1>1, <1>2, <1>3, <2>1
    <3> QED BY <3>1
  <2>2. CASE i = Len(s) + 1
    BY <1>1, <2>2
  <2> QED BY <1>1, <2>1, <2>2
<1>4. \A n \in low + 1 .. high + 1 : \E i \in DOMAIN t : t[i] = n
  <2>1. \A n \in low + 1 .. high + 1 : n = high + 1 \/ n \in low + 1 .. high
    OBVIOUS
  <2>2. Len(s) + 1 \in DOMAIN t /\ 1 .. Len(s) \subseteq DOMAIN t
    BY <1>1, <1>2
  <2> QED BY <1>1, <1>2, <2>1, <2>2
<1>5. ASSUME NEW i \in DOMAIN t, NEW j \in DOMAIN t, i < j, t[i] # Other, t[j] # Other
      PROVE  t[i] < t[j]
  <2>1. i \in 1 .. Len(s) /\ (j \in 1 .. Len(s) \/ j = Len(s) + 1)
    BY <1>1, <1>2, <1>5
  <2> QED BY <1>1, <1>2, <1>5, <2>1, SMTT(30)
<1> QED BY <1>3, <1>4, <1>5 DEF Consecutive, t

\* An event that the updater ignores may come in anywhere.
LEMMA InsertOther ==
  ASSUME NEW a \in Seq(Nat), NEW b \in Seq(Nat), NEW low \in Nat, NEW high \in Nat,
         Consecutive(a \o b, low, high)
  PROVE  Consecutive((a \o <<Other>>) \o b, low, high)
<1> DEFINE s == a \o b
           t == (a \o <<Other>>) \o b
           k == Len(a)
<1>1. /\ k \in Nat /\ Len(b) \in Nat
      /\ DOMAIN s = 1 .. k + Len(b) /\ DOMAIN t = 1 .. k + Len(b) + 1
      /\ \A i \in 1 .. k : t[i] = s[i]
      /\ t[k + 1] = Other
      /\ \A i \in k + 1 .. k + Len(b) : t[i + 1] = s[i]
      /\ \A i \in DOMAIN s : s[i] \in Nat
  <2> DEFINE c == a \o <<Other>>
  <2>1. /\ k \in Nat /\ Len(b) \in Nat /\ <<Other>> \in Seq(Nat)
        /\ Len(<<Other>>) = 1 /\ <<Other>>[1] = Other
    BY DEF Other
  <2>2. /\ s \in Seq(Nat) /\ Len(s) = k + Len(b)
        /\ \A i \in 1 .. k + Len(b) : s[i] = IF i <= k THEN a[i] ELSE b[i - k]
    BY ConcatProperties
  <2>3. /\ c \in Seq(Nat) /\ Len(c) = k + 1
        /\ \A i \in 1 .. k + 1 : c[i] = IF i <= k THEN a[i] ELSE <<Other>>[i - k]
    BY <2>1, ConcatProperties
  <2> HIDE DEF c, s
  <2>4. /\ c \o b \in Seq(Nat) /\ Len(c \o b) = Len(c) + Len(b)
        /\ \A i \in 1 .. Len(c) + Len(b) :
              (c \o b)[i] = IF i <= Len(c) THEN c[i] ELSE b[i - Len(c)]
    <3> HIDE DEF t, k
    <3>1. c \in Seq(Nat) /\ b \in Seq(Nat)
      BY <2>3
    <3> QED BY ONLY <3>1, ConcatProperties
  <2>5. /\ t \in Seq(Nat) /\ Len(t) = k + Len(b) + 1
        /\ \A i \in 1 .. k + Len(b) + 1 :
              t[i] = IF i <= k + 1 THEN c[i] ELSE b[i - (k + 1)]
    BY <2>1, <2>3, <2>4 DEF c
  <2> HIDE DEF t, k
  <2>6. DOMAIN s = 1 .. k + Len(b) /\ DOMAIN t = 1 .. k + Len(b) + 1
    BY <2>2, <2>5, LenProperties
  <2>7. ASSUME NEW i \in 1 .. k PROVE t[i] = s[i]
    <3>1. i \in 1 .. k + Len(b) + 1 /\ i \in 1 .. k + 1 /\ i \in 1 .. k + Len(b)
      BY <2>1
    <3>2. i <= k + 1 /\ i <= k
      BY <2>1
    <3>3. t[i] = c[i] /\ c[i] = a[i] /\ s[i] = a[i]
      BY <2>2, <2>3, <2>5, <3>1, <3>2, Zenon
    <3> QED BY <3>3
  <2>8. t[k + 1] = Other
    <3>1. k + 1 \in 1 .. k + Len(b) + 1 /\ k + 1 \in 1 .. k + 1 /\ k + 1 <= k + 1
          /\ ~(k + 1 <= k) /\ (k + 1) - k = 1
      BY <2>1
    <3>2. t[k + 1] = c[k + 1] /\ c[k + 1] = <<Other>>[(k + 1) - k]
      BY <2>3, <2>5, <3>1, Zenon
    <3> QED BY <2>1, <3>1, <3>2, Zenon
  <2>9. ASSUME NEW i \in k + 1 .. k + Len(b) PROVE t[i + 1] = s[i]
    <3>1. i + 1 \in 1 .. k + Len(b) + 1 /\ i \in 1 .. k + Len(b)
          /\ ~(i + 1 <= k + 1) /\ ~(i <= k) /\ (i + 1) - (k + 1) = i - k
      BY <2>1
    <3>2. t[i + 1] = b[(i + 1) - (k + 1)] /\ s[i] = b[i - k]
      BY <2>2, <2>5, <3>1, Zenon
    <3> QED BY <3>1, <3>2, Zenon
  <2>10. \A i \in DOMAIN s : s[i] \in Nat
    BY <2>2, <2>6, ElementOfSeq
  <2> QED BY <2>1, <2>6, <2>7, <2>8, <2>9, <2>10
<1> HIDE DEF s, t, k
<1>2. /\ \A i \in DOMAIN s : s[i] # Other => s[i] \in low + 1 .. high
      /\ \A n \in low + 1 .. high : \E i \in DOMAIN s : s[i] = n
      /\ \A i, j \in DOMAIN s : i < j /\ s[i] # Other /\ s[j] # Other => s[i] < s[j]
  BY DEF Consecutive, s
<1>3. \A i \in DOMAIN t : t[i] # Other =>
        \E o \in DOMAIN s : t[i] = s[o] /\ o = (IF i <= k THEN i ELSE i - 1)
  <2> SUFFICES ASSUME NEW i \in DOMAIN t, t[i] # Other
               PROVE  \E o \in DOMAIN s : t[i] = s[o] /\ o = (IF i <= k THEN i ELSE i - 1)
    OBVIOUS
  <2>1. CASE i <= k
    BY <1>1, <2>1
  <2>2. CASE i > k + 1
    <3>1. i - 1 \in k + 1 .. k + Len(b) /\ i - 1 + 1 = i
      BY <1>1, <2>2
    <3> QED BY <1>1, <2>2, <3>1, SMTT(30)
  <2> QED BY <1>1, <2>1, <2>2
<1>4. \A i \in DOMAIN t : t[i] # Other => t[i] \in low + 1 .. high
  BY <1>2, <1>3
<1>5. \A n \in low + 1 .. high : \E i \in DOMAIN t : t[i] = n
  <2> SUFFICES ASSUME NEW n \in low + 1 .. high PROVE \E i \in DOMAIN t : t[i] = n
    OBVIOUS
  <2>1. PICK i \in DOMAIN s : s[i] = n
    BY <1>2
  <2>2. CASE i <= k
    BY <1>1, <2>1, <2>2
  <2>3. CASE i > k
    <3>1. i \in k + 1 .. k + Len(b) /\ i + 1 \in DOMAIN t
      BY <1>1, <2>3
    <3> QED BY <1>1, <2>1, <3>1
  <2> QED BY <1>1, <2>2, <2>3
<1>6. \A i, j \in DOMAIN t : i < j /\ t[i] # Other /\ t[j] # Other => t[i] < t[j]
  <2> SUFFICES ASSUME NEW i \in DOMAIN t, NEW j \in DOMAIN t, i < j,
                      t[i] # Other, t[j] # Other
               PROVE  t[i] < t[j]
    OBVIOUS
  <2>1. PICK o \in DOMAIN s : t[i] = s[o] /\ o = (IF i <= k THEN i ELSE i - 1)
    BY <1>3
  <2>2. PICK q \in DOMAIN s : t[j] = s[q] /\ q = (IF j <= k THEN j ELSE j - 1)
    BY <1>3
  <2>3. i # k + 1 /\ j # k + 1
    BY <1>1
  <2>4. o < q
    BY <1>1, <2>1, <2>2, <2>3, SMTT(30)
  <2> QED BY <1>2, <2>1, <2>2, <2>4
<1> QED BY <1>4, <1>5, <1>6 DEF Consecutive, t

\* An event that the updater ignores may be taken out.
LEMMA DropOther ==
  ASSUME NEW s \in Seq(Nat), s # <<>>, Head(s) = Other, NEW low \in Nat, NEW high \in Nat,
         Consecutive(s, low, high)
  PROVE  Consecutive(Tail(s), low, high)
<1> DEFINE t == Tail(s)
<1>1. /\ Len(s) \in Nat \ {0} /\ DOMAIN s = 1 .. Len(s) /\ DOMAIN t = 1 .. Len(s) - 1
      /\ \A i \in 1 .. Len(s) - 1 : t[i] = s[i + 1]
      /\ s[1] = Other
  OBVIOUS
<1> HIDE DEF t
<1>2. \A i \in DOMAIN t : i + 1 \in DOMAIN s /\ t[i] = s[i + 1]
  BY <1>1, SMTT(30)
<1>3. ASSUME NEW n \in low + 1 .. high PROVE \E i \in DOMAIN t : t[i] = n
  <2>1. PICK j \in DOMAIN s : s[j] = n
    BY DEF Consecutive
  <2>2. j - 1 \in DOMAIN t /\ j - 1 + 1 = j
    BY <1>1, <2>1, SMTT(30) DEF Other
  <2> QED BY <1>2, <2>1, <2>2
<1>4. ASSUME NEW i \in DOMAIN t, NEW j \in DOMAIN t, i < j, t[i] # Other, t[j] # Other
      PROVE  t[i] < t[j]
  <2>1. i + 1 < j + 1
    BY <1>1, <1>4
  <2> QED BY <1>2, <1>4, <2>1 DEF Consecutive
<1>5. \A i \in DOMAIN t : t[i] # Other => t[i] \in low + 1 .. high
  BY <1>2 DEF Consecutive
<1> QED BY <1>3, <1>4, <1>5 DEF Consecutive, t

\* The oldest snapshot in transit is the next one that the graph misses.
LEMMA TakeFirst ==
  ASSUME NEW n \in Nat \ {Other}, NEW s \in Seq(Nat), NEW low \in Nat, NEW high \in Nat,
         Consecutive(<<n>> \o s, low, high)
  PROVE  n = low + 1 /\ n <= high /\ Consecutive(s, n, high)
<1> DEFINE t == <<n>> \o s
<1>1. /\ Len(s) \in Nat /\ DOMAIN s = 1 .. Len(s) /\ DOMAIN t = 1 .. Len(s) + 1
      /\ t[1] = n
      /\ \A i \in 1 .. Len(s) : t[i + 1] = s[i] /\ s[i] \in Nat
  OBVIOUS
<1> HIDE DEF t
<1>2. /\ \A i \in DOMAIN t : t[i] # Other => t[i] \in low + 1 .. high
      /\ \A m \in low + 1 .. high : \E i \in DOMAIN t : t[i] = m
      /\ \A i, j \in DOMAIN t : i < j /\ t[i] # Other /\ t[j] # Other => t[i] < t[j]
  BY DEF Consecutive, t
<1>3. \A i \in DOMAIN s : i + 1 \in DOMAIN t /\ s[i] = t[i + 1] /\ s[i] \in Nat /\ 1 < i + 1
  BY <1>1
<1>4. \A i \in DOMAIN s : s[i] # Other => s[i] > n
  <2>1. 1 \in DOMAIN t /\ t[1] # Other
    BY <1>1
  <2> QED BY <1>1, <1>2, <1>3, <2>1
<1>5. n \in low + 1 .. high
  <2>1. 1 \in DOMAIN t /\ t[1] # Other /\ t[1] = n
    BY <1>1
  <2> QED BY <1>2, <2>1
<1>6. \A m \in low + 1 .. high : m = n \/ \E i \in DOMAIN s : s[i] = m
  <2> SUFFICES ASSUME NEW m \in low + 1 .. high, m # n PROVE \E i \in DOMAIN s : s[i] = m
    OBVIOUS
  <2>1. PICK j \in DOMAIN t : t[j] = m
    BY <1>2
  <2>2. j - 1 \in DOMAIN s /\ j - 1 + 1 = j
    BY <1>1, <2>1
  <2> QED BY <1>1, <2>1, <2>2
<1>7. n = low + 1
  <2>1. low + 1 \in low + 1 .. high
    BY <1>5
  <2>2. ASSUME n # low + 1 PROVE FALSE
    <3>1. PICK i \in DOMAIN s : s[i] = low + 1
      BY <1>6, <2>1, <2>2
    <3>2. low + 1 > n
      BY <1>4, <3>1 DEF Other
    <3> QED BY <1>5, <3>2
  <2> QED BY <2>2
<1>8. \A i \in DOMAIN s : s[i] # Other => s[i] \in n + 1 .. high
  BY <1>2, <1>3, <1>4, <1>5
<1>9. \A m \in n + 1 .. high : \E i \in DOMAIN s : s[i] = m
  <2>1. \A m \in n + 1 .. high : m \in low + 1 .. high /\ m # n
    BY <1>5
  <2> QED BY <1>6, <2>1
<1>10. ASSUME NEW i \in DOMAIN s, NEW j \in DOMAIN s, i < j, s[i] # Other, s[j] # Other
       PROVE  s[i] < s[j]
  <2>1. i + 1 < j + 1
    BY <1>1, <1>10
  <2> QED BY <1>2, <1>3, <1>10, <2>1
<1> QED BY <1>5, <1>7, <1>8, <1>9, <1>10, SMTT(30) DEF Consecutive
-----------------------------------------------------------------------------
(* The steps.                                                              *)

LEMMA InitIInv == Init => IInv
<1> SUFFICES ASSUME Init PROVE IInv
  OBVIOUS
<1>1. TypeOK
  <2>1. bridgeActive = ("bridge" \in running) /\ cancelled = FALSE
    BY DEF Init, Runs
  <2>2. bridgeActive \in BOOLEAN
    <3>1. CASE "bridge" \in running
      BY <2>1, <3>1
    <3>2. CASE "bridge" \notin running
      BY <2>1, <3>2
    <3> QED BY <3>1, <3>2
  <2>3. cancelled \in BOOLEAN
    BY <2>1
  <2>4. running \subseteq Tasks
    BY DEF Init
  <2>5. <<>> \in Hand /\ <<>> \in Seq(Nat)
    BY DEF Hand
  <2> QED BY <2>2, <2>3, <2>4, <2>5 DEF Init, TypeOK
<1>2. InOrder
  <2>1. Transit = <<>> /\ world = 0 /\ taken = 0
    BY DEF Init, Transit
  <2> QED BY <2>1 DEF InOrder, Consecutive
<1>3. NoRuleActionLost
  BY DEF Init, NoRuleActionLost
<1> QED BY <1>1, <1>2, <1>3 DEF IInv

\* The types of the variables.
LEMMA NextTypeOK == TypeOK /\ [Next]_vars => TypeOK'
<1> SUFFICES ASSUME TypeOK, [Next]_vars PROVE TypeOK'
  OBVIOUS
<1> USE IngestionAssumption DEF TypeOK, Hand, Runs, Leave, Tasks, Other, feed, script
<1>1. CASE FastTick BY <1>1 DEF FastTick
<1>2. CASE SlowTick BY <1>2 DEF SlowTick
<1>3. CASE PipelineSends
  <2>1. events \o sending \in Seq(Nat) /\ <<>> \in Hand
    OBVIOUS
  <2>2. events' \in Seq(Nat) /\ sending' = <<>> /\ running' \subseteq running
    BY <1>3, <2>1 DEF PipelineSends
  <2> QED BY <1>3, <2>1, <2>2 DEF PipelineSends
<1>4. CASE PipelineSeesBridgeEnd BY <1>4 DEF PipelineSeesBridgeEnd
<1>5. CASE PipelineStops BY <1>5 DEF PipelineStops
<1>6. CASE KernelEvent BY <1>6 DEF KernelEvent
<1>7. CASE BridgeSends
  <2>1. events \o bridging \in Seq(Nat)
    <3>1. CASE bridging = <<>>
      BY <3>1
    <3>2. CASE bridging = <<Other>>
      BY <3>2
    <3> QED BY <3>1, <3>2
  <2>2. events' \in Seq(Nat) /\ bridging' = <<>> /\ running' \subseteq running
    BY <1>7, <2>1 DEF BridgeSends
  <2> QED BY <1>7, <2>2 DEF BridgeSends
<1>8. CASE BridgeStops BY <1>8 DEF BridgeStops
<1>9. CASE UpdaterIgnores BY <1>9 DEF UpdaterIgnores
<1>10. CASE UpdaterForwards BY <1>10 DEF UpdaterForwards
<1>11. CASE UpdaterApplies BY <1>11 DEF UpdaterApplies
<1>12. CASE UpdaterStops BY <1>12 DEF UpdaterStops
<1>13. CASE EngineEvaluates
  <2>1. Head(engineQueue) \in Nat /\ Tail(engineQueue) \in Seq(Nat)
    BY <1>13 DEF EngineEvaluates
  <2>2. todo' \in Nat /\ triggered' \in Nat
    <3>1. todo' \in 0 .. MaxActions /\ triggered' = triggered + todo'
      BY <1>13 DEF EngineEvaluates
    <3>2. \A n \in 0 .. MaxActions : n \in Nat /\ triggered + n \in Nat
      OBVIOUS
    <3> QED BY <3>1, <3>2
  <2> QED BY <1>13, <2>1, <2>2 DEF EngineEvaluates
<1>14. CASE EngineSends BY <1>14 DEF EngineSends
<1>15. CASE EngineStops BY <1>15 DEF EngineStops
<1>16. CASE ForwarderSubmits BY <1>16 DEF ForwarderSubmits
<1>17. CASE ForwarderStops BY <1>17 DEF ForwarderStops
<1>18. CASE Cancel BY <1>18 DEF Cancel
<1>19. CASE UNCHANGED vars BY <1>19 DEF vars
<1> QED
  BY <1>1, <1>2, <1>3, <1>4, <1>5, <1>6, <1>7, <1>8, <1>9, <1>10, <1>11, <1>12,
     <1>13, <1>14, <1>15, <1>16, <1>17, <1>18, <1>19 DEF Next

\* What is triggered is counted by the engine, what is sent leaves its hand
\* for the channel, and only a forwarder that has gone is not waited for.
LEMMA NextActions == TypeOK /\ NoRuleActionLost /\ [Next]_vars => NoRuleActionLost'
<1> SUFFICES ASSUME TypeOK, NoRuleActionLost, [Next]_vars PROVE NoRuleActionLost'
  OBVIOUS
<1> USE IngestionAssumption DEF TypeOK, NoRuleActionLost, Runs, Leave
<1>1. CASE EngineEvaluates BY <1>1 DEF EngineEvaluates
<1>2. CASE EngineSends BY <1>2 DEF EngineSends
<1>3. CASE ForwarderSubmits BY <1>3 DEF ForwarderSubmits
<1>4. CASE ForwarderStops BY <1>4 DEF ForwarderStops
<1>5. ASSUME UNCHANGED script, running' \subseteq running PROVE NoRuleActionLost'
  BY <1>5 DEF script
<1>6. CASE UNCHANGED vars BY <1>5, <1>6 DEF vars
<1>7. CASE \/ FastTick \/ SlowTick \/ PipelineSends \/ PipelineSeesBridgeEnd \/ PipelineStops
           \/ KernelEvent \/ BridgeSends \/ BridgeStops
  BY <1>5, <1>7 DEF FastTick, SlowTick, PipelineSends, PipelineSeesBridgeEnd, PipelineStops,
                    KernelEvent, BridgeSends, BridgeStops
<1>8. CASE \/ UpdaterIgnores \/ UpdaterForwards \/ UpdaterApplies \/ UpdaterStops
           \/ EngineStops \/ Cancel
  BY <1>5, <1>8 DEF UpdaterIgnores, UpdaterForwards, UpdaterApplies, UpdaterStops,
                    EngineStops, Cancel
<1> QED BY <1>1, <1>2, <1>3, <1>4, <1>6, <1>7, <1>8 DEF Next

\* The order of the snapshots in transit.
LEMMA NextInOrder == TypeOK /\ InOrder /\ [Next]_vars => InOrder'
<1> SUFFICES ASSUME TypeOK, InOrder, [Next]_vars, Runs("updater")', Runs("pipeline")'
             PROVE  (world <= taken /\ Consecutive(Transit, world, taken))'
  BY DEF InOrder
<1>0. /\ sending \in Seq(Nat) /\ applying \in Seq(Nat) /\ events \in Seq(Nat)
      /\ Len(sending) <= 1 /\ Len(applying) <= 1
      /\ bridging \in {<<>>, <<Other>>} /\ taken \in Nat /\ world \in Nat
      /\ (applying # <<>> => Head(applying) # Other)
  BY DEF TypeOK, Hand
<1>a. ASSUME Runs("updater"), Runs("pipeline")
      PROVE  world <= taken /\ Consecutive(applying \o events \o sending, world, taken)
  BY <1>a DEF InOrder, Transit
<1>b. ASSUME running' \subseteq running, UNCHANGED <<taken, sending, events, applying, world>>
      PROVE  (world <= taken /\ Consecutive(Transit, world, taken))'
  BY <1>a, <1>b DEF Runs, Transit, Consecutive
<1>1. CASE FastTick
  <2>1. /\ Runs("updater") /\ Runs("pipeline")
        /\ sending = <<>> /\ sending' = <<taken + 1>> /\ taken' = taken + 1
        /\ UNCHANGED <<events, applying, world>>
    BY <1>1 DEF FastTick, Runs
  <2>2. applying \o events \in Seq(Nat) /\ (applying \o events) \o <<>> = applying \o events
    BY <1>0
  <2>3. Consecutive((applying \o events) \o <<taken + 1>>, world, taken + 1)
    BY <1>0, <1>a, <2>1, <2>2, NextNumber
  <2> QED BY <1>0, <1>a, <2>1, <2>3 DEF Transit
<1>2. CASE SlowTick
  <2>1. /\ Runs("updater") /\ Runs("pipeline")
        /\ sending = <<>> /\ sending' = <<Other>>
        /\ UNCHANGED <<events, applying, world, taken>>
    BY <1>2 DEF SlowTick, Runs
  <2>2. /\ applying \o events \in Seq(Nat) /\ <<>> \in Seq(Nat)
        /\ ((applying \o events) \o <<Other>>) \o <<>> = (applying \o events) \o <<Other>>
    BY <1>0 DEF Other
  <2>3. Consecutive(((applying \o events) \o <<Other>>) \o <<>>, world, taken)
    BY <1>0, <1>a, <2>1, <2>2, InsertOther
  <2> QED BY <1>0, <1>a, <2>1, <2>2, <2>3 DEF Transit
<1>3. CASE PipelineSends
  <2>1. /\ Runs("updater") /\ Runs("pipeline")
        /\ sending' = <<>> /\ events' = events \o sending
        /\ UNCHANGED <<applying, world, taken>>
    BY <1>3 DEF PipelineSends, Runs, Leave
  <2>2. applying \o (events \o sending) \o <<>> = applying \o events \o sending
    BY <1>0, SMTT(30)
  <2> QED BY <1>a, <2>1, <2>2 DEF Transit
<1>4. CASE BridgeSends
  <2>1. /\ Runs("updater") /\ Runs("pipeline")
        /\ events' = events \o <<Other>>
        /\ UNCHANGED <<applying, sending, world, taken>>
    BY <1>0, <1>4 DEF BridgeSends, Runs, Leave
  <2>2. /\ applying \o events \in Seq(Nat)
        /\ applying \o (events \o <<Other>>) = (applying \o events) \o <<Other>>
    BY <1>0, SMTT(30) DEF Other
  <2>3. Consecutive(((applying \o events) \o <<Other>>) \o sending, world, taken)
    BY <1>0, <1>a, <2>1, <2>2, InsertOther
  <2> QED BY <1>a, <2>1, <2>2, <2>3 DEF Transit
<1>5. CASE UpdaterIgnores
  <2>1. /\ Runs("updater") /\ Runs("pipeline")
        /\ applying = <<>> /\ events # <<>> /\ Head(events) = Other /\ events' = Tail(events)
        /\ UNCHANGED <<applying, sending, world, taken>>
    BY <1>5 DEF UpdaterIgnores, Runs, feed
  <2> DEFINE s == <<>> \o events \o sending
  <2>2. /\ s \in Seq(Nat) /\ s # <<>> /\ Head(s) = Other
        /\ <<>> \o Tail(events) \o sending = Tail(s)
    BY <1>0, <2>1, SMTT(30)
  <2> HIDE DEF s
  <2>3. Consecutive(s, world, taken)
    BY <1>a, <2>1 DEF s
  <2>4. Consecutive(Tail(s), world, taken)
    BY <1>0, <2>2, <2>3, DropOther
  <2> QED BY <1>a, <2>1, <2>2, <2>4 DEF Transit
<1>6. CASE UpdaterForwards
  <2>1. /\ Runs("updater") /\ Runs("pipeline")
        /\ applying = <<>> /\ events # <<>>
        /\ applying' = <<Head(events)>> /\ events' = Tail(events)
        /\ UNCHANGED <<sending, world, taken>>
    BY <1>6 DEF UpdaterForwards, Runs, feed
  <2>2. <<Head(events)>> \o Tail(events) \o sending = <<>> \o events \o sending
    <3>1. <<Head(events)>> \o Tail(events) = events
      BY <1>0, <2>1
    <3>2. <<>> \o events = events
      BY <1>0, Joined
    <3> QED BY <3>1, <3>2
  <2> QED BY <1>a, <2>1, <2>2 DEF Transit
<1>7. CASE UpdaterApplies
  <2>1. /\ Runs("updater") /\ Runs("pipeline")
        /\ applying # <<>> /\ world' = Head(applying) /\ applying' = <<>>
        /\ UNCHANGED <<events, sending, taken>>
    BY <1>7 DEF UpdaterApplies, Runs, feed
  <2>2. Head(applying) \in Nat \ {Other} /\ applying = <<Head(applying)>>
    BY <1>0, <2>1, FullHand DEF Hand
  <2>3. /\ events \o sending \in Seq(Nat)
        /\ applying \o events \o sending = <<Head(applying)>> \o (events \o sending)
        /\ <<>> \o events \o sending = events \o sending
    <3>1. events \o sending \in Seq(Nat) /\ <<>> \o events = events
      BY <1>0, Joined
    <3>a. applying \in Seq(Nat) /\ events \in Seq(Nat) /\ sending \in Seq(Nat)
      BY <1>0
    <3>2. (applying \o events) \o sending = applying \o (events \o sending)
      BY <3>a, Regrouped, Zenon
    <3>3. (<<>> \o events) \o sending = events \o sending
      BY <3>1
    <3> QED BY <2>2, <3>1, <3>2, <3>3
  <2>4. /\ world' <= taken
        /\ Consecutive(events \o sending, world', taken)
    BY <1>0, <1>a, <2>1, <2>2, <2>3, TakeFirst
  <2> QED BY <2>1, <2>3, <2>4 DEF Transit
<1>8. CASE \/ PipelineSeesBridgeEnd \/ PipelineStops \/ KernelEvent \/ BridgeStops
           \/ UpdaterStops
  BY <1>b, <1>8 DEF PipelineSeesBridgeEnd, PipelineStops, KernelEvent, BridgeStops,
                    UpdaterStops, Runs, Leave, feed
<1>9. CASE \/ EngineEvaluates \/ EngineSends \/ EngineStops
           \/ ForwarderSubmits \/ ForwarderStops \/ Cancel
  BY <1>b, <1>9 DEF EngineEvaluates, EngineSends, EngineStops, ForwarderSubmits,
                    ForwarderStops, Cancel, Leave, feed
<1>10. CASE UNCHANGED vars
  BY <1>b, <1>10 DEF vars, feed
<1> QED BY <1>1, <1>2, <1>3, <1>4, <1>5, <1>6, <1>7, <1>8, <1>9, <1>10 DEF Next
-----------------------------------------------------------------------------
\* The three parts together: types, order in transit, accounts of the actions.
THEOREM IngestionInvariant == Spec => []IInv
<1>1. Init => IInv
  BY InitIInv
<1>2. IInv /\ [Next]_vars => IInv'
  BY NextTypeOK, NextInOrder, NextActions DEF IInv
<1> QED BY <1>1, <1>2, PTL DEF Spec

\* For channels of any size and any number of snapshots: while pipeline and
\* updater run, the snapshots that the graph has not seen are on their way to
\* it, each once and in their order.
THEOREM NoSnapshotIsLost == Spec => []NoSnapshotLost
<1>1. IInv => NoSnapshotLost
  BY DEF IInv, InOrder, NoSnapshotLost
<1> QED BY <1>1, IngestionInvariant, PTL

\* For channels of any size and any number of actions: while the forwarder
\* runs, what the rules triggered is submitted, queued or waiting for room.
THEOREM NoRuleActionIsLost == Spec => []NoRuleActionLost
<1>1. IInv => NoRuleActionLost
  BY DEF IInv
<1> QED BY <1>1, IngestionInvariant, PTL

-----------------------------------------------------------------------------
(* Loops: induction up to a number, with a set for the predicate, and that *)
(* what a loop computes exists.                                            *)

LEMMA UpTo ==
  ASSUME NEW N \in Nat, NEW S, 0 \in S,
         \A n \in Nat : n < N /\ n \in S => n + 1 \in S
  PROVE  0 .. N \subseteq S
<1> SUFFICES ASSUME 0 .. N \ S # {} PROVE FALSE
    OBVIOUS
<1> DEFINE R == OpToRel(<, Nat)
<1>2. IsWellFoundedOn(R, Nat)
    BY NatLessThanWellFounded
<1> HIDE DEF R
<1>3. PICK x \in 0 .. N \ S : \A y \in 0 .. N \ S : ~ (<<y, x>> \in R)
  <2>1. 0 .. N \ S \subseteq Nat
    OBVIOUS
  <2> QED
    BY <1>2, <2>1, WFMin
<1>4. x # 0 /\ x - 1 \in Nat /\ x - 1 < N /\ x - 1 \in 0 .. N
    OBVIOUS
<1>5. <<x - 1, x>> \in R
    BY <1>4 DEF R, OpToRel
<1>6. x - 1 \in S
    BY <1>3, <1>4, <1>5
<1>7. x - 1 + 1 \in S
    BY <1>4, <1>6
<1> QED
    BY <1>3, <1>7

\* m holds what a loop of N rounds has computed before and after each round.
Loop(m, start, Step, N) ==
  /\ m[0] = start
  /\ \A k \in 1 .. N : m[k] = Step[<<m[k - 1], k>>]

LEMMA LoopExists ==
  ASSUME NEW Q, NEW start \in Q, NEW N \in Nat, NEW Step \in [Q \X (1 .. N) -> Q]
  PROVE  \E m \in [0 .. N -> Q] : Loop(m, start, Step, N)
<1> DEFINE S == {n \in Nat : n <= N => \E m \in [0 .. n -> Q] : Loop(m, start, Step, n)}
<1>1. 0 \in S
  <2> DEFINE m == [k \in 0 .. 0 |-> start]
  <2>1. m \in [0 .. 0 -> Q] /\ Loop(m, start, Step, 0)
    BY DEF Loop
  <2> QED
    BY <2>1
<1>2. ASSUME NEW n \in Nat, n < N, n \in S PROVE n + 1 \in S
  <2>1. PICK m \in [0 .. n -> Q] : Loop(m, start, Step, n)
    BY <1>2
  <2> DEFINE next == Step[<<m[n], n + 1>>]
             l == [k \in 0 .. n + 1 |-> IF k = n + 1 THEN next ELSE m[k]]
  <2>2. next \in Q
    BY <1>2, <2>1
  <2>3. l \in [0 .. n + 1 -> Q]
    BY <2>1, <2>2
  <2>4. l[0] = start /\ l[n] = m[n] /\ l[n + 1] = next /\ \A k \in 0 .. n : l[k] = m[k]
    BY <2>1 DEF Loop
  <2>5. next = Step[<<m[n], n + 1>>]
    OBVIOUS
  <2> HIDE DEF l, next
  <2>6. ASSUME NEW k \in 1 .. n + 1 PROVE l[k] = Step[<<l[k - 1], k>>]
    <3>1. CASE k = n + 1
      <4>1. k - 1 = n
        BY <3>1
      <4> QED
        BY <2>4, <2>5, <3>1, <4>1
    <3>2. CASE k \in 1 .. n
      <4>1. k - 1 \in 0 .. n /\ k \in 0 .. n
        BY <3>2
      <4> QED
        BY <2>1, <2>4, <3>2, <4>1 DEF Loop
    <3> QED
      BY <3>1, <3>2
  <2>7. Loop(l, start, Step, n + 1)
    BY <2>4, <2>6 DEF Loop
  <2> QED
    BY <2>3, <2>7
<1> HIDE DEF S
<1>3. 0 .. N \subseteq S
    BY <1>1, <1>2, UpTo
<1> QED
    BY <1>3 DEF S
-----------------------------------------------------------------------------
(* The numbers of a set in order.                                          *)

\* q has the numbers of T, each once, in their order.
Lists(q, T) ==
  /\ q \in Seq(Nat) /\ ToSet(q) = T
  /\ \A j, k \in DOMAIN q : j < k => q[j] < q[k]

AscendingRound(q, i, S) == IF i \in S THEN Append(q, i) ELSE q
Ascends(m, n, S) ==
  m = [i \in 0 .. n |-> IF i = 0 THEN <<>> ELSE AscendingRound(m[i - 1], i, S)]

LEMMA AppendToNumbers ==
  ASSUME NEW q, NEW T, Lists(q, T), NEW i \in Nat, \A t \in T : t < i
  PROVE  Lists(Append(q, i), T \cup {i})
<1> DEFINE a == Append(q, i)
           K == Len(q)
<1>1. /\ q \in Seq(Nat) /\ K \in Nat /\ DOMAIN q = 1 .. K /\ \A k \in 1 .. K : q[k] \in Nat
      /\ a \in Seq(Nat) /\ DOMAIN a = 1 .. K + 1 /\ a[K + 1] = i /\ \A k \in 1 .. K : a[k] = q[k]
    BY DEF Lists
<1> HIDE DEF a, K
<1>2. ToSet(a) = T \cup {i}
  <2>1. ToSet(q) = T
    BY DEF Lists
  <2>2. ASSUME NEW x \in ToSet(a) PROVE x \in T \cup {i}
    <3>1. PICK k \in 1 .. K + 1 : a[k] = x
      BY <1>1, <2>2 DEF ToSet
    <3>2. CASE k \in 1 .. K
      BY <1>1, <2>1, <3>1, <3>2 DEF ToSet
    <3>3. CASE k = K + 1
      BY <1>1, <3>1, <3>3
    <3> QED
      BY <1>1, <3>2, <3>3
  <2>3. ASSUME NEW x \in T PROVE x \in ToSet(a)
    <3>1. PICK k \in 1 .. K : q[k] = x
      BY <1>1, <2>1, <2>3 DEF ToSet
    <3>2. k \in 1 .. K + 1 /\ a[k] = x
      BY <1>1, <3>1
    <3> QED
      BY <1>1, <3>2 DEF ToSet
  <2>4. i \in ToSet(a)
    <3>1. K + 1 \in 1 .. K + 1
      BY <1>1
    <3> QED
      BY <1>1, <3>1 DEF ToSet
  <2> QED
    BY <2>2, <2>3, <2>4
<1>3. \A k \in 1 .. K : q[k] < i
    BY <1>1 DEF Lists, ToSet
<1>4. ASSUME NEW j \in DOMAIN a, NEW k \in DOMAIN a, j < k PROVE a[j] < a[k]
  <2>1. j \in 1 .. K
    BY <1>1, <1>4
  <2>2. CASE k = K + 1
    BY <1>1, <1>3, <2>1, <2>2
  <2>3. CASE k \in 1 .. K
    BY <1>1, <1>4, <2>1, <2>3 DEF Lists
  <2> QED
    BY <1>1, <2>2, <2>3
<1> QED
    BY <1>1, <1>2, <1>4 DEF Lists, a

LEMMA AscendingLoop ==
  ASSUME NEW n \in Nat, NEW S
  PROVE  \E m : Ascends(m, n, S) /\ Ascending(n, S) = m[n]
<1> DEFINE Q == Seq(Nat)
           Step == [qk \in Q \X (1 .. n) |-> AscendingRound(qk[1], qk[2], S)]
<1>1. \A q \in Q, k \in 1 .. n : AscendingRound(q, k, S) \in Q
    BY DEF AscendingRound
<1>2. Step \in [Q \X (1 .. n) -> Q]
    BY <1>1
<1>3. \A q \in Q, k \in 1 .. n : Step[<<q, k>>] = AscendingRound(q, k, S)
    OBVIOUS
<1>4. <<>> \in Q
    OBVIOUS
<1> HIDE DEF Step, Q
<1>5. PICK m \in [0 .. n -> Q] : Loop(m, <<>>, Step, n)
    BY <1>2, <1>4, LoopExists
<1>6. ASSUME NEW k \in 0 .. n
      PROVE  m[k] = IF k = 0 THEN <<>> ELSE AscendingRound(m[k - 1], k, S)
  <2>1. CASE k = 0
    BY <1>5, <2>1 DEF Loop
  <2>2. CASE k \in 1 .. n
    <3>1. m[k - 1] \in Q
      BY <1>5, <2>2
    <3> QED
      BY <1>3, <1>5, <2>2, <3>1 DEF Loop
  <2> QED
    BY <2>1, <2>2
<1>7. Ascends(m, n, S)
    BY <1>5, <1>6 DEF Ascends
<1>8. Ascending(n, S) = (CHOOSE q : Ascends(q, n, S))[n]
    BY DEF Ascending, Ascends, AscendingRound
<1> QED
    BY <1>7, <1>8

LEMMA AscendingIs ==
  ASSUME NEW n \in Nat, NEW S
  PROVE  Lists(Ascending(n, S), (1 .. n) \cap S)
<1>1. PICK m : Ascends(m, n, S) /\ Ascending(n, S) = m[n]
    BY AscendingLoop, Zenon
<1>2. m[0] = <<>> /\ \A i \in 1 .. n : m[i] = AscendingRound(m[i - 1], i, S)
  <2>1. m = [i \in 0 .. n |-> IF i = 0 THEN <<>> ELSE AscendingRound(m[i - 1], i, S)]
    BY <1>1 DEF Ascends
  <2>2. 0 \in 0 .. n /\ \A i \in 1 .. n : i \in 0 .. n /\ i # 0
    OBVIOUS
  <2>3. m[0] = <<>>
    BY <2>1, <2>2, Zenon
  <2>4. \A i \in 1 .. n : m[i] = AscendingRound(m[i - 1], i, S)
    BY <2>1, <2>2, Zenon
  <2> QED
    BY <2>3, <2>4
<1> DEFINE P == {i \in Nat : i <= n => Lists(m[i], (1 .. i) \cap S)}
<1>3. 0 \in P
  <2>1. <<>> \in Seq(Nat) /\ DOMAIN <<>> = {} /\ (1 .. 0) \cap S = {}
    OBVIOUS
  <2>2. Lists(<<>>, (1 .. 0) \cap S)
    BY <2>1 DEF Lists, ToSet
  <2> QED
    BY <1>2, <2>2
<1>4. ASSUME NEW i \in Nat, i < n, i \in P PROVE i + 1 \in P
  <2> DEFINE q == m[i]
  <2>1. Lists(q, (1 .. i) \cap S) /\ i + 1 \in Nat
    BY <1>4
  <2>2. m[i + 1] = AscendingRound(q, i + 1, S)
    <3>1. i + 1 \in 1 .. n /\ i + 1 - 1 = i
      BY <1>4
    <3> QED
      BY <1>2, <3>1
  <2> HIDE DEF q
  <2>3. CASE i + 1 \in S
    <3>1. (1 .. i + 1) \cap S = ((1 .. i) \cap S) \cup {i + 1}
      BY <2>3
    <3>2. \A t \in (1 .. i) \cap S : t < i + 1
      OBVIOUS
    <3>3. Lists(Append(q, i + 1), ((1 .. i) \cap S) \cup {i + 1})
      BY <2>1, <3>2, AppendToNumbers
    <3>4. m[i + 1] = Append(q, i + 1)
      BY <2>2, <2>3 DEF AscendingRound
    <3> QED
      BY <2>1, <3>1, <3>3, <3>4
  <2>4. CASE i + 1 \notin S
    <3>1. (1 .. i + 1) \cap S = (1 .. i) \cap S
      BY <2>4
    <3>2. m[i + 1] = q
      BY <2>2, <2>4 DEF AscendingRound
    <3> QED
      BY <2>1, <3>1, <3>2
  <2> QED
    BY <2>3, <2>4
<1> HIDE DEF P
<1>5. n \in P
  <2>1. 0 .. n \subseteq P
    BY <1>3, <1>4, UpTo
  <2> QED
    BY <2>1
<1> QED
    BY <1>1, <1>5 DEF P
-----------------------------------------------------------------------------
(* The correlator: what every round keeps of the account of the groups.    *)

GroupsOf(ds) == [kind : {"causal", "compound", "temporal"}, members : Seq(1 .. Len(ds))]

\* A group has a first member and others, which it was started for.
Linked(ds, group) ==
  /\ Len(group.members) >= 2
  /\ \A k \in 2 .. Len(group.members) :
       Related(group.kind, ds[group.members[1]], ds[group.members[k]])

In(i, group) == i \in ToSet(group.members)

\* Two groups share at most the first of two causal pairs.
Shareable(i, g, h) ==
  In(i, g) /\ In(i, h) => g.kind = "causal" /\ g.members[1] = i /\ h.kind = "causal" /\ h.members[1] = i

Accounted(ds, acc) ==
  /\ acc.used \in SUBSET (1 .. Len(ds)) /\ acc.groups \in Seq(GroupsOf(ds))
  /\ \A g \in DOMAIN acc.groups : Linked(ds, acc.groups[g])
  /\ \A i \in 1 .. Len(ds) : i \in acc.used <=> \E g \in DOMAIN acc.groups : In(i, acc.groups[g])
  /\ \A g, h \in DOMAIN acc.groups : g # h => \A i : Shareable(i, acc.groups[g], acc.groups[h])

States(ds) == [used : SUBSET (1 .. Len(ds)), groups : Seq(GroupsOf(ds))]

LEMMA MembersOfGroup ==
  ASSUME NEW N \in Nat, NEW s \in Seq(1 .. N)
  PROVE  ToSet(s) \subseteq 1 .. N
BY DEF ToSet

\* New groups of diagnostics that were free.
LEMMA MoreGroups ==
  ASSUME NEW ds, Len(ds) \in Nat, NEW acc, Accounted(ds, acc),
         NEW new \in Seq(GroupsOf(ds)), NEW more \in Seq(GroupsOf(ds)),
         Len(more) = Len(acc.groups) + Len(new),
         \A k \in 1 .. Len(acc.groups) : more[k] = acc.groups[k],
         \A k \in 1 .. Len(new) : more[Len(acc.groups) + k] = new[k],
         NEW free \in SUBSET (1 .. Len(ds)), free \cap acc.used = {},
         \A i \in 1 .. Len(ds) : i \in free <=> \E k \in DOMAIN new : In(i, new[k]),
         \A k \in DOMAIN new : Linked(ds, new[k]),
         \A j, k \in DOMAIN new : j # k => \A i : Shareable(i, new[j], new[k])
  PROVE  /\ Accounted(ds, [used |-> acc.used \cup free, groups |-> more])
         /\ [used |-> acc.used \cup free, groups |-> more] \in States(ds)
<1> DEFINE old == acc.groups
           K == Len(old)
           L == Len(new)
           N == Len(ds)
           used == acc.used \cup free
           Groups == GroupsOf(ds)
<1>1. /\ K \in Nat /\ L \in Nat /\ N \in Nat /\ old \in Seq(Groups)
      /\ DOMAIN old = 1 .. K /\ DOMAIN new = 1 .. L /\ DOMAIN more = 1 .. K + L
      /\ \A k \in 1 .. K : more[k] = old[k] /\ old[k] \in Groups
      /\ \A k \in 1 .. L : more[K + k] = new[k] /\ new[k] \in Groups
    BY DEF Accounted
<1>2. \A i, g : g \in Groups /\ In(i, g) => i \in 1 .. N
    BY <1>1, MembersOfGroup DEF In, GroupsOf
<1>3. /\ acc.used \in SUBSET (1 .. N)
      /\ \A g \in 1 .. K : Linked(ds, old[g])
      /\ \A i \in 1 .. N : i \in acc.used <=> \E g \in 1 .. K : In(i, old[g])
      /\ \A g, h \in 1 .. K : g # h => \A i : Shareable(i, old[g], old[h])
    BY <1>1 DEF Accounted
<1>4. /\ \A i \in 1 .. N : i \in free <=> \E k \in 1 .. L : In(i, new[k])
      /\ \A k \in 1 .. L : Linked(ds, new[k])
      /\ \A j, k \in 1 .. L : j # k => \A i : Shareable(i, new[j], new[k])
    BY <1>1
<1> HIDE DEF old, K, L, N, Groups
<1>5. \A k \in 1 .. K + L : k \in 1 .. K \/ \E l \in 1 .. L : k = K + l
  <2> TAKE k \in 1 .. K + L
  <2>1. k \in 1 .. K \/ (k - K \in 1 .. L /\ k = K + (k - K))
    BY <1>1
  <2> QED
    BY <2>1
<1>6. \A k \in 1 .. K : k \in 1 .. K + L
    BY <1>1
<1>7. \A k \in 1 .. L : K + k \in 1 .. K + L
    BY <1>1
<1>8. ASSUME NEW g \in 1 .. K + L PROVE Linked(ds, more[g])
  <2>1. CASE g \in 1 .. K
    BY <1>1, <1>3, <2>1
  <2>2. ASSUME NEW l \in 1 .. L, g = K + l PROVE Linked(ds, more[g])
    <3>1. more[g] = new[l]
      BY <1>1, <2>2
    <3> QED
      BY <1>4, <3>1
  <2> QED
    BY <1>5, <2>1, <2>2
<1>9. ASSUME NEW i \in 1 .. N
      PROVE  i \in used <=> \E g \in 1 .. K + L : In(i, more[g])
  <2>1. ASSUME i \in used PROVE \E g \in 1 .. K + L : In(i, more[g])
    <3>1. CASE i \in acc.used
      BY <1>1, <1>3, <1>6, <3>1
    <3>2. CASE i \in free
      BY <1>1, <1>4, <1>7, <3>2
    <3> QED
      BY <2>1, <3>1, <3>2
  <2>2. ASSUME NEW g \in 1 .. K + L, In(i, more[g]) PROVE i \in used
    <3>1. CASE g \in 1 .. K
      BY <1>1, <1>3, <2>2, <3>1
    <3>2. ASSUME NEW l \in 1 .. L, g = K + l PROVE i \in used
      <4>1. more[g] = new[l]
        BY <1>1, <3>2
      <4> QED
        BY <1>4, <2>2, <4>1
    <3> QED
      BY <1>5, <3>1, <3>2
  <2> QED
    BY <2>1, <2>2
<1>10. ASSUME NEW g \in 1 .. K + L, NEW h \in 1 .. K + L, g # h, NEW i
       PROVE  Shareable(i, more[g], more[h])
  <2>1. CASE g \in 1 .. K /\ h \in 1 .. K
    BY <1>1, <1>3, <1>10, <2>1
  <2>2. ASSUME NEW j \in 1 .. L, NEW k \in 1 .. L, g = K + j, h = K + k
        PROVE  Shareable(i, more[g], more[h])
    <3>1. j # k
      BY <1>10, <2>2
    <3> QED
      BY <1>1, <1>4, <2>2, <3>1
  <2>3. ASSUME NEW j \in 1 .. K, NEW k \in 1 .. L PROVE ~(In(i, old[j]) /\ In(i, new[k]))
    BY <1>1, <1>2, <1>3, <1>4
  <2>4. ASSUME NEW k \in 1 .. L, g \in 1 .. K, h = K + k PROVE Shareable(i, more[g], more[h])
    <3>1. more[g] = old[g] /\ more[h] = new[k]
      BY <1>1, <2>4
    <3>2. ~(In(i, old[g]) /\ In(i, new[k]))
      BY <2>3, <2>4
    <3> QED
      BY <3>1, <3>2 DEF Shareable
  <2>5. ASSUME NEW k \in 1 .. L, h \in 1 .. K, g = K + k PROVE Shareable(i, more[g], more[h])
    <3>1. more[g] = new[k] /\ more[h] = old[h]
      BY <1>1, <2>5
    <3>2. ~(In(i, old[h]) /\ In(i, new[k]))
      BY <2>3, <2>5
    <3> QED
      BY <3>1, <3>2 DEF Shareable
  <2> QED
    BY <1>5, <2>1, <2>2, <2>4, <2>5
<1>11. used \in SUBSET (1 .. N)
    BY <1>3 DEF N
<1> HIDE DEF used
<1>12. [used |-> used, groups |-> more] \in States(ds)
    BY <1>11 DEF States, N
<1>13. Accounted(ds, [used |-> used, groups |-> more])
  <2> DEFINE now == [used |-> used, groups |-> more]
  <2>1. now.used = used /\ now.groups = more
    OBVIOUS
  <2> HIDE DEF now
  <2>2. now.groups \in Seq(GroupsOf(ds)) /\ DOMAIN now.groups = 1 .. K + L
    BY <1>1, <2>1
  <2>3. Accounted(ds, now)
    BY <1>8, <1>9, <1>10, <1>11, <2>1, <2>2 DEF Accounted, N
  <2> QED
    BY <2>3 DEF now
<1> QED
    BY <1>12, <1>13 DEF used

LEMMA ListOf ==
  ASSUME NEW T, NEW q \in Seq(T), NEW R, \A k \in 1 .. Len(q) : q[k] \in R
  PROVE  q \in Seq(R)
<1>1. Len(q) \in Nat /\ q = [k \in 1 .. Len(q) |-> q[k]]
    OBVIOUS
<1>2. [k \in 1 .. Len(q) |-> q[k]] \in [1 .. Len(q) -> R]
    OBVIOUS
<1> QED
    BY <1>1, <1>2

\* Partners are free and come after the one they are of.
LEMMA PartnersAre ==
  ASSUME NEW ds, Len(ds) \in Nat, NEW i \in 1 .. Len(ds), NEW used, NEW kind
  PROVE  /\ Partners(ds, i, used, kind) \in Seq(1 .. Len(ds))
         /\ \A j : j \in ToSet(Partners(ds, i, used, kind)) <=>
                     j \in i + 1 .. Len(ds) /\ j \notin used /\ Related(kind, ds[i], ds[j])
         /\ \A j, k \in DOMAIN Partners(ds, i, used, kind) :
              j # k => Partners(ds, i, used, kind)[j] # Partners(ds, i, used, kind)[k]
<1> DEFINE N == Len(ds)
           S == {j \in i + 1 .. N : j \notin used /\ Related(kind, ds[i], ds[j])}
           q == Partners(ds, i, used, kind)
<1>1. q = Ascending(N, S) /\ (1 .. N) \cap S = S
    BY DEF Partners
<1>2. \A j : j \in S <=> j \in i + 1 .. Len(ds) /\ j \notin used /\ Related(kind, ds[i], ds[j])
    OBVIOUS
<1> HIDE DEF N, S, q
<1>3. Lists(q, S)
    BY <1>1, AscendingIs DEF N
<1>4. q \in Seq(Nat) /\ ToSet(q) = S /\ Len(q) \in Nat /\ DOMAIN q = 1 .. Len(q)
      /\ \A k \in 1 .. Len(q) : q[k] \in S /\ q[k] \in Nat
    BY <1>3 DEF Lists, ToSet
<1>5. S \subseteq 1 .. N
    BY <1>2 DEF N
<1>6. q \in Seq(1 .. N)
    BY <1>4, <1>5, ListOf
<1>7. ASSUME NEW j \in DOMAIN q, NEW k \in DOMAIN q, j # k PROVE q[j] # q[k]
    BY <1>3, <1>4, <1>7 DEF Lists
<1> QED
    BY <1>2, <1>4, <1>6, <1>7 DEF N, q

\* An account of the groups so far.
Accounts(ds) == {acc \in States(ds) : Accounted(ds, acc)}

LEMMA Appended ==
  ASSUME NEW T, NEW s \in Seq(T), NEW t \in Seq(T)
  PROVE  /\ s \o t \in Seq(T) /\ Len(s \o t) = Len(s) + Len(t)
         /\ \A k \in 1 .. Len(s) : (s \o t)[k] = s[k]
         /\ \A k \in 1 .. Len(t) : (s \o t)[Len(s) + k] = t[k]
OBVIOUS

LEMMA CausalRoundKeeps ==
  ASSUME NEW ds, Len(ds) \in Nat, NEW acc \in Accounts(ds), NEW i \in 1 .. Len(ds)
  PROVE  CausalRound(ds, acc, i) \in Accounts(ds)
<1> DEFINE N == Len(ds)
           js == Partners(ds, i, acc.used, "causal")
           Pair(j) == [kind |-> "causal", members |-> <<i, j>>]
           new == [k \in DOMAIN js |-> Pair(js[k])]
           free == {i} \cup ToSet(js)
           more == acc.groups \o new
<1>1. acc \in States(ds) /\ Accounted(ds, acc)
    BY DEF Accounts
<1>2. CASE i \in acc.used \/ js = <<>>
  <2>1. CausalRound(ds, acc, i) = acc
    BY <1>2 DEF CausalRound
  <2> QED
    BY <2>1
<1>3. CASE i \notin acc.used /\ js # <<>>
  <2>1. /\ js \in Seq(1 .. N)
        /\ \A j : j \in ToSet(js) <=> j \in i + 1 .. N /\ j \notin acc.used /\ Related("causal", ds[i], ds[j])
        /\ \A j, k \in DOMAIN js : j # k => js[j] # js[k]
    BY PartnersAre
  <2>2. CausalRound(ds, acc, i) = [used |-> acc.used \cup {i} \cup ToSet(js), groups |-> more]
    BY <1>3 DEF CausalRound
  <2>3. acc.used \cup {i} \cup ToSet(js) = acc.used \cup free
    OBVIOUS
  <2> DEFINE M == Len(js)
  <2>4. M \in Nat /\ M >= 1 /\ DOMAIN js = 1 .. M
    BY <1>3, <2>1
  <2>5. \A k \in 1 .. M : js[k] \in i + 1 .. N /\ js[k] \notin acc.used /\ Related("causal", ds[i], ds[js[k]])
    BY <2>1, <2>4 DEF ToSet
  <2>6. \A j : j \in ToSet(js) <=> \E k \in 1 .. M : js[k] = j
    BY <2>4 DEF ToSet
  <2>7. \A j \in 1 .. N : /\ Pair(j) \in GroupsOf(ds) /\ Pair(j).kind = "causal"
                          /\ Len(Pair(j).members) = 2
                          /\ Pair(j).members[1] = i /\ Pair(j).members[2] = j
                          /\ DOMAIN Pair(j).members = 1 .. 2
    <3> TAKE j \in 1 .. N
    <3>1. <<i, j>> \in Seq(1 .. N)
      OBVIOUS
    <3> QED
      BY <3>1 DEF GroupsOf
  <2>8. \A j \in 1 .. N : \A x : In(x, Pair(j)) <=> x \in {i, j}
    <3> TAKE j \in 1 .. N
    <3>1. ToSet(Pair(j).members) = {i, j}
      <4>1. 1 .. 2 = {1, 2}
        OBVIOUS
      <4> HIDE DEF Pair
      <4> QED
        BY <2>7, <4>1 DEF ToSet
    <3> HIDE DEF Pair
    <3> QED
      BY <3>1 DEF In
  <2>9. N \in Nat /\ i \in 1 .. N
    OBVIOUS
  <2> HIDE DEF js, Pair, N
  <2>10. new \in Seq(GroupsOf(ds)) /\ Len(new) = M /\ DOMAIN new = 1 .. M
         /\ \A k \in 1 .. M : new[k] = Pair(js[k]) /\ js[k] \in 1 .. N
    <3>1. \A k \in 1 .. M : js[k] \in 1 .. N
      BY <2>5, <2>9
    <3>2. \A k \in 1 .. M : Pair(js[k]) \in GroupsOf(ds)
      BY <2>7, <3>1
    <3> HIDE DEF M
    <3>3. new = [k \in 1 .. M |-> Pair(js[k])]
      BY <2>4
    <3> HIDE DEF new
    <3>4. new \in Seq(GroupsOf(ds)) /\ Len(new) = M /\ DOMAIN new = 1 .. M /\ \A k \in 1 .. M : new[k] = Pair(js[k])
      BY <2>4, <3>2, <3>3
    <3> QED
      BY <3>1, <3>4
  <2>11. acc.groups \in Seq(GroupsOf(ds))
    BY <1>1 DEF States
  <2> HIDE DEF new, M
  <2>12. /\ more \in Seq(GroupsOf(ds)) /\ Len(more) = Len(acc.groups) + Len(new)
         /\ \A k \in 1 .. Len(acc.groups) : more[k] = acc.groups[k]
         /\ \A k \in 1 .. Len(new) : more[Len(acc.groups) + k] = new[k]
    <3> DEFINE old == acc.groups
    <3> HIDE DEF old
    <3>1. old \in Seq(GroupsOf(ds)) /\ new \in Seq(GroupsOf(ds))
      BY <2>10, <2>11 DEF old
    <3>2. /\ old \o new \in Seq(GroupsOf(ds)) /\ Len(old \o new) = Len(old) + Len(new)
          /\ \A k \in 1 .. Len(old) : (old \o new)[k] = old[k]
          /\ \A k \in 1 .. Len(new) : (old \o new)[Len(old) + k] = new[k]
      BY <3>1, Appended
    <3> QED
      BY <3>2 DEF old
  <2> HIDE DEF more
  <2>13. \A j : j \in free <=> j = i \/ \E k \in 1 .. M : js[k] = j
    BY <2>6
  <2>14. free \in SUBSET (1 .. Len(ds)) /\ free \cap acc.used = {}
    BY <1>3, <2>5, <2>10, <2>9, <2>13 DEF N
  <2> HIDE DEF free
  <2>15. \A x \in 1 .. Len(ds) : x \in free <=> \E k \in DOMAIN new : In(x, new[k])
    <3>1. \A k \in 1 .. M : \A x : In(x, new[k]) <=> x = i \/ x = js[k]
      BY <2>8, <2>10
    <3>2. 1 \in 1 .. M
      BY <2>4
    <3> QED
      BY <2>10, <2>13, <3>1, <3>2
  <2>16. \A k \in DOMAIN new : Linked(ds, new[k])
    <3> SUFFICES ASSUME NEW k \in 1 .. M PROVE Linked(ds, new[k])
      BY <2>10
    <3> DEFINE g == new[k]
    <3>1. g.kind = "causal" /\ Len(g.members) = 2 /\ g.members[1] = i /\ g.members[2] = js[k]
      BY <2>7, <2>10
    <3>2. Related("causal", ds[i], ds[js[k]])
      BY <2>5
    <3> HIDE DEF g
    <3>3. Linked(ds, g)
      <4>1. 2 .. 2 = {2}
        OBVIOUS
      <4> QED
        BY <3>1, <3>2, <4>1 DEF Linked
    <3> QED
      BY <3>3 DEF g
  <2>17. ASSUME NEW j \in DOMAIN new, NEW k \in DOMAIN new, j # k, NEW x PROVE Shareable(x, new[j], new[k])
    <3>1. js[j] # js[k] /\ js[j] \in 1 .. N /\ js[k] \in 1 .. N /\ new[j] = Pair(js[j]) /\ new[k] = Pair(js[k])
      BY <2>1, <2>4, <2>10, <2>17
    <3>2. In(x, new[j]) /\ In(x, new[k]) => x = i
      BY <2>8, <3>1
    <3> QED
      BY <2>7, <3>1, <3>2 DEF Shareable
  <2>18. Accounted(ds, [used |-> acc.used \cup free, groups |-> more])
         /\ [used |-> acc.used \cup free, groups |-> more] \in States(ds)
    BY <1>1, <2>10, <2>12, <2>14, <2>15, <2>16, <2>17, MoreGroups
  <2> QED
    BY <2>2, <2>3, <2>18 DEF Accounts
<1> QED
    BY <1>2, <1>3

LEMMA GatherRoundKeeps ==
  ASSUME NEW ds, Len(ds) \in Nat, NEW acc \in Accounts(ds), NEW i \in 1 .. Len(ds),
         NEW kind \in {"compound", "temporal"}
  PROVE  GatherRound(ds, acc, i, kind) \in Accounts(ds)
<1> DEFINE N == Len(ds)
           js == Partners(ds, i, acc.used, kind)
           members == <<i>> \o js
           group == [kind |-> kind, members |-> members]
           new == <<group>>
           free == {i} \cup ToSet(js)
           more == Append(acc.groups, group)
<1>1. acc \in States(ds) /\ Accounted(ds, acc)
    BY DEF Accounts
<1>2. CASE i \in acc.used \/ js = <<>>
  <2>1. GatherRound(ds, acc, i, kind) = acc
    BY <1>2 DEF GatherRound
  <2> QED
    BY <2>1
<1>3. CASE i \notin acc.used /\ js # <<>>
  <2>1. /\ js \in Seq(1 .. N)
        /\ \A j : j \in ToSet(js) <=> j \in i + 1 .. N /\ j \notin acc.used /\ Related(kind, ds[i], ds[j])
    BY PartnersAre
  <2>2. GatherRound(ds, acc, i, kind) = [used |-> acc.used \cup {i} \cup ToSet(js), groups |-> more]
    BY <1>3 DEF GatherRound
  <2>3. acc.used \cup {i} \cup ToSet(js) = acc.used \cup free
    OBVIOUS
  <2> DEFINE M == Len(js)
  <2>4. M \in Nat /\ M >= 1 /\ DOMAIN js = 1 .. M
    BY <1>3, <2>1
  <2>5. \A k \in 1 .. M : js[k] \in i + 1 .. N /\ js[k] \notin acc.used /\ Related(kind, ds[i], ds[js[k]])
    BY <2>1, <2>4 DEF ToSet
  <2>6. N \in Nat /\ i \in 1 .. N
    OBVIOUS
  <2> HIDE DEF js, N
  <2>7. /\ members \in Seq(1 .. N) /\ Len(members) = M + 1 /\ DOMAIN members = 1 .. M + 1
        /\ members[1] = i /\ \A k \in 2 .. M + 1 : members[k] = js[k - 1]
    <3>1. <<i>> \in Seq(1 .. N) /\ Len(<<i>>) = 1 /\ <<i>>[1] = i
      BY <2>6
    <3> QED
      BY <2>1, <2>4, <3>1
  <2> HIDE DEF M, members
  <2>8. ToSet(members) = free
    <3>1. ASSUME NEW x \in ToSet(members) PROVE x \in free
      <4>1. PICK k \in 1 .. M + 1 : members[k] = x
        BY <2>7, <3>1 DEF ToSet
      <4>2. CASE k = 1
        BY <2>7, <4>1, <4>2
      <4>3. CASE k # 1
        <5>1. k \in 2 .. M + 1 /\ k - 1 \in 1 .. M
          BY <2>4, <4>3
        <5> QED
          BY <2>4, <2>7, <4>1, <5>1 DEF ToSet
      <4> QED
        BY <4>2, <4>3
    <3>2. ASSUME NEW k \in 1 .. M PROVE js[k] \in ToSet(members)
      <4>1. k + 1 \in 2 .. M + 1 /\ k + 1 - 1 = k /\ k + 1 \in 1 .. M + 1
        BY <2>4
      <4>2. members[k + 1] = js[k]
        BY <2>7, <4>1
      <4> QED
        BY <2>7, <4>1, <4>2 DEF ToSet
    <3>3. i \in ToSet(members)
      <4>1. 1 \in 1 .. M + 1
        BY <2>4
      <4> QED
        BY <2>7, <4>1 DEF ToSet
    <3>4. \A x \in ToSet(js) : \E k \in 1 .. M : js[k] = x
      BY <2>4 DEF ToSet
    <3> QED
      BY <3>1, <3>2, <3>3, <3>4
  <2>9. group \in GroupsOf(ds) /\ group.kind = kind /\ group.members = members
    BY <2>7 DEF GroupsOf, N
  <2> HIDE DEF group
  <2>10. new \in Seq(GroupsOf(ds)) /\ Len(new) = 1 /\ DOMAIN new = 1 .. 1 /\ new[1] = group
    BY <2>9
  <2>11. acc.groups \in Seq(GroupsOf(ds))
    BY <1>1 DEF States
  <2>12. /\ more \in Seq(GroupsOf(ds)) /\ Len(more) = Len(acc.groups) + 1
         /\ \A k \in 1 .. Len(acc.groups) : more[k] = acc.groups[k]
         /\ more[Len(acc.groups) + 1] = group
    BY <2>9, <2>11
  <2> HIDE DEF new, more
  <2>13. \A k \in 1 .. Len(new) : more[Len(acc.groups) + k] = new[k]
    BY <2>10, <2>12
  <2>14. free \in SUBSET (1 .. Len(ds)) /\ free \cap acc.used = {}
    <3>1. \A j \in ToSet(js) : j \in 1 .. N /\ j \notin acc.used
      BY <2>1, <2>6
    <3> QED
      BY <1>3, <2>6, <3>1 DEF N
  <2>15. \A x \in 1 .. Len(ds) : x \in free <=> \E k \in DOMAIN new : In(x, new[k])
    BY <2>8, <2>9, <2>10 DEF In
  <2>16. Linked(ds, group)
    <3>1. ASSUME NEW k \in 2 .. M + 1 PROVE Related(kind, ds[i], ds[members[k]])
      <4>1. k - 1 \in 1 .. M
        BY <2>4
      <4> QED
        BY <2>5, <2>7, <4>1
    <3>2. Len(group.members) = M + 1 /\ M + 1 >= 2
      BY <2>4, <2>7, <2>9
    <3>3. \A k \in 2 .. M + 1 : Related(group.kind, ds[group.members[1]], ds[group.members[k]])
      BY <2>7, <2>9, <3>1
    <3> QED
      BY <3>2, <3>3 DEF Linked
  <2>17. \A k \in DOMAIN new : Linked(ds, new[k])
    BY <2>10, <2>16
  <2>18. \A j, k \in DOMAIN new : j # k => \A x : Shareable(x, new[j], new[k])
    BY <2>10
  <2> HIDE DEF free
  <2>19. Accounted(ds, [used |-> acc.used \cup free, groups |-> more])
         /\ [used |-> acc.used \cup free, groups |-> more] \in States(ds)
    BY <1>1, <2>10, <2>12, <2>13, <2>14, <2>15, <2>17, <2>18, MoreGroups
  <2> QED
    BY <2>2, <2>3, <2>19 DEF Accounts
<1> QED
    BY <1>2, <1>3

LEMMA NothingAccounted ==
  ASSUME NEW ds, Len(ds) \in Nat
  PROVE  [used |-> {}, groups |-> <<>>] \in Accounts(ds)
<1> DEFINE acc == [used |-> {}, groups |-> <<>>]
<1>1. acc.used = {} /\ acc.groups = <<>>
    OBVIOUS
<1>2. <<>> \in Seq(GroupsOf(ds)) /\ DOMAIN <<>> = {}
    OBVIOUS
<1>3. acc \in States(ds)
    BY <1>2 DEF States
<1> HIDE DEF acc
<1>4. Accounted(ds, acc)
    BY <1>1, <1>2 DEF Accounted
<1> QED
    BY <1>3, <1>4 DEF Accounts, acc

CausalRounds(m, ds) ==
  m = [i \in 0 .. Len(ds) |->
         IF i = 0 THEN [used |-> {}, groups |-> <<>>] ELSE CausalRound(ds, m[i - 1], i)]

LEMMA CausalLoop ==
  ASSUME NEW ds, Len(ds) \in Nat
  PROVE  \E m : CausalRounds(m, ds) /\ CausalStep(ds) = m[Len(ds)]
<1> DEFINE N == Len(ds)
           Q == Accounts(ds)
           start == [used |-> {}, groups |-> <<>>]
           Step == [qk \in Q \X (1 .. N) |-> CausalRound(ds, qk[1], qk[2])]
<1>1. Step \in [Q \X (1 .. N) -> Q]
    BY CausalRoundKeeps
<1>2. \A q \in Q, k \in 1 .. N : Step[<<q, k>>] = CausalRound(ds, q, k)
    OBVIOUS
<1>3. start \in Q
    BY NothingAccounted
<1>4. CausalStep(ds) = (CHOOSE m : CausalRounds(m, ds))[N]
    BY DEF CausalStep, CausalRounds
<1> HIDE DEF Step, Q, start
<1>5. PICK m \in [0 .. N -> Q] : Loop(m, start, Step, N)
    BY <1>1, <1>3, LoopExists
<1>6. ASSUME NEW k \in 0 .. N PROVE m[k] = IF k = 0 THEN start ELSE CausalRound(ds, m[k - 1], k)
  <2>1. CASE k = 0
    BY <1>5, <2>1 DEF Loop
  <2>2. CASE k \in 1 .. N
    <3>1. m[k - 1] \in Q
      BY <1>5, <2>2
    <3> QED
      BY <1>2, <1>5, <2>2, <3>1 DEF Loop
  <2> QED
    BY <2>1, <2>2
<1>7. CausalRounds(m, ds)
    BY <1>5, <1>6 DEF CausalRounds, start
<1> QED
    BY <1>4, <1>7

LEMMA CausalStepAccounts ==
  ASSUME NEW ds, Len(ds) \in Nat
  PROVE  CausalStep(ds) \in Accounts(ds)
<1> DEFINE N == Len(ds)
           start == [used |-> {}, groups |-> <<>>]
<1>1. PICK m : CausalRounds(m, ds) /\ CausalStep(ds) = m[N]
    BY CausalLoop, Zenon
<1>2. m[0] = start /\ \A i \in 1 .. N : m[i] = CausalRound(ds, m[i - 1], i)
  <2>1. m = [i \in 0 .. N |-> IF i = 0 THEN start ELSE CausalRound(ds, m[i - 1], i)]
    BY <1>1 DEF CausalRounds
  <2>2. 0 \in 0 .. N /\ \A i \in 1 .. N : i \in 0 .. N /\ i # 0
    OBVIOUS
  <2> HIDE DEF N, start
  <2>3. m[0] = start
    BY <2>1, <2>2, Zenon
  <2>4. \A i \in 1 .. N : m[i] = CausalRound(ds, m[i - 1], i)
    BY <2>1, <2>2, Zenon
  <2> QED
    BY <2>3, <2>4
<1> DEFINE P == {i \in Nat : i <= N => m[i] \in Accounts(ds)}
<1>3. 0 \in P
    BY <1>2, NothingAccounted
<1>4. ASSUME NEW i \in Nat, i < N, i \in P PROVE i + 1 \in P
  <2>1. m[i] \in Accounts(ds) /\ i + 1 \in 1 .. N /\ i + 1 - 1 = i
    BY <1>4
  <2>2. m[i + 1] = CausalRound(ds, m[i], i + 1)
    BY <1>2, <2>1
  <2>3. m[i + 1] \in Accounts(ds)
    BY <2>1, <2>2, CausalRoundKeeps
  <2> QED
    BY <2>1, <2>3
<1> HIDE DEF P
<1>5. N \in P
  <2>1. 0 .. N \subseteq P
    BY <1>3, <1>4, UpTo
  <2> QED
    BY <2>1
<1> QED
    BY <1>1, <1>5 DEF P

GatherRounds(m, ds, start, kind) ==
  m = [i \in 0 .. Len(ds) |-> IF i = 0 THEN start ELSE GatherRound(ds, m[i - 1], i, kind)]

LEMMA GatherLoop ==
  ASSUME NEW ds, Len(ds) \in Nat, NEW start \in Accounts(ds), NEW kind \in {"compound", "temporal"}
  PROVE  \E m : GatherRounds(m, ds, start, kind) /\ Gather(ds, start, kind) = m[Len(ds)]
<1> DEFINE N == Len(ds)
           Q == Accounts(ds)
           Step == [qk \in Q \X (1 .. N) |-> GatherRound(ds, qk[1], qk[2], kind)]
<1>1. Step \in [Q \X (1 .. N) -> Q]
    BY GatherRoundKeeps
<1>2. \A q \in Q, k \in 1 .. N : Step[<<q, k>>] = GatherRound(ds, q, k, kind)
    OBVIOUS
<1>3. start \in Q
    OBVIOUS
<1>4. Gather(ds, start, kind) = (CHOOSE m : GatherRounds(m, ds, start, kind))[N]
    BY DEF Gather, GatherRounds
<1> HIDE DEF Step, Q
<1>5. PICK m \in [0 .. N -> Q] : Loop(m, start, Step, N)
    BY <1>1, <1>3, LoopExists
<1>6. ASSUME NEW k \in 0 .. N PROVE m[k] = IF k = 0 THEN start ELSE GatherRound(ds, m[k - 1], k, kind)
  <2>1. CASE k = 0
    BY <1>5, <2>1 DEF Loop
  <2>2. CASE k \in 1 .. N
    <3>1. m[k - 1] \in Q
      BY <1>5, <2>2
    <3> QED
      BY <1>2, <1>5, <2>2, <3>1 DEF Loop
  <2> QED
    BY <2>1, <2>2
<1>7. GatherRounds(m, ds, start, kind)
    BY <1>5, <1>6 DEF GatherRounds
<1> QED
    BY <1>4, <1>7

\* Of two diagnostics, of which the first was looked at, one is in a group.
Paired(ds, used, looked) == \A a \in 1 .. looked, b \in 1 .. Len(ds) : a < b => a \in used \/ b \in used

AtOnce(ds) == \A i, j \in 1 .. Len(ds) : WithinTimeWindow(ds[i], ds[j])

LEMMA TemporalRoundPairs ==
  ASSUME NEW ds, Len(ds) \in Nat, AtOnce(ds), NEW acc \in Accounts(ds), NEW n \in Nat, n < Len(ds),
         Paired(ds, acc.used, n)
  PROVE  Paired(ds, GatherRound(ds, acc, n + 1, "temporal").used, n + 1)
<1> DEFINE i == n + 1
           js == Partners(ds, i, acc.used, "temporal")
           new == GatherRound(ds, acc, i, "temporal")
<1>1. i \in 1 .. Len(ds)
    OBVIOUS
<1>2. acc.used \subseteq new.used
    BY DEF GatherRound
<1>3. \A j : j \in ToSet(js) <=> j \in i + 1 .. Len(ds) /\ j \notin acc.used /\ Related("temporal", ds[i], ds[j])
    BY <1>1, PartnersAre
<1>4. \A j \in i + 1 .. Len(ds) : Related("temporal", ds[i], ds[j])
    BY <1>1 DEF Related, AtOnce
<1>5. i \in acc.used \/ js = <<>> \/ i \in new.used
    BY DEF GatherRound
<1>6. js = <<>> => \A b \in i + 1 .. Len(ds) : b \in acc.used
  <2>1. ToSet(<<>>) = {}
    BY DEF ToSet
  <2> QED
    BY <1>3, <1>4, <2>1
<1> HIDE DEF js, new
<1>7. ASSUME NEW a \in 1 .. n + 1, NEW b \in 1 .. Len(ds), a < b PROVE a \in new.used \/ b \in new.used
  <2>1. CASE a \in 1 .. n
    BY <1>2, <1>7, <2>1 DEF Paired
  <2>2. CASE a = i
    <3>1. b \in i + 1 .. Len(ds)
      BY <1>7, <2>2
    <3> QED
      BY <1>2, <1>5, <1>6, <2>2, <3>1
  <2> QED
    BY <2>1, <2>2
<1> QED
    BY <1>7 DEF Paired, new

LEMMA GatherAccounts ==
  ASSUME NEW ds, Len(ds) \in Nat, NEW start \in Accounts(ds), NEW kind \in {"compound", "temporal"}
  PROVE  /\ Gather(ds, start, kind) \in Accounts(ds)
         /\ kind = "temporal" /\ AtOnce(ds) => Paired(ds, Gather(ds, start, kind).used, Len(ds))
<1> DEFINE N == Len(ds)
<1>1. PICK m : GatherRounds(m, ds, start, kind) /\ Gather(ds, start, kind) = m[N]
    BY GatherLoop, Zenon
<1>2. m[0] = start /\ \A i \in 1 .. N : m[i] = GatherRound(ds, m[i - 1], i, kind)
  <2>1. m = [i \in 0 .. N |-> IF i = 0 THEN start ELSE GatherRound(ds, m[i - 1], i, kind)]
    BY <1>1 DEF GatherRounds
  <2>2. 0 \in 0 .. N /\ \A i \in 1 .. N : i \in 0 .. N /\ i # 0
    OBVIOUS
  <2> HIDE DEF N
  <2>3. m[0] = start
    BY <2>1, <2>2, Zenon
  <2>4. \A i \in 1 .. N : m[i] = GatherRound(ds, m[i - 1], i, kind)
    BY <2>1, <2>2, Zenon
  <2> QED
    BY <2>3, <2>4
<1> DEFINE Good(acc, i) == acc \in Accounts(ds) /\ (kind = "temporal" /\ AtOnce(ds) => Paired(ds, acc.used, i))
           P == {i \in Nat : i <= N => Good(m[i], i)}
<1>3. 0 \in P
  <2>1. Paired(ds, m[0].used, 0)
    BY DEF Paired
  <2> QED
    BY <1>2, <2>1
<1>4. ASSUME NEW i \in Nat, i < N, i \in P PROVE i + 1 \in P
  <2>1. Good(m[i], i) /\ i + 1 \in 1 .. N /\ i + 1 - 1 = i
    BY <1>4
  <2>2. m[i + 1] = GatherRound(ds, m[i], i + 1, kind)
    BY <1>2, <2>1
  <2>3. m[i + 1] \in Accounts(ds)
    BY <2>1, <2>2, GatherRoundKeeps
  <2>4. kind = "temporal" /\ AtOnce(ds) => Paired(ds, m[i + 1].used, i + 1)
    BY <1>4, <2>1, <2>2, TemporalRoundPairs
  <2> QED
    BY <2>1, <2>3, <2>4
<1> HIDE DEF P
<1>5. N \in P
  <2>1. 0 .. N \subseteq P
    BY <1>3, <1>4, UpTo
  <2> QED
    BY <2>1
<1> QED
    BY <1>1, <1>5 DEF P

\* What the three strategies leave behind.
LEMMA CorrelateAccounts ==
  ASSUME NEW ds, Len(ds) \in Nat, AtOnce(ds)
  PROVE  \E used : /\ [used |-> used, groups |-> Correlate(ds)] \in Accounts(ds)
                   /\ Paired(ds, used, Len(ds))
<1> DEFINE one == CausalStep(ds)
           two == Gather(ds, one, "compound")
           three == Gather(ds, two, "temporal")
<1>1. one \in Accounts(ds)
    BY CausalStepAccounts
<1> HIDE DEF one
<1>2. two \in Accounts(ds)
    BY <1>1, GatherAccounts
<1> HIDE DEF two
<1>3. three \in Accounts(ds) /\ Paired(ds, three.used, Len(ds))
    BY <1>2, GatherAccounts
<1>4. Correlate(ds) = three.groups
    BY DEF Correlate, one, two
<1> HIDE DEF three
<1>5. three = [used |-> three.used, groups |-> three.groups]
    BY <1>3 DEF Accounts, States
<1> QED
    BY <1>3, <1>4, <1>5

LEMMA AtMostOne ==
  ASSUME NEW S, \A x, y \in S : x = y
  PROVE  Cardinality(S) <= 1
<1>1. CASE S = {}
    BY <1>1, FS_EmptySet
<1>2. CASE S # {}
  <2>1. PICK x : x \in S
    BY <1>2
  <2>2. S = {x}
    BY <2>1
  <2> QED
    BY <2>2, FS_Singleton
<1> QED
    BY <1>1, <1>2

LEMMA MoreThanOne ==
  ASSUME NEW S, NEW x \in S, Cardinality(S) > 1
  PROVE  \E y \in S : y # x
<1> SUFFICES ASSUME \A y \in S : y = x PROVE FALSE
    OBVIOUS
<1>1. S = {x}
    OBVIOUS
<1> QED
    BY <1>1, FS_Singleton

\* CorrelationAccounts of any diagnostics and groups.
AccountsFor(ds, gs) ==
  LET of(i) == {g \in DOMAIN gs : In(i, gs[g])}
  IN /\ Cardinality({i \in DOMAIN ds : of(i) = {}}) <= 1
     /\ \A i \in DOMAIN ds :
          Cardinality(of(i)) > 1 => \A g \in of(i) : gs[g].kind = "causal" /\ gs[g].members[1] = i
     /\ \A g \in DOMAIN gs :
          LET members == gs[g].members
              first == ds[members[1]]
              others == {ds[members[k]] : k \in 2 .. Len(members)}
          IN /\ others # {}
             /\ gs[g].kind = "causal" =>
                  \A d \in others : {<<first.category, d.category>>, <<d.category, first.category>>}
                                      \cap CausalPatterns # {}
             /\ gs[g].kind = "compound" =>
                  \A d \in others : d.target = first.target /\ d.category # first.category

LEMMA AnnotatedIs ==
  ASSUME NEW ds, NEW gs, \A i \in DOMAIN ds : {"target", "category", "rule"} \subseteq DOMAIN ds[i]
  PROVE  /\ DOMAIN Annotated(ds, gs) = DOMAIN ds
         /\ \A i \in DOMAIN ds : /\ Annotated(ds, gs)[i].target = ds[i].target
                                 /\ Annotated(ds, gs)[i].category = ds[i].category
                                 /\ Annotated(ds, gs)[i].rule = ds[i].rule
<1>1. DOMAIN Annotated(ds, gs) = DOMAIN ds
    BY DEF Annotated
<1>2. ASSUME NEW i \in DOMAIN ds, NEW field \in {"target", "category", "rule"}
      PROVE  Annotated(ds, gs)[i][field] = ds[i][field]
  <2>1. Annotated(ds, gs)[i] = [ds[i] EXCEPT !.notes = Notes(gs, i)]
    BY DEF Annotated
  <2>2. field \in DOMAIN ds[i] /\ field # "notes"
    OBVIOUS
  <2> QED
    BY <2>1, <2>2
<1> QED
    BY <1>1, <1>2

LEMMA CorrelateAccountsFor ==
  ASSUME NEW ds, Len(ds) \in Nat, DOMAIN ds = 1 .. Len(ds), AtOnce(ds),
         NEW as, DOMAIN as = DOMAIN ds,
         \A i \in DOMAIN ds : as[i].target = ds[i].target /\ as[i].category = ds[i].category
  PROVE  AccountsFor(as, Correlate(ds))
<1> DEFINE gs == Correlate(ds)
           N == Len(ds)
           of(i) == {g \in DOMAIN gs : In(i, gs[g])}
<1>1. PICK used : [used |-> used, groups |-> gs] \in Accounts(ds) /\ Paired(ds, used, N)
    BY CorrelateAccounts
<1> HIDE DEF gs
<1>2. /\ gs \in Seq(GroupsOf(ds))
      /\ \A g \in DOMAIN gs : Linked(ds, gs[g])
      /\ \A i \in 1 .. N : i \in used <=> \E g \in DOMAIN gs : In(i, gs[g])
      /\ \A g, h \in DOMAIN gs : g # h => \A i : Shareable(i, gs[g], gs[h])
    BY <1>1 DEF Accounts, Accounted
<1>3. Cardinality({i \in DOMAIN as : of(i) = {}}) <= 1
  <2> DEFINE alone == {i \in DOMAIN as : of(i) = {}}
  <2>1. \A i \in alone : i \in 1 .. N /\ i \notin used
    BY <1>2
  <2> HIDE DEF alone
  <2>2. ASSUME NEW x \in alone, NEW y \in alone PROVE x = y
    <3>1. x \in 1 .. N /\ y \in 1 .. N /\ x \notin used /\ y \notin used
      BY <2>1
    <3>2. ~(x < y) /\ ~(y < x)
      BY <1>1, <3>1 DEF Paired
    <3> QED
      BY <3>1, <3>2
  <2>3. Cardinality(alone) <= 1
    BY <2>2, AtMostOne
  <2> QED
    BY <2>3 DEF alone
<1>4. ASSUME NEW i \in DOMAIN as, Cardinality(of(i)) > 1, NEW g \in of(i)
      PROVE  gs[g].kind = "causal" /\ gs[g].members[1] = i
  <2>1. PICK h \in of(i) : h # g
    <3> HIDE DEF of
    <3> QED
      BY <1>4, MoreThanOne
  <2>2. Shareable(i, gs[g], gs[h]) /\ In(i, gs[g]) /\ In(i, gs[h])
    BY <1>2, <2>1
  <2> QED
    BY <2>2 DEF Shareable
<1>5. ASSUME NEW g \in DOMAIN gs
      PROVE  LET members == gs[g].members
                 first == as[members[1]]
                 others == {as[members[k]] : k \in 2 .. Len(members)}
             IN /\ others # {}
                /\ gs[g].kind = "causal" =>
                     \A d \in others : {<<first.category, d.category>>, <<d.category, first.category>>}
                                         \cap CausalPatterns # {}
                /\ gs[g].kind = "compound" =>
                     \A d \in others : d.target = first.target /\ d.category # first.category
  <2> DEFINE members == gs[g].members
             M == Len(members)
             a(k) == as[members[k]]
             d(k) == ds[members[k]]
             others == {as[members[k]] : k \in 2 .. Len(members)}
  <2>1. members \in Seq(1 .. N) /\ M \in Nat /\ gs[g] \in GroupsOf(ds)
    <3>1. gs[g] \in GroupsOf(ds)
      BY <1>2
    <3> QED
      BY <3>1 DEF GroupsOf
  <2>2. M >= 2 /\ \A k \in 2 .. M : Related(gs[g].kind, d(1), d(k))
    BY <1>2 DEF Linked
  <2>3. \A k \in 1 .. M : a(k).target = d(k).target /\ a(k).category = d(k).category
    <3>1. \A k \in 1 .. M : members[k] \in 1 .. N
      BY <2>1
    <3> QED
      BY <3>1
  <2>4. 1 \in 1 .. M /\ 2 \in 2 .. M /\ \A k \in 2 .. M : k \in 1 .. M
    BY <2>1, <2>2
  <2>5. others # {}
    BY <2>4
  <2>6. \A x \in others : \E k \in 2 .. M : x = a(k)
    OBVIOUS
  <2>7. ASSUME gs[g].kind = "causal", NEW k \in 2 .. M
        PROVE  {<<a(1).category, a(k).category>>, <<a(k).category, a(1).category>>} \cap CausalPatterns # {}
    <3>1. Causal(d(1), d(k))
      BY <2>2, <2>7 DEF Related
    <3>2. <<d(1).category, d(k).category>> \in CausalPatterns \/ <<d(k).category, d(1).category>> \in CausalPatterns
      BY <3>1 DEF Causal
    <3>3. a(1).category = d(1).category /\ a(k).category = d(k).category
      BY <2>3, <2>4
    <3> HIDE DEF a, d
    <3> QED
      BY <3>2, <3>3
  <2>8. ASSUME gs[g].kind = "compound", NEW k \in 2 .. M
        PROVE  a(k).target = a(1).target /\ a(k).category # a(1).category
    <3>1. Compound(d(1), d(k))
      BY <2>2, <2>8 DEF Related
    <3>2. d(1).target = d(k).target /\ d(1).category # d(k).category
      BY <3>1 DEF Compound
    <3>3. /\ a(1).category = d(1).category /\ a(k).category = d(k).category
          /\ a(1).target = d(1).target /\ a(k).target = d(k).target
      BY <2>3, <2>4
    <3> QED
      BY <3>2, <3>3
  <2> HIDE DEF others
  <2>9. gs[g].kind = "causal" =>
          \A x \in others : {<<a(1).category, x.category>>, <<x.category, a(1).category>>} \cap CausalPatterns # {}
    BY <2>6, <2>7
  <2>10. ASSUME gs[g].kind = "compound", NEW x \in others
         PROVE  x.target = a(1).target /\ x.category # a(1).category
    <3>1. PICK k \in 2 .. M : x = a(k)
      BY <2>6
    <3>2. a(k).target = a(1).target /\ a(k).category # a(1).category
      BY <2>8, <2>10
    <3> QED
      BY <3>1, <3>2, Zenon
  <2> QED
    BY <2>5, <2>9, <2>10 DEF others
<1>6. AccountsFor(as, gs)
    BY <1>3, <1>4, <1>5 DEF AccountsFor
<1> QED
    BY <1>6 DEF gs
-----------------------------------------------------------------------------
(* Sums and sequences of sequences.                                        *)

Sums(m, xs) == m = [i \in 0 .. Len(xs) |-> IF i = 0 THEN 0 ELSE m[i - 1] + xs[i]]

\* m holds the sums of the first elements, up to that of all n.
SumsUp(m, xs, n) ==
  /\ m \in [0 .. n -> Int] /\ m[0] = 0 /\ Total(xs) = m[n]
  /\ \A k \in 1 .. n : m[k] = m[k - 1] + xs[k]

LEMMA TotalLoop ==
  ASSUME NEW xs \in Seq(Int), NEW n, n = Len(xs)
  PROVE  \E m : SumsUp(m, xs, n)
<1> DEFINE Q == Int
           Step == [qk \in Q \X (1 .. n) |-> qk[1] + xs[qk[2]]]
<1>1. n \in Nat /\ 0 \in Q /\ \A k \in 1 .. n : xs[k] \in Int
    OBVIOUS
<1>2. Step \in [Q \X (1 .. n) -> Q]
    BY <1>1
<1>3. \A q \in Q, k \in 1 .. n : Step[<<q, k>>] = q + xs[k]
    OBVIOUS
<1>4. Total(xs) = (CHOOSE m : Sums(m, xs))[n]
    BY DEF Total, Sums
<1> HIDE DEF Step, Q
<1>5. PICK l \in [0 .. n -> Q] : Loop(l, 0, Step, n)
    BY <1>1, <1>2, LoopExists
<1>6. ASSUME NEW k \in 0 .. n PROVE l[k] = IF k = 0 THEN 0 ELSE l[k - 1] + xs[k]
  <2>1. CASE k = 0
    BY <1>5, <2>1 DEF Loop
  <2>2. CASE k \in 1 .. n
    <3>1. l[k - 1] \in Q
      <4>1. k - 1 \in 0 .. n
        BY <2>2
      <4> QED
        BY <1>5, <4>1
    <3> QED
      BY <1>3, <1>5, <2>2, <3>1 DEF Loop
  <2> QED
    BY <2>1, <2>2
<1>7. Sums(l, xs)
    BY <1>5, <1>6 DEF Sums
<1>8. PICK m : Sums(m, xs) /\ Total(xs) = m[n]
    BY <1>4, <1>7
<1>9. m[0] = 0 /\ \A k \in 1 .. n : m[k] = m[k - 1] + xs[k]
  <2>1. m = [i \in 0 .. n |-> IF i = 0 THEN 0 ELSE m[i - 1] + xs[i]]
    BY <1>8 DEF Sums
  <2>2. 0 \in 0 .. n /\ \A i \in 1 .. n : i \in 0 .. n /\ i # 0
    BY <1>1
  <2>3. m[0] = 0
    BY <2>1, <2>2, Zenon
  <2>4. \A i \in 1 .. n : m[i] = m[i - 1] + xs[i]
    BY <2>1, <2>2, Zenon
  <2> QED
    BY <2>3, <2>4
<1> DEFINE P == {k \in Nat : k <= n => m[k] \in Int}
<1>10. 0 \in P
    BY <1>9
<1>11. ASSUME NEW k \in Nat, k < n, k \in P PROVE k + 1 \in P
  <2>1. k + 1 \in 1 .. n /\ k + 1 - 1 = k /\ m[k] \in Int
    BY <1>1, <1>11
  <2>2. m[k + 1] = m[k] + xs[k + 1]
    BY <1>9, <2>1
  <2> QED
    BY <1>1, <2>1, <2>2
<1> HIDE DEF P
<1>12. 0 .. n \subseteq P
    BY <1>1, <1>10, <1>11, UpTo
<1>13. \A k \in 0 .. n : m[k] \in Int
    BY <1>1, <1>12 DEF P
<1>14. m \in [0 .. n -> Int]
  <2>1. m = [k \in 0 .. n |-> m[k]]
    BY <1>8 DEF Sums
  <2> QED
    BY <1>13, <2>1
<1> QED
    BY <1>8, <1>9, <1>14 DEF SumsUp

LEMMA TotalIsInt ==
  ASSUME NEW xs \in Seq(Int)
  PROVE  Total(xs) \in Int
<1>1. PICK m : SumsUp(m, xs, Len(xs))
    BY TotalLoop
<1>2. Len(xs) \in 0 .. Len(xs)
    OBVIOUS
<1> QED
    BY <1>1, <1>2 DEF SumsUp

Flattens(m, seqs) == m = [i \in 1 .. Len(seqs) |-> IF i = 1 THEN seqs[i] ELSE m[i - 1] \o seqs[i]]

LEMMA FlattenSeqType ==
  ASSUME NEW S, NEW seqs \in Seq(Seq(S))
  PROVE  FlattenSeq(seqs) \in Seq(S)
<1> DEFINE n == Len(seqs)
<1>1. n \in Nat /\ \A k \in 1 .. n : seqs[k] \in Seq(S)
    OBVIOUS
<1>2. CASE n = 0
  <2>1. FlattenSeq(seqs) = seqs
    BY <1>2 DEF FlattenSeq
  <2>2. seqs = <<>>
    BY <1>2
  <2> QED
    BY <2>1, <2>2
<1>3. CASE n # 0
  <2> DEFINE N == n - 1
             Q == Seq(S)
             Step == [qk \in Q \X (1 .. N) |-> qk[1] \o seqs[qk[2] + 1]]
  <2>1. N \in Nat /\ \A k \in 1 .. N : k + 1 \in 1 .. n
    BY <1>1, <1>3
  <2>2. \A q \in Q, k \in 1 .. N : q \o seqs[k + 1] \in Q
    BY <1>1, <2>1
  <2>3. Step \in [Q \X (1 .. N) -> Q]
    BY <2>2
  <2>4. \A q \in Q, k \in 1 .. N : Step[<<q, k>>] = q \o seqs[k + 1]
    OBVIOUS
  <2>5. 1 \in 1 .. n /\ seqs[1] \in Q
    BY <1>1, <1>3
  <2> HIDE DEF Step, Q, N
  <2>6. PICK l \in [0 .. N -> Q] : Loop(l, seqs[1], Step, N)
    BY <2>1, <2>3, <2>5, LoopExists
  <2> DEFINE m0 == [i \in 1 .. n |-> l[i - 1]]
  <2>7. ASSUME NEW i \in 1 .. n PROVE m0[i] = IF i = 1 THEN seqs[i] ELSE m0[i - 1] \o seqs[i]
    <3>1. CASE i = 1
      BY <2>6, <3>1 DEF Loop
    <3>2. CASE i # 1
      <4>1. i - 1 \in 1 .. N /\ i - 1 \in 1 .. n /\ i - 1 - 1 \in 0 .. N /\ i - 1 + 1 = i
        BY <1>1, <3>2 DEF N
      <4>2. m0[i] = l[i - 1] /\ m0[i - 1] = l[i - 1 - 1]
        BY <4>1
      <4>3. l[i - 1] = Step[<<l[i - 1 - 1], i - 1>>]
        BY <2>6, <4>1 DEF Loop
      <4>4. l[i - 1 - 1] \in Q
        BY <2>6, <4>1
      <4>5. l[i - 1] = l[i - 1 - 1] \o seqs[i]
        BY <2>4, <4>1, <4>3, <4>4
      <4> QED
        BY <3>2, <4>2, <4>5
    <3> QED
      BY <3>1, <3>2
  <2>8. Flattens(m0, seqs)
    BY <2>7 DEF Flattens
  <2> HIDE DEF m0
  <2>9. FlattenSeq(seqs) = (CHOOSE m : Flattens(m, seqs))[n]
    BY <1>3 DEF FlattenSeq, Flattens
  <2>10. PICK m : Flattens(m, seqs) /\ FlattenSeq(seqs) = m[n]
    BY <2>8, <2>9
  <2>11. \A i \in 1 .. n : m[i] = IF i = 1 THEN seqs[i] ELSE m[i - 1] \o seqs[i]
    <3>1. m = [i \in 1 .. n |-> IF i = 1 THEN seqs[i] ELSE m[i - 1] \o seqs[i]]
      BY <2>10 DEF Flattens
    <3> HIDE DEF n
    <3> QED
      BY <3>1, Zenon
  <2> DEFINE P == {k \in Nat : k <= N => m[k + 1] \in Q}
  <2>12. 0 \in P
    BY <2>5, <2>11
  <2>13. ASSUME NEW k \in Nat, k < N, k \in P PROVE k + 1 \in P
    <3>1. m[k + 1] \in Q /\ k + 1 + 1 \in 1 .. n /\ k + 1 + 1 # 1 /\ k + 1 + 1 - 1 = k + 1 /\ k + 1 \in 1 .. N
         /\ k + 1 \in Nat
      BY <1>1, <2>1, <2>13 DEF N
    <3>2. m[k + 1 + 1] = m[k + 1] \o seqs[k + 1 + 1]
      <4> DEFINE i == k + 1 + 1
      <4>1. i \in 1 .. n /\ i # 1 /\ i - 1 = k + 1
        BY <3>1
      <4> HIDE DEF i
      <4>2. m[i] = m[i - 1] \o seqs[i]
        BY <2>11, <4>1, Zenon
      <4> QED
        BY <4>1, <4>2 DEF i
    <3>3. m[k + 1] \o seqs[k + 1 + 1] \in Q
      BY <2>2, <3>1
    <3> QED
      BY <3>1, <3>2, <3>3
  <2> HIDE DEF P
  <2>14. 0 .. N \subseteq P
    BY <2>1, <2>12, <2>13, UpTo
  <2>15. N \in P /\ N + 1 = n
    <3>1. N \in 0 .. N /\ N + 1 = n
      BY <1>1, <2>1 DEF N
    <3> HIDE DEF N
    <3> QED
      BY <2>14, <3>1
  <2>16. m[n] \in Q
    BY <2>1, <2>15 DEF P
  <2> QED
    BY <2>10, <2>16 DEF Q
<1> QED
    BY <1>2, <1>3
-----------------------------------------------------------------------------
(* The store: what every way of pushing samples keeps of its series.       *)

Sample == [t : Nat, v : Int]

\* In the order of their times, none of them after now; a counter of
\* requests has no negative sample.
SeriesOk(s, now, metric) ==
  /\ s \in Seq(Sample)
  /\ \A j, k \in DOMAIN s : j < k => s[j].t <= s[k].t
  /\ \A k \in DOMAIN s : s[k].t <= now
  /\ metric = Counter => \A k \in DOMAIN s : s[k].v >= 0

SeriesKey(key) == key = <<key[1], key[2]>> /\ key[1] \in 0 .. LastPid

StoreOk(st, now) == \A key \in DOMAIN st : SeriesKey(key) /\ SeriesOk(st[key], now, key[2])

\* The values that a push brings.
ValuesOk(values) ==
  \A key \in DOMAIN values :
    SeriesKey(key) /\ values[key] \in Int /\ (key[2] = Counter => values[key] >= 0)

LEMMA WithoutFirst ==
  ASSUME NEW T, NEW s \in Seq(T), s # <<>>
  PROVE  /\ Len(s) \in Nat /\ Len(s) >= 1
         /\ Tail(s) \in Seq(T) /\ Len(Tail(s)) = Len(s) - 1 /\ DOMAIN Tail(s) = 1 .. Len(s) - 1
         /\ \A k \in 1 .. Len(s) - 1 : Tail(s)[k] = s[k + 1]
OBVIOUS

LEMMA TimesAreNumbers ==
  ASSUME NEW s \in Seq(Sample)
  PROVE  \A k \in DOMAIN s : s[k] \in Sample /\ s[k].t \in Nat /\ s[k].v \in Int
<1>1. \A k \in DOMAIN s : s[k] \in Sample
    OBVIOUS
<1> QED
    BY <1>1 DEF Sample

LEMMA PushSampleOk ==
  ASSUME NEW now \in Nat, NEW t \in Nat, now <= t, NEW metric, NEW s, SeriesOk(s, now, metric),
         NEW v \in Int, metric = Counter => v >= 0
  PROVE  SeriesOk(PushSample(s, [t |-> t, v |-> v], Capacity), t, metric)
<1> DEFINE x == [t |-> t, v |-> v]
           kept == IF Len(s) >= Capacity /\ s # <<>> THEN Tail(s) ELSE s
           K == Len(kept)
           out == Append(kept, x)
<1>1. x \in Sample /\ x.t = t /\ x.v = v
    BY DEF Sample
<1> HIDE DEF x
<1>2. s \in Seq(Sample) /\ Len(s) \in Nat /\ DOMAIN s = 1 .. Len(s)
    BY DEF SeriesOk
<1>3. /\ kept \in Seq(Sample) /\ K \in Nat /\ DOMAIN kept = 1 .. K
      /\ \/ \A k \in 1 .. K : kept[k] = s[k] /\ k \in DOMAIN s
         \/ \A k \in 1 .. K : kept[k] = s[k + 1] /\ k + 1 \in DOMAIN s
  <2>1. CASE kept = s
    BY <1>2, <2>1
  <2>2. CASE kept # s
    <3>1. kept = Tail(s) /\ s # <<>>
      BY <2>2
    <3>2. Len(s) >= 1 /\ kept \in Seq(Sample) /\ K = Len(s) - 1 /\ DOMAIN kept = 1 .. K
          /\ \A k \in 1 .. K : kept[k] = s[k + 1]
      BY <1>2, <3>1, WithoutFirst
    <3> HIDE DEF kept, K
    <3>3. K \in Nat /\ \A k \in 1 .. K : k + 1 \in 1 .. Len(s)
      BY <1>2, <3>2
    <3> QED
      BY <1>2, <3>2, <3>3
  <2> QED
    BY <2>1, <2>2
<1> HIDE DEF kept
<1>4. /\ \A j, k \in 1 .. K : j < k => kept[j].t <= kept[k].t
      /\ \A k \in 1 .. K : kept[k].t <= now /\ kept[k].t \in Nat
      /\ metric = Counter => \A k \in 1 .. K : kept[k].v >= 0
  <2>1. \A k \in DOMAIN s : s[k].t \in Nat
    BY <1>2, TimesAreNumbers
  <2>2. CASE \A k \in 1 .. K : kept[k] = s[k] /\ k \in DOMAIN s
    BY <2>1, <2>2 DEF SeriesOk
  <2>3. CASE \A k \in 1 .. K : kept[k] = s[k + 1] /\ k + 1 \in DOMAIN s
    <3>1. \A j, k \in 1 .. K : j < k => j + 1 < k + 1
      BY <1>3
    <3> QED
      BY <2>1, <2>3, <3>1 DEF SeriesOk
  <2> QED
    BY <1>3, <2>2, <2>3
<1> HIDE DEF K
<1>5. /\ out \in Seq(Sample) /\ DOMAIN out = 1 .. K + 1 /\ out[K + 1] = x
      /\ \A k \in 1 .. K : out[k] = kept[k]
    BY <1>1, <1>3 DEF K
<1> HIDE DEF out
<1>6. \A k \in 1 .. K + 1 : k \in 1 .. K \/ k = K + 1
    BY <1>3
<1>7. \A j, k \in DOMAIN out : j < k => out[j].t <= out[k].t
  <2> SUFFICES ASSUME NEW j \in 1 .. K + 1, NEW k \in 1 .. K + 1, j < k PROVE out[j].t <= out[k].t
    BY <1>5
  <2>1. j \in 1 .. K
    BY <1>3
  <2>2. CASE k = K + 1
    <3>1. kept[j].t <= now /\ kept[j].t \in Nat
      BY <1>4, <2>1
    <3>2. out[j] = kept[j] /\ out[k] = x
      BY <1>5, <2>1, <2>2
    <3> QED
      BY <1>1, <3>1, <3>2
  <2>3. CASE k \in 1 .. K
    BY <1>4, <1>5, <2>1, <2>3
  <2> QED
    BY <1>6, <2>2, <2>3
<1>8. \A k \in DOMAIN out : out[k].t <= t
  <2> SUFFICES ASSUME NEW k \in 1 .. K + 1 PROVE out[k].t <= t
    BY <1>5
  <2>1. CASE k = K + 1
    BY <1>1, <1>5, <2>1
  <2>2. CASE k \in 1 .. K
    <3>1. kept[k].t <= now /\ kept[k].t \in Nat
      BY <1>4, <2>2
    <3> QED
      BY <1>5, <2>2, <3>1
  <2> QED
    BY <1>6, <2>1, <2>2
<1>9. metric = Counter => \A k \in DOMAIN out : out[k].v >= 0
    BY <1>1, <1>4, <1>5, <1>6
<1>10. SeriesOk(out, t, metric)
    BY <1>5, <1>7, <1>8, <1>9 DEF SeriesOk
<1> QED
    BY <1>10 DEF PushSample, out, kept, x

LEMMA NoSamplesOk ==
  ASSUME NEW now, NEW metric
  PROVE  SeriesOk(<<>>, now, metric)
<1>1. <<>> \in Seq(Sample) /\ DOMAIN <<>> = {}
    OBVIOUS
<1> QED
    BY <1>1 DEF SeriesOk

LEMMA LaterOk ==
  ASSUME NEW now \in Nat, NEW t \in Nat, now <= t, NEW s, NEW metric, SeriesOk(s, now, metric)
  PROVE  SeriesOk(s, t, metric)
<1>1. \A k \in DOMAIN s : s[k].t \in Nat
    BY TimesAreNumbers DEF SeriesOk
<1>2. \A k \in DOMAIN s : s[k].t <= t
    BY <1>1 DEF SeriesOk
<1> QED
    BY <1>2 DEF SeriesOk

LEMMA PushAllOk ==
  ASSUME NEW now \in Nat, NEW t \in Nat, now <= t, NEW st, StoreOk(st, now),
         NEW values, ValuesOk(values)
  PROVE  /\ StoreOk(PushAll(st, t, values), t)
         /\ DOMAIN PushAll(st, t, values) = DOMAIN st \cup DOMAIN values
<1> DEFINE out == PushAll(st, t, values)
<1>1. DOMAIN out = DOMAIN st \cup DOMAIN values
    BY DEF PushAll
<1>2. ASSUME NEW key \in DOMAIN st \cup DOMAIN values PROVE SeriesOk(out[key], t, key[2])
  <2>1. CASE key \notin DOMAIN values
    <3>1. out[key] = st[key] /\ key \in DOMAIN st
      BY <2>1 DEF PushAll
    <3> QED
      BY <3>1, LaterOk DEF StoreOk
  <2>2. CASE key \in DOMAIN values
    <3> DEFINE s == IF key \in DOMAIN st THEN st[key] ELSE <<>>
               v == values[key]
    <3>1. out[key] = PushSample(s, [t |-> t, v |-> v], Capacity)
      BY <2>2 DEF PushAll
    <3>2. SeriesOk(s, now, key[2])
      BY NoSamplesOk DEF StoreOk
    <3>3. v \in Int /\ (key[2] = Counter => v >= 0)
      BY <2>2 DEF ValuesOk
    <3> HIDE DEF s, v, out
    <3> QED
      BY <3>1, <3>2, <3>3, PushSampleOk
  <2> QED
    BY <2>1, <2>2
<1>3. \A key \in DOMAIN st \cup DOMAIN values : SeriesKey(key)
    BY DEF StoreOk, ValuesOk
<1> HIDE DEF out
<1>4. StoreOk(out, t)
    BY <1>1, <1>2, <1>3 DEF StoreOk
<1> QED
    BY <1>1, <1>4 DEF out

\* The samples of a remote source, all of one time.
RemoteSamples(now) ==
  {x \in [pid : 0 .. LastPid, metric : STRING, t : {now}, v : Int] : x.metric = Counter => x.v >= 0}

RemoteKeys == (0 .. LastPid) \X STRING

\* The stores with series of the keys K.
Stores(K, now) == {st \in UNION {[D -> Seq(Sample)] : D \in SUBSET K} : StoreOk(st, now)}

LEMMA StoreIn ==
  ASSUME NEW now, NEW st, StoreOk(st, now), st = [key \in DOMAIN st |-> st[key]],
         NEW K, DOMAIN st \subseteq K
  PROVE  st \in Stores(K, now)
<1> DEFINE D == DOMAIN st
<1>1. D \in SUBSET K /\ \A key \in D : st[key] \in Seq(Sample)
    BY DEF StoreOk, SeriesOk
<1>2. st \in [D -> Seq(Sample)]
    BY <1>1
<1> HIDE DEF D
<1>3. st \in UNION {[E -> Seq(Sample)] : E \in SUBSET K}
    BY <1>1, <1>2
<1> QED
    BY <1>3 DEF Stores

RemoteRound(st, x) == PushAll(st, x.t, [key \in {<<x.pid, x.metric>>} |-> x.v])

LEMMA PushAllIsFunction ==
  ASSUME NEW st, NEW t, NEW values
  PROVE  PushAll(st, t, values) = [key \in DOMAIN PushAll(st, t, values) |-> PushAll(st, t, values)[key]]
BY DEF PushAll

LEMMA RemoteRoundOk ==
  ASSUME NEW now \in Nat, NEW K, RemoteKeys \subseteq K, NEW st \in Stores(K, now),
         NEW x \in RemoteSamples(now)
  PROVE  RemoteRound(st, x) \in Stores(K, now)
<1> DEFINE values == [key \in {<<x.pid, x.metric>>} |-> x.v]
<1>1. x.pid \in 0 .. LastPid /\ x.metric \in STRING /\ x.t = now /\ x.v \in Int
      /\ (x.metric = Counter => x.v >= 0)
    BY DEF RemoteSamples
<1>2. DOMAIN values = {<<x.pid, x.metric>>} /\ values[<<x.pid, x.metric>>] = x.v
    OBVIOUS
<1>3. SeriesKey(<<x.pid, x.metric>>) /\ <<x.pid, x.metric>>[2] = x.metric /\ <<x.pid, x.metric>> \in K
    BY <1>1 DEF SeriesKey, RemoteKeys
<1> HIDE DEF values
<1>4. ValuesOk(values)
    BY <1>1, <1>2, <1>3 DEF ValuesOk
<1>5. StoreOk(st, now) /\ DOMAIN st \subseteq K
    BY DEF Stores
<1>6. StoreOk(PushAll(st, now, values), now) /\ DOMAIN PushAll(st, now, values) = DOMAIN st \cup DOMAIN values
  <2>1. now <= now
    OBVIOUS
  <2>2. StoreOk(PushAll(st, now, values), now)
    BY <1>4, <1>5, <2>1, PushAllOk
  <2> QED
    BY <2>2 DEF PushAll
<1>7. DOMAIN PushAll(st, now, values) \subseteq K
    BY <1>2, <1>3, <1>5, <1>6
<1> QED
    BY <1>1, <1>6, <1>7, StoreIn, PushAllIsFunction DEF RemoteRound, values

RemoteRounds(m, st, samples) ==
  m = [i \in 0 .. Len(samples) |-> IF i = 0 THEN st ELSE RemoteRound(m[i - 1], samples[i])]

LEMMA IngestRemoteOk ==
  ASSUME NEW now \in Nat, NEW st, StoreOk(st, now), st = [key \in DOMAIN st |-> st[key]],
         NEW samples \in Seq(RemoteSamples(now))
  PROVE  StoreOk(IngestRemote(st, samples), now)
<1> DEFINE N == Len(samples)
           K == DOMAIN st \cup RemoteKeys
           Q == Stores(K, now)
           Step == [qk \in Q \X (1 .. N) |-> RemoteRound(qk[1], samples[qk[2]])]
<1>1. N \in Nat /\ \A k \in 1 .. N : samples[k] \in RemoteSamples(now)
    OBVIOUS
<1>2. \A q \in Q, k \in 1 .. N : RemoteRound(q, samples[k]) \in Q
    BY <1>1, RemoteRoundOk
<1>3. Step \in [Q \X (1 .. N) -> Q]
    BY <1>2
<1>4. \A q \in Q, k \in 1 .. N : Step[<<q, k>>] = RemoteRound(q, samples[k])
    OBVIOUS
<1>5. IngestRemote(st, samples) = (CHOOSE m : RemoteRounds(m, st, samples))[N]
    BY DEF IngestRemote, RemoteRounds, RemoteRound
<1> HIDE DEF Step, Q
<1>6. st \in Q
    BY StoreIn DEF Q
<1>7. PICK l \in [0 .. N -> Q] : Loop(l, st, Step, N)
    BY <1>1, <1>3, <1>6, LoopExists
<1>8. ASSUME NEW k \in 0 .. N PROVE l[k] = IF k = 0 THEN st ELSE RemoteRound(l[k - 1], samples[k])
  <2>1. CASE k = 0
    BY <1>7, <2>1 DEF Loop
  <2>2. CASE k \in 1 .. N
    <3>1. l[k - 1] \in Q
      BY <1>7, <2>2
    <3> QED
      BY <1>4, <1>7, <2>2, <3>1 DEF Loop
  <2> QED
    BY <2>1, <2>2
<1>9. RemoteRounds(l, st, samples)
    BY <1>7, <1>8 DEF RemoteRounds
<1>10. PICK m : RemoteRounds(m, st, samples) /\ IngestRemote(st, samples) = m[N]
    BY <1>5, <1>9
<1>11. m[0] = st /\ \A i \in 1 .. N : m[i] = RemoteRound(m[i - 1], samples[i])
  <2>1. m = [i \in 0 .. N |-> IF i = 0 THEN st ELSE RemoteRound(m[i - 1], samples[i])]
    BY <1>10 DEF RemoteRounds
  <2>2. 0 \in 0 .. N /\ \A i \in 1 .. N : i \in 0 .. N /\ i # 0
    BY <1>1
  <2> HIDE DEF N
  <2>3. m[0] = st
    BY <2>1, <2>2, Zenon
  <2>4. \A i \in 1 .. N : m[i] = RemoteRound(m[i - 1], samples[i])
    BY <2>1, <2>2, Zenon
  <2> QED
    BY <2>3, <2>4
<1> DEFINE P == {k \in Nat : k <= N => m[k] \in Q}
<1>12. 0 \in P
    BY <1>6, <1>11
<1>13. ASSUME NEW k \in Nat, k < N, k \in P PROVE k + 1 \in P
  <2>1. m[k] \in Q /\ k + 1 \in 1 .. N /\ k + 1 - 1 = k
    BY <1>1, <1>13
  <2>2. m[k + 1] = RemoteRound(m[k], samples[k + 1])
    BY <1>11, <2>1
  <2> QED
    BY <1>2, <2>1, <2>2
<1> HIDE DEF P
<1>14. 0 .. N \subseteq P
    BY <1>1, <1>12, <1>13, UpTo
<1>15. m[N] \in Q
    BY <1>1, <1>14 DEF P
<1> QED
    BY <1>10, <1>15 DEF Q, Stores
-----------------------------------------------------------------------------
(* What a tick pushes.                                                     *)

GraphOk ==
  /\ DOMAIN graph \subseteq 1 .. LastPid
  /\ \A p \in DOMAIN graph : graph[p] \in [cpu : Int, mem : Int]

LEMMA NamedOk ==
  ASSUME NEW pid \in 0 .. LastPid, NEW values, Counter \notin DOMAIN values,
         \A metric \in DOMAIN values : values[metric] \in Int
  PROVE  ValuesOk(Named(pid, values))
<1> DEFINE out == Named(pid, values)
<1>1. DOMAIN out = {pid} \X (DOMAIN values) /\ \A key \in DOMAIN out : out[key] = values[key[2]]
    BY DEF Named
<1> HIDE DEF out
<1>2. \A key \in DOMAIN out : SeriesKey(key) /\ key[2] \in DOMAIN values
    BY <1>1 DEF SeriesKey
<1>3. ValuesOk(out)
    BY <1>1, <1>2 DEF ValuesOk
<1> QED
    BY <1>3 DEF out

LEMMA SumIsInt ==
  ASSUME GraphOk, LastPid \in Nat, NEW field \in {"cpu", "mem"}
  PROVE  Sum(field) \in Int
<1> DEFINE xs == [p \in 1 .. LastPid |-> IF p \in DOMAIN graph THEN graph[p][field] ELSE 0]
<1>1. \A p \in DOMAIN graph : graph[p][field] \in Int
    BY DEF GraphOk
<1>2. xs \in [1 .. LastPid -> Int]
    BY <1>1
<1> HIDE DEF xs
<1>3. xs \in Seq(Int)
    BY <1>2
<1>4. Total(xs) \in Int
    BY <1>3, TotalIsInt
<1> QED
    BY <1>4 DEF Sum, xs

LEMMA IngestWorldOk ==
  ASSUME GraphOk, LastPid \in Nat, NEW now \in Nat, NEW t \in Nat, now <= t, NEW st, StoreOk(st, now)
  PROVE  StoreOk(IngestWorld(st, t), t)
<1> DEFINE processes == [key \in (DOMAIN graph) \X {"cpu_percent", "mem_bytes"} |->
                           IF key[2] = "cpu_percent" THEN graph[key[1]].cpu ELSE graph[key[1]].mem]
           host == [total_cpu |-> Sum("cpu"), total_memory |-> Sum("mem"),
                    process_count |-> Cardinality(DOMAIN graph)]
<1>1. ValuesOk(processes)
  <2>1. DOMAIN processes = (DOMAIN graph) \X {"cpu_percent", "mem_bytes"}
    OBVIOUS
  <2>2. ASSUME NEW key \in DOMAIN processes
        PROVE  SeriesKey(key) /\ processes[key] \in Int /\ key[2] # Counter
    <3>1. key[1] \in DOMAIN graph /\ key[2] \in {"cpu_percent", "mem_bytes"} /\ key = <<key[1], key[2]>>
      BY <2>1, <2>2
    <3>2. key[1] \in 0 .. LastPid /\ graph[key[1]].cpu \in Int /\ graph[key[1]].mem \in Int
      BY <3>1 DEF GraphOk
    <3>3. SeriesKey(key)
      BY <3>1, <3>2 DEF SeriesKey
    <3> QED
      BY <3>1, <3>2, <3>3 DEF Counter
  <2> HIDE DEF processes
  <2> QED
    BY <2>2 DEF ValuesOk
<1> HIDE DEF processes
<1>2. StoreOk(PushAll(st, t, processes), t)
    BY <1>1, PushAllOk
<1>3. ValuesOk(Named(NoPid, host))
  <2>1. NoPid \in 0 .. LastPid
    BY DEF NoPid
  <2>2. Sum("cpu") \in Int /\ Sum("mem") \in Int
    BY SumIsInt
  <2>3. Cardinality(DOMAIN graph) \in Int
    <3>1. IsFiniteSet(1 .. LastPid)
      BY FS_Interval
    <3>2. IsFiniteSet(DOMAIN graph)
      BY <3>1, FS_Subset DEF GraphOk
    <3> QED
      BY <3>2, FS_CardinalityType
  <2>4. DOMAIN host = {"total_cpu", "total_memory", "process_count"}
    OBVIOUS
  <2>5. \A metric \in DOMAIN host : host[metric] \in Int
    BY <2>2, <2>3, <2>4
  <2> HIDE DEF host
  <2>6. Counter \notin DOMAIN host
    BY <2>4 DEF Counter
  <2> QED
    BY <2>1, <2>5, <2>6, NamedOk
<1> HIDE DEF host
<1>4. t <= t
    OBVIOUS
<1>5. StoreOk(PushAll(PushAll(st, t, processes), t, Named(NoPid, host)), t)
    BY <1>2, <1>3, <1>4, PushAllOk
<1> QED
    BY <1>5 DEF IngestWorld, processes, host

LEMMA CollectSamplesOk ==
  ASSUME NEW t \in Nat, NEW st, StoreOk(st, t), NEW machine \in Machines,
         NEW top, top \subseteq 1 .. LastPid, LastPid \in Nat, MachineAssumption
  PROVE  StoreOk(CollectSamples(st, t, machine, top), t)
<1> DEFINE host == HostProfile(machine.host)
           hosted == IF host = Missing THEN st ELSE PushAll(st, t, Named(NoPid, HostSamples(host)))
           profile(p) == ProcessProfile(machine.proc[p].dir)
           readable == {p \in top : profile(p) # Missing}
           sampled == UNION {{p} \X (DOMAIN ProfileSamples(profile(p))) : p \in readable}
           values == [key \in sampled |-> ProfileSamples(profile(key[1]))[key[2]]]
<1>1. t <= t
    OBVIOUS
<1>2. StoreOk(hosted, t)
  <2>1. CASE host = Missing
    BY <2>1
  <2>2. CASE host # Missing
    <3>1. \A metric \in DOMAIN HostSamples(host) : HostSamples(host)[metric] \in Int
      BY <2>2 DEF MachineAssumption
    <3>2. DOMAIN HostSamples(host) = {"loadavg_1", "loadavg_5", "loadavg_15", "mem_total", "mem_available",
                                      "swap_total", "swap_free"}
      BY DEF HostSamples
    <3>3. NoPid \in 0 .. LastPid
      BY DEF NoPid
    <3> HIDE DEF host
    <3> DEFINE samples == HostSamples(host)
    <3> HIDE DEF samples
    <3>5. Counter \notin DOMAIN samples
      BY <3>2 DEF Counter, samples
    <3>6. ValuesOk(Named(NoPid, samples))
      BY <3>1, <3>3, <3>5, NamedOk DEF samples
    <3>7. ValuesOk(Named(NoPid, HostSamples(host)))
      BY <3>6 DEF samples
    <3>8. StoreOk(PushAll(st, t, Named(NoPid, HostSamples(host))), t)
      BY <1>1, <3>7, PushAllOk
    <3> QED
      BY <2>2, <3>8
  <2> QED
    BY <2>1, <2>2
<1>3. ASSUME NEW key \in sampled
      PROVE  SeriesKey(key) /\ key[2] # Counter /\ values[key] \in Int
  <2>1. PICK p \in readable : key \in {p} \X (DOMAIN ProfileSamples(profile(p)))
    BY <1>3
  <2>2. key[1] = p /\ key[2] \in DOMAIN ProfileSamples(profile(p)) /\ key = <<p, key[2]>>
    BY <2>1
  <2>3. p \in 1 .. LastPid /\ profile(p) # Missing
    BY <2>1
  <2>4. \A metric \in DOMAIN ProfileSamples(profile(p)) : ProfileSamples(profile(p))[metric] \in Int
    BY <2>3 DEF MachineAssumption
  <2>5. DOMAIN ProfileSamples(profile(p)) \subseteq {"threads", "open_fds", "io_read_bytes", "io_write_bytes"}
    BY DEF ProfileSamples
  <2>6. values[key] = ProfileSamples(profile(p))[key[2]]
    BY <1>3, <2>2
  <2> HIDE DEF profile, values
  <2>7. key[2] # Counter
    BY <2>2, <2>5 DEF Counter
  <2>8. p \in 0 .. LastPid
    BY <2>3
  <2> QED
    BY <2>2, <2>4, <2>6, <2>7, <2>8 DEF SeriesKey
<1>4. DOMAIN values = sampled
    OBVIOUS
<1> HIDE DEF values, sampled, hosted
<1>5. ValuesOk(values)
    BY <1>3, <1>4 DEF ValuesOk
<1>6. StoreOk(PushAll(hosted, t, values), t)
    BY <1>1, <1>2, <1>5, PushAllOk
<1> QED
    BY <1>6 DEF CollectSamples, values, sampled, hosted
-----------------------------------------------------------------------------
(* The analyzers' arithmetic.                                              *)

\* The sum of the products of the deviations, from all pairs or from sums.
LEMMA ComomentIsOverPairs ==
  ASSUME NEW xs \in Seq(Int), NEW ys \in Seq(Int), Len(ys) = Len(xs)
  PROVE  Comoment(xs, ys) = OverPairs(xs, ys)
<1> DEFINE n == Len(xs)
           products == Products(xs, ys)
           inner(j) == [i \in 1 .. j - 1 |-> (xs[j] - xs[i]) * (ys[j] - ys[i])]
           outer == [j \in DOMAIN xs |-> Total(inner(j))]
<1>1. n \in Nat /\ DOMAIN xs = 1 .. n /\ \A k \in 1 .. n : xs[k] \in Int /\ ys[k] \in Int
    OBVIOUS
<1>2. products \in Seq(Int) /\ Len(products) = n /\ \A k \in 1 .. n : products[k] = xs[k] * ys[k]
  <2>1. products = [k \in 1 .. n |-> xs[k] * ys[k]]
    BY <1>1 DEF Products
  <2>2. \A k \in 1 .. n : xs[k] * ys[k] \in Int
    BY <1>1
  <2> HIDE DEF products, n
  <2> QED
    BY <1>1, <2>1, <2>2
<1>3. ASSUME NEW j \in 1 .. n
      PROVE  /\ inner(j) \in Seq(Int) /\ Len(inner(j)) = j - 1
             /\ \A i \in 1 .. j - 1 : inner(j)[i] = (xs[j] - xs[i]) * (ys[j] - ys[i])
  <2>1. \A i \in 1 .. j - 1 : (xs[j] - xs[i]) * (ys[j] - ys[i]) \in Int
    <3> TAKE i \in 1 .. j - 1
    <3>1. i \in 1 .. n
      BY <1>1
    <3> DEFINE u == xs[j] - xs[i]
               v == ys[j] - ys[i]
    <3>2. u \in Int /\ v \in Int
      BY <1>1, <3>1
    <3> HIDE DEF u, v
    <3>3. u * v \in Int
      BY <3>2
    <3> QED
      BY <3>3 DEF u, v
  <2>2. j - 1 \in Nat
    BY <1>1
  <2> HIDE DEF n
  <2> QED
    BY <2>1, <2>2
<1> HIDE DEF products, inner
<1>4. outer \in Seq(Int) /\ Len(outer) = n /\ \A j \in 1 .. n : outer[j] = Total(inner(j))
  <2>1. \A j \in 1 .. n : Total(inner(j)) \in Int
    BY <1>3, TotalIsInt
  <2> HIDE DEF n
  <2> QED
    BY <1>1, <2>1
<1>5. Comoment(xs, ys) = n * Total(products) - Total(xs) * Total(ys)
    BY DEF Comoment, products
<1>6. OverPairs(xs, ys) = Total(outer)
    BY DEF OverPairs, inner
<1> HIDE DEF outer
<1>7. n = Len(xs) /\ n = Len(ys)
    OBVIOUS
<1>8. n = Len(products) /\ n = Len(outer)
    BY <1>2, <1>4
<1> HIDE DEF n
<1>9. PICK X : SumsUp(X, xs, n)
    BY <1>7, TotalLoop
<1>10. PICK Y : SumsUp(Y, ys, n)
    BY <1>7, TotalLoop
<1>11. PICK Z : SumsUp(Z, products, n)
    BY <1>2, <1>8, TotalLoop
<1>12. PICK D : SumsUp(D, outer, n)
    BY <1>4, <1>8, TotalLoop
<1>13. X \in [0 .. n -> Int] /\ Total(xs) = X[n] /\ X[0] = 0 /\ \A k \in 1 .. n : X[k] = X[k - 1] + xs[k]
    BY <1>9 DEF SumsUp
<1>14. Y \in [0 .. n -> Int] /\ Total(ys) = Y[n] /\ Y[0] = 0 /\ \A k \in 1 .. n : Y[k] = Y[k - 1] + ys[k]
    BY <1>10 DEF SumsUp
<1>15. Z \in [0 .. n -> Int] /\ Total(products) = Z[n] /\ Z[0] = 0
      /\ \A k \in 1 .. n : Z[k] = Z[k - 1] + products[k]
    BY <1>11 DEF SumsUp
<1>16. D \in [0 .. n -> Int] /\ Total(outer) = D[n] /\ D[0] = 0
       /\ \A k \in 1 .. n : D[k] = D[k - 1] + outer[k]
    BY <1>12 DEF SumsUp
<1>17. ASSUME NEW j \in 1 .. n
       PROVE  outer[j] = (j - 1) * (xs[j] * ys[j]) - xs[j] * Y[j - 1] - ys[j] * X[j - 1] + Z[j - 1]
  <2> DEFINE N == j - 1
             x == xs[j]
             y == ys[j]
  <2>1. N \in Nat /\ N <= n /\ x \in Int /\ y \in Int
    BY <1>1
  <2>2. inner(j) \in Seq(Int) /\ N = Len(inner(j))
    BY <1>3
  <2>3. PICK W : SumsUp(W, inner(j), N)
    BY <2>2, TotalLoop
  <2>4. W \in [0 .. N -> Int] /\ Total(inner(j)) = W[N] /\ W[0] = 0
        /\ \A k \in 1 .. N : W[k] = W[k - 1] + inner(j)[k]
    BY <2>3 DEF SumsUp
  <2>5. \A k \in 1 .. N : inner(j)[k] = (x - xs[k]) * (y - ys[k])
    BY <1>3
  <2> HIDE DEF N, x, y
  <2> DEFINE P == {k \in Nat : k <= N => W[k] = k * (x * y) - x * Y[k] - y * X[k] + Z[k]}
  <2>6. 0 \in P
    BY <1>13, <1>14, <1>15, <2>1, <2>4
  <2>7. ASSUME NEW k \in Nat, k < N, k \in P PROVE k + 1 \in P
    <3> DEFINE a == xs[k + 1]
               b == ys[k + 1]
    <3>1. k + 1 \in 1 .. N /\ k + 1 \in 1 .. n /\ k \in 0 .. n /\ k + 1 - 1 = k /\ k \in Int
      <4> HIDE DEF P
      <4> QED
        BY <1>1, <2>1, <2>7
    <3>2. a \in Int /\ b \in Int /\ X[k] \in Int /\ Y[k] \in Int /\ Z[k] \in Int
      BY <1>1, <1>13, <1>14, <1>15, <3>1
    <3>3. W[k] = k * (x * y) - x * Y[k] - y * X[k] + Z[k]
      BY <2>1, <2>7
    <3>4. W[k + 1] = W[k] + (x - a) * (y - b)
      BY <2>4, <2>5, <3>1
    <3>5. X[k + 1] = X[k] + a /\ Y[k + 1] = Y[k] + b /\ Z[k + 1] = Z[k] + a * b
      <4>1. X[k + 1] = X[k + 1 - 1] + xs[k + 1] /\ Y[k + 1] = Y[k + 1 - 1] + ys[k + 1]
        BY <1>13, <1>14, <3>1
      <4>2. Z[k + 1] = Z[k + 1 - 1] + products[k + 1] /\ products[k + 1] = xs[k + 1] * ys[k + 1]
        BY <1>2, <1>15, <3>1
      <4> QED
        BY <3>1, <4>1, <4>2
    <3> HIDE DEF a, b
    <3>6. (k * (x * y) - x * Y[k] - y * X[k] + Z[k]) + (x - a) * (y - b)
            = (k + 1) * (x * y) - x * (Y[k] + b) - y * (X[k] + a) + (Z[k] + a * b)
      <4> DEFINE Xk == X[k]
                 Yk == Y[k]
                 Zk == Z[k]
      <4>1. Xk \in Int /\ Yk \in Int /\ Zk \in Int /\ k \in Int
        BY <3>1, <3>2
      <4> HIDE DEF Xk, Yk, Zk
      <4>2. (k * (x * y) - x * Yk - y * Xk + Zk) + (x - a) * (y - b)
              = (k + 1) * (x * y) - x * (Yk + b) - y * (Xk + a) + (Zk + a * b)
        BY <2>1, <3>2, <4>1
      <4> QED
        BY <4>2 DEF Xk, Yk, Zk
    <3>7. W[k + 1] = (k + 1) * (x * y) - x * Y[k + 1] - y * X[k + 1] + Z[k + 1]
      BY <3>3, <3>4, <3>5, <3>6, Zenon
    <3> QED
      BY <3>7
  <2> HIDE DEF P
  <2>8. 0 .. N \subseteq P
    BY <2>1, <2>6, <2>7, UpTo
  <2>9. W[N] = N * (x * y) - x * Y[N] - y * X[N] + Z[N]
    BY <2>1, <2>8 DEF P
  <2> QED
    BY <1>4, <2>4, <2>9 DEF N, x, y
<1> DEFINE P == {k \in Nat : k <= n => D[k] = k * Z[k] - X[k] * Y[k]}
<1>18. 0 \in P
    BY <1>13, <1>14, <1>15, <1>16
<1>19. ASSUME NEW k \in Nat, k < n, k \in P PROVE k + 1 \in P
  <2> DEFINE a == xs[k + 1]
             b == ys[k + 1]
  <2>1. k + 1 \in 1 .. n /\ k \in 0 .. n /\ k + 1 - 1 = k /\ k \in Int
    <3> HIDE DEF P
    <3> QED
      BY <1>1, <1>19
  <2>2. a \in Int /\ b \in Int /\ X[k] \in Int /\ Y[k] \in Int /\ Z[k] \in Int
    BY <1>1, <1>13, <1>14, <1>15, <2>1
  <2>3. D[k] = k * Z[k] - X[k] * Y[k]
    BY <1>1, <1>19
  <2>4. outer[k + 1] = k * (a * b) - a * Y[k] - b * X[k] + Z[k]
    BY <1>17, <2>1
  <2>5. D[k + 1] = D[k] + outer[k + 1]
    BY <1>16, <2>1
  <2>6. X[k + 1] = X[k] + a /\ Y[k + 1] = Y[k] + b /\ Z[k + 1] = Z[k] + a * b
    <3>1. X[k + 1] = X[k + 1 - 1] + xs[k + 1] /\ Y[k + 1] = Y[k + 1 - 1] + ys[k + 1]
      BY <1>13, <1>14, <2>1
    <3>2. Z[k + 1] = Z[k + 1 - 1] + products[k + 1] /\ products[k + 1] = xs[k + 1] * ys[k + 1]
      BY <1>2, <1>15, <2>1
    <3> QED
      BY <2>1, <3>1, <3>2
  <2> HIDE DEF a, b
  <2>7. (k * Z[k] - X[k] * Y[k]) + (k * (a * b) - a * Y[k] - b * X[k] + Z[k])
          = (k + 1) * (Z[k] + a * b) - (X[k] + a) * (Y[k] + b)
    <3> DEFINE Xk == X[k]
               Yk == Y[k]
               Zk == Z[k]
    <3>1. Xk \in Int /\ Yk \in Int /\ Zk \in Int /\ k \in Int /\ a \in Int /\ b \in Int
      BY <2>1, <2>2
    <3> HIDE DEF Xk, Yk, Zk
    <3>2. (k * Zk - Xk * Yk) + (k * (a * b) - a * Yk - b * Xk + Zk)
            = (k + 1) * (Zk + a * b) - (Xk + a) * (Yk + b)
      BY <3>1
    <3> QED
      BY <3>2 DEF Xk, Yk, Zk
  <2>8. D[k + 1] = (k + 1) * Z[k + 1] - X[k + 1] * Y[k + 1]
    BY <2>3, <2>4, <2>5, <2>6, <2>7, Zenon
  <2> QED
    BY <2>8
<1> HIDE DEF P
<1>20. 0 .. n \subseteq P
    BY <1>1, <1>18, <1>19, UpTo
<1>21. D[n] = n * Z[n] - X[n] * Y[n]
    BY <1>1, <1>20 DEF P
<1> QED
    BY <1>5, <1>6, <1>13, <1>14, <1>15, <1>16, <1>21

LEMMA SinceIs ==
  ASSUME NEW s \in Seq(Sample), NEW from \in Int
  PROVE  LET kept == Ascending(Len(s), {i \in DOMAIN s : s[i].t >= from})
         IN /\ Lists(kept, {i \in DOMAIN s : s[i].t >= from})
            /\ Since(s, from) \in Seq(Sample) /\ Len(Since(s, from)) = Len(kept)
            /\ \A k \in 1 .. Len(kept) : kept[k] \in DOMAIN s /\ s[kept[k]].t >= from
                                         /\ Since(s, from)[k] = s[kept[k]]
<1> DEFINE S == {i \in DOMAIN s : s[i].t >= from}
           kept == Ascending(Len(s), S)
           K == Len(kept)
           out == Since(s, from)
<1>1. Len(s) \in Nat /\ DOMAIN s = 1 .. Len(s)
    OBVIOUS
<1>2. (1 .. Len(s)) \cap S = S
    BY <1>1
<1>3. Lists(kept, S)
    BY <1>1, <1>2, AscendingIs
<1>4. out = [k \in DOMAIN kept |-> s[kept[k]]]
    BY DEF Since
<1> HIDE DEF kept, out
<1>5. K \in Nat /\ DOMAIN kept = 1 .. K /\ \A k \in 1 .. K : kept[k] \in S
    BY <1>3 DEF Lists, ToSet
<1>6. \A k \in 1 .. K : s[kept[k]] \in Sample
    BY <1>5
<1> HIDE DEF K
<1>7. out \in Seq(Sample) /\ Len(out) = K /\ \A k \in 1 .. K : out[k] = s[kept[k]]
    BY <1>4, <1>5, <1>6
<1> QED
    BY <1>3, <1>5, <1>7 DEF out, kept, K

LEMMA WindowType ==
  ASSUME NEW s \in Seq(Sample), NEW window \in Int
  PROVE  Window(s, window) \in Seq(Sample)
<1>1. CASE s = <<>>
    BY <1>1 DEF Window
<1>2. CASE s # <<>>
  <2>1. Len(s) \in DOMAIN s
    BY <1>2
  <2>2. s[Len(s)].t - window \in Int
    BY <2>1, TimesAreNumbers
  <2> DEFINE from == s[Len(s)].t - window
  <2>3. Window(s, window) = Since(s, from)
    BY <1>2 DEF Window
  <2> HIDE DEF from
  <2>4. Since(s, from) \in Seq(Sample)
    BY <2>2, SinceIs DEF from
  <2> QED
    BY <2>3, <2>4
<1> QED
    BY <1>1, <1>2

\* RegressionAgrees at one series.
LEMMA RegressionIsLeastSquares ==
  ASSUME NEW s \in Seq(Sample), NEW window \in Int
  PROVE  LET p == WindowedPoints(s, window)
             xx == OverPairs(p.x, p.x)
         IN LinearRegression(p) = IF xx = 0 THEN <<0, 1>> ELSE <<OverPairs(p.x, p.y), xx>>
<1> DEFINE w == Window(s, window)
           p == WindowedPoints(s, window)
           xs == [i \in DOMAIN w |-> SaturatingSub(w[i].t, w[1].t)]
           ys == Values(w)
           n == Len(w)
<1>1. w \in Seq(Sample)
    BY WindowType
<1>2. p.x = xs /\ p.y = ys
    BY DEF WindowedPoints
<1> HIDE DEF w, p
<1>3. n \in Nat /\ DOMAIN w = 1 .. n /\ \A i \in 1 .. n : w[i].t \in Nat /\ w[i].v \in Int
    BY <1>1, TimesAreNumbers
<1> HIDE DEF n
<1>4. xs \in Seq(Int) /\ Len(xs) = n
  <2>1. \A i \in 1 .. n : 1 \in 1 .. n /\ SaturatingSub(w[i].t, w[1].t) \in Int
    BY <1>3 DEF SaturatingSub
  <2> QED
    BY <1>3, <2>1
<1>5. ys \in Seq(Int) /\ Len(ys) = n
    BY <1>3 DEF Values
<1> HIDE DEF xs, ys
<1>6. Comoment(xs, ys) = OverPairs(xs, ys) /\ Comoment(xs, xs) = OverPairs(xs, xs)
    BY <1>4, <1>5, ComomentIsOverPairs
<1>7. n < 2 => Comoment(xs, xs) = 0
  <2> SUFFICES ASSUME n < 2 PROVE Comoment(xs, xs) = 0
    OBVIOUS
  <2> DEFINE zs == Products(xs, xs)
  <2>1. zs \in Seq(Int) /\ Len(zs) = n /\ \A k \in 1 .. n : zs[k] = xs[k] * xs[k]
    <3>1. \A k \in 1 .. n : xs[k] * xs[k] \in Int /\ DOMAIN xs = 1 .. n
      BY <1>4
    <3>2. zs = [k \in 1 .. n |-> xs[k] * xs[k]]
      BY <1>4 DEF Products
    <3> HIDE DEF zs
    <3> QED
      BY <1>3, <3>1, <3>2
  <2> HIDE DEF zs
  <2>2. PICK X : SumsUp(X, xs, n)
    BY <1>4, TotalLoop
  <2>3. PICK Z : SumsUp(Z, zs, n)
    BY <2>1, TotalLoop
  <2>4. Comoment(xs, xs) = n * Z[n] - X[n] * X[n]
    BY <1>4, <2>2, <2>3 DEF Comoment, zs, SumsUp
  <2>5. CASE n = 0
    BY <2>2, <2>3, <2>4, <2>5 DEF SumsUp
  <2>6. CASE n = 1
    <3>1. 1 \in 1 .. n /\ 1 - 1 = 0 /\ xs[1] \in Int
      <4>1. 1 \in 1 .. n /\ 1 - 1 = 0
        BY <2>6
      <4>2. \A k \in 1 .. n : xs[k] \in Int
        BY <1>4
      <4> QED
        BY <4>1, <4>2
    <3>2. X[1] = xs[1]
      BY <2>2, <3>1 DEF SumsUp
    <3>3. Z[1] = xs[1] * xs[1]
      BY <2>1, <2>3, <3>1 DEF SumsUp
    <3>4. xs[1] * xs[1] \in Int
      BY <3>1
    <3> QED
      BY <2>4, <2>6, <3>2, <3>3, <3>4
  <2> QED
    BY <1>3, <2>5, <2>6
<1>8. LinearRegression(p) = IF n < 2 \/ Comoment(xs, xs) = 0 THEN <<0, 1>>
                            ELSE <<Comoment(xs, ys), Comoment(xs, xs)>>
    BY <1>2, <1>4 DEF LinearRegression
<1> QED
    BY <1>2, <1>6, <1>7, <1>8 DEF p
-----------------------------------------------------------------------------
(* The change of the throughput.                                           *)

LEMMA TotalBounds ==
  ASSUME NEW xs \in Seq(Int), NEW n, n = Len(xs), NEW c \in Int
  PROVE  /\ (\A k \in 1 .. n : xs[k] <= c) => Total(xs) <= n * c
         /\ (\A k \in 1 .. n : xs[k] >= c) => Total(xs) >= n * c
<1>1. PICK m : SumsUp(m, xs, n)
    BY TotalLoop
<1>2. n \in Nat /\ \A k \in 1 .. n : xs[k] \in Int
    OBVIOUS
<1>3. m \in [0 .. n -> Int] /\ m[0] = 0 /\ Total(xs) = m[n] /\ \A k \in 1 .. n : m[k] = m[k - 1] + xs[k]
    BY <1>1 DEF SumsUp
<1> DEFINE P == {k \in Nat : k <= n => ((\A j \in 1 .. n : xs[j] <= c) => m[k] <= k * c)}
           R == {k \in Nat : k <= n => ((\A j \in 1 .. n : xs[j] >= c) => m[k] >= k * c)}
<1>4. 0 \in P /\ 0 \in R
    BY <1>3
<1>5. ASSUME NEW k \in Nat, k < n
      PROVE  /\ k + 1 \in 1 .. n /\ m[k + 1] = m[k] + xs[k + 1] /\ (k + 1) * c = k * c + c
             /\ k * c \in Int /\ m[k] \in Int /\ xs[k + 1] \in Int
  <2>1. k + 1 \in 1 .. n /\ k + 1 - 1 = k /\ k \in 0 .. n
    BY <1>2, <1>5
  <2> QED
    <3>1. m[k + 1] = m[k + 1 - 1] + xs[k + 1]
      BY <1>3, <2>1
    <3>2. m[k] \in Int /\ xs[k + 1] \in Int
      BY <1>2, <1>3, <2>1
    <3>3. k * c \in Int /\ (k + 1) * c = k * c + c
      OBVIOUS
    <3> QED
      BY <2>1, <3>1, <3>2, <3>3
<1>6. ASSUME NEW k \in Nat, k < n, k \in P PROVE k + 1 \in P
  <2> SUFFICES ASSUME \A j \in 1 .. n : xs[j] <= c PROVE m[k + 1] <= (k + 1) * c
    BY <1>6
  <2>1. m[k] <= k * c
    BY <1>2, <1>6
  <2> QED
    BY <1>5, <1>6, <2>1
<1>7. ASSUME NEW k \in Nat, k < n, k \in R PROVE k + 1 \in R
  <2> SUFFICES ASSUME \A j \in 1 .. n : xs[j] >= c PROVE m[k + 1] >= (k + 1) * c
    BY <1>7
  <2>1. m[k] >= k * c
    BY <1>2, <1>7
  <2> QED
    BY <1>5, <1>7, <2>1
<1> HIDE DEF P, R
<1>8. 0 .. n \subseteq P
    BY <1>2, <1>4, <1>6, UpTo
<1>9. 0 .. n \subseteq R
    BY <1>2, <1>4, <1>7, UpTo
<1>10. n \in P /\ n \in R
    BY <1>2, <1>8, <1>9
<1> QED
    BY <1>2, <1>3, <1>10 DEF P, R

\* What never decreases from one to the next does not decrease.
LEMMA StepByStep ==
  ASSUME NEW vs \in Seq(Int), \A k \in 1 .. Len(vs) - 1 : vs[k] <= vs[k + 1],
         NEW j \in 1 .. Len(vs), NEW k \in j .. Len(vs)
  PROVE  vs[j] <= vs[k]
<1> DEFINE N == Len(vs) - j
           P == {d \in Nat : d <= N => vs[j] <= vs[j + d]}
<1>1. N \in Nat /\ \A i \in 1 .. Len(vs) : vs[i] \in Int
    OBVIOUS
<1>2. 0 \in P
    BY <1>1
<1>3. ASSUME NEW d \in Nat, d < N, d \in P PROVE d + 1 \in P
  <2>1. j + d \in 1 .. Len(vs) - 1 /\ j + d + 1 = j + (d + 1) /\ j + d \in 1 .. Len(vs)
        /\ j + (d + 1) \in 1 .. Len(vs)
    BY <1>3
  <2>2. vs[j] <= vs[j + d]
    BY <1>1, <1>3
  <2>3. vs[j + d] <= vs[j + (d + 1)]
    BY <2>1
  <2>4. vs[j] <= vs[j + (d + 1)]
    BY <1>1, <2>1, <2>2, <2>3
  <2> QED
    BY <2>4
<1> HIDE DEF P
<1>4. 0 .. N \subseteq P
    BY <1>1, <1>2, <1>3, UpTo
<1>5. k - j \in P /\ k - j <= N /\ j + (k - j) = k
    BY <1>4
<1> HIDE DEF N
<1>6. vs[j] <= vs[j + (k - j)]
    BY <1>5 DEF P
<1> QED
    BY <1>5, <1>6

\* The average of the second half of what does not decrease is not below
\* that of the first half.
LEMMA HalvesGrow ==
  ASSUME NEW vs \in Seq(Int), \A k \in 1 .. Len(vs) - 1 : vs[k] <= vs[k + 1],
         NEW mid \in 1 .. Len(vs) - 1
  PROVE  LET first == Total(SubSeq(vs, 1, mid))
             second == Total(SubSeq(vs, mid + 1, Len(vs)))
         IN second * mid >= first * (Len(vs) - mid)
<1> DEFINE n == Len(vs)
           rest == n - mid
           low == SubSeq(vs, 1, mid)
           high == SubSeq(vs, mid + 1, n)
           c == vs[mid]
<1>1. n \in Nat /\ mid \in Nat /\ mid > 0 /\ rest \in Nat /\ rest > 0 /\ mid \in 1 .. n /\ c \in Int
    OBVIOUS
<1>2. low \in Seq(Int) /\ mid = Len(low) /\ \A k \in 1 .. mid : low[k] = vs[k]
    OBVIOUS
<1>3. high \in Seq(Int) /\ rest = Len(high) /\ \A k \in 1 .. rest : high[k] = vs[mid + k]
    OBVIOUS
<1>4. \A k \in 1 .. mid : vs[k] <= c
  <2> TAKE k \in 1 .. mid
  <2>1. k \in 1 .. Len(vs) /\ mid \in k .. Len(vs)
    OBVIOUS
  <2> QED
    BY <2>1, StepByStep
<1>5. \A k \in 1 .. rest : vs[mid + k] >= c
  <2> TAKE k \in 1 .. rest
  <2>1. mid + k \in mid .. Len(vs) /\ mid + k \in 1 .. Len(vs)
    OBVIOUS
  <2>2. vs[mid] <= vs[mid + k]
    BY <1>1, <2>1, StepByStep
  <2>3. vs[mid + k] \in Int
    BY <2>1
  <2> QED
    BY <1>1, <2>2, <2>3
<1> HIDE DEF low, high, c, rest, n
<1>6. Total(low) <= mid * c /\ Total(low) \in Int
    BY <1>1, <1>2, <1>4, TotalBounds, TotalIsInt
<1>7. Total(high) >= rest * c /\ Total(high) \in Int
    BY <1>1, <1>3, <1>5, TotalBounds, TotalIsInt
<1> DEFINE a == Total(low)
           b == Total(high)
           x == mid * c
           y == rest * c
<1>8. a \in Int /\ b \in Int /\ x \in Int /\ y \in Int /\ a <= x /\ b >= y
    BY <1>1, <1>6, <1>7
<1>9. x * rest = y * mid
    BY <1>1
<1> HIDE DEF a, b, x, y
<1>10. a * rest <= x * rest
    BY <1>1, <1>8
<1>11. b * mid >= y * mid
    BY <1>1, <1>8
<1>12. a * rest \in Int /\ b * mid \in Int /\ x * rest \in Int /\ y * mid \in Int
    BY <1>1, <1>8
<1>13. b * mid >= a * rest
    BY <1>9, <1>10, <1>11, <1>12
<1> QED
    BY <1>13 DEF a, b, low, high, rest, n

\* A fall by 30 percent is one of a counter that was reset within the window.
LEMMA DropIsReset ==
  ASSUME NEW now \in Nat, NEW s, SeriesOk(s, now, Counter),
         ChangePercent(s, now, 300) # None, LessEq(ChangePercent(s, now, 300), <<-30, 1>>)
  PROVE  \E k \in 1 .. Len(s) - 1 : s[k + 1].v < s[k].v /\ now - s[k].t <= 300
<1> DEFINE from == now - 300
           S == {i \in DOMAIN s : s[i].t >= from}
           kept == Ascending(Len(s), S)
           n == Len(kept)
           w == Since(s, from)
           vs == Values(w)
           mid == n \div 2
           first == Total(SubSeq(vs, 1, mid))
           second == Total(SubSeq(vs, mid + 1, n))
<1>1. s \in Seq(Sample) /\ from \in Int
    BY DEF SeriesOk
<1>2. /\ Lists(kept, S) /\ w \in Seq(Sample) /\ Len(w) = n
      /\ \A k \in 1 .. n : kept[k] \in DOMAIN s /\ s[kept[k]].t >= from /\ w[k] = s[kept[k]]
  <2> HIDE DEF from
  <2> QED
    BY <1>1, SinceIs
<1> HIDE DEF w
<1>3. n \in Nat /\ \A k \in 1 .. n : w[k].v \in Int /\ w[k].v >= 0
  <2>1. \A k \in DOMAIN s : s[k].v >= 0
    BY DEF SeriesOk
  <2>2. \A k \in DOMAIN s : s[k].v \in Int
    BY <1>1, TimesAreNumbers
  <2>3. n \in Nat
    BY <1>2 DEF Lists
  <2> HIDE DEF n, kept
  <2> QED
    BY <1>2, <2>1, <2>2, <2>3
<1>4. vs \in Seq(Int) /\ Len(vs) = n /\ \A k \in 1 .. n : vs[k] = w[k].v
  <2>1. DOMAIN w = 1 .. n
    BY <1>2
  <2> HIDE DEF n, kept
  <2> QED
    BY <1>3, <2>1 DEF Values
<1> HIDE DEF kept, vs, n
<1>5. ChangePercent(s, now, 300) =
        IF n < 2 \/ first = 0 THEN None
        ELSE Frac(100 * (second * mid - first * (n - mid)), first * (n - mid))
  <2> DEFINE m == Len(vs)
             half == m \div 2
             one == Total(SubSeq(vs, 1, half))
             two == Total(SubSeq(vs, half + 1, m))
  <2>1. ChangePercent(s, now, 300) =
          IF m < 2 \/ one = 0 THEN None ELSE Frac(100 * (two * half - one * (m - half)), one * (m - half))
    BY DEF ChangePercent, vs, w
  <2>2. m = n
    BY <1>4
  <2>3. half = mid /\ one = first /\ two = second
    BY <2>2
  <2> HIDE DEF m, half, one, two, mid, first, second
  <2> QED
    BY <2>1, <2>2, <2>3
<1>6. n >= 2 /\ first # 0
    BY <1>3, <1>5
<1>7. mid \in Nat /\ mid \in 1 .. n - 1 /\ n - mid \in Nat /\ n - mid > 0
    BY <1>3, <1>6
<1> HIDE DEF mid
<1>8. first \in Int /\ second \in Int /\ first >= 0
  <2> DEFINE low == SubSeq(vs, 1, mid)
             high == SubSeq(vs, mid + 1, n)
  <2>1. low \in Seq(Int) /\ mid = Len(low) /\ \A k \in 1 .. mid : low[k] = vs[k]
    BY <1>3, <1>4, <1>7
  <2>2. high \in Seq(Int)
    BY <1>3, <1>4, <1>7
  <2>3. \A k \in 1 .. mid : low[k] >= 0
    <3> TAKE k \in 1 .. mid
    <3>1. k \in 1 .. n
      BY <1>3, <1>7
    <3>2. low[k] = w[k].v
      BY <1>4, <2>1, <3>1
    <3> QED
      BY <1>3, <3>1, <3>2
  <2> HIDE DEF low, high
  <2>4. Total(low) \in Int /\ Total(high) \in Int
    BY <2>1, <2>2, TotalIsInt
  <2>5. 0 \in Int /\ mid * 0 = 0
    BY <1>7
  <2>6. Total(low) >= mid * 0
    BY <2>1, <2>3, <2>5, TotalBounds, Zenon
  <2> QED
    BY <2>4, <2>5, <2>6 DEF low, high
<1> DEFINE before == first * (n - mid)
           after == second * mid
<1>9. before \in Int /\ after \in Int /\ before > 0
    BY <1>6, <1>7, <1>8
<1> HIDE DEF first, second
<1>10. ChangePercent(s, now, 300) = Frac(100 * (after - before), before)
    BY <1>5, <1>6
<1> HIDE DEF before, after
<1>11. ChangePercent(s, now, 300) = <<100 * (after - before), before>>
    BY <1>9, <1>10 DEF Frac
<1>12. 100 * (after - before) <= (-30) * before
  <2> DEFINE num == 100 * (after - before)
  <2>1. num \in Int
    BY <1>9
  <2> HIDE DEF num
  <2>2. LessEq(<<num, before>>, <<-30, 1>>)
    BY <1>11 DEF num
  <2>3. num * 1 <= (-30) * before
    BY <2>2 DEF LessEq
  <2> QED
    BY <1>9, <2>1, <2>3 DEF num
<1>13. after < before
    BY <1>9, <1>12
<1>14. ~ \A k \in 1 .. Len(vs) - 1 : vs[k] <= vs[k + 1]
  <2> SUFFICES ASSUME \A k \in 1 .. Len(vs) - 1 : vs[k] <= vs[k + 1] PROVE FALSE
    OBVIOUS
  <2>1. mid \in 1 .. Len(vs) - 1
    BY <1>4, <1>7
  <2>2. Total(SubSeq(vs, mid + 1, Len(vs))) * mid >= Total(SubSeq(vs, 1, mid)) * (Len(vs) - mid)
    BY <1>4, <2>1, HalvesGrow
  <2>3. after >= before
    BY <1>4, <2>2 DEF after, before, first, second
  <2> QED
    BY <1>9, <1>13, <2>3
<1>15. PICK k \in 1 .. n - 1 : vs[k + 1] < vs[k]
  <2>1. PICK k \in 1 .. n - 1 : ~(vs[k] <= vs[k + 1])
    BY <1>4, <1>14
  <2>2. k \in 1 .. n /\ k + 1 \in 1 .. n
    BY <1>3
  <2>3. vs[k] \in Int /\ vs[k + 1] \in Int
    BY <1>3, <1>4, <2>2
  <2> QED
    BY <2>1, <2>3
<1>16. kept[k + 1] = kept[k] + 1 /\ kept[k] \in 1 .. Len(s) - 1
  <2>1. k \in 1 .. n /\ k + 1 \in 1 .. n /\ k < k + 1
    BY <1>3
  <2>2. DOMAIN kept = 1 .. n /\ ToSet(kept) = S /\ \A i, j \in 1 .. n : i < j => kept[i] < kept[j]
    <3>1. kept \in Seq(Nat) /\ ToSet(kept) = S /\ \A i, j \in DOMAIN kept : i < j => kept[i] < kept[j]
      BY <1>2 DEF Lists
    <3>2. DOMAIN kept = 1 .. n
      BY <3>1 DEF n
    <3> QED
      BY <3>1, <3>2
  <2> DEFINE a == kept[k]
             b == kept[k + 1]
  <2>3. a \in S /\ b \in S /\ a < b
    BY <1>2, <2>1, <2>2
  <2>4. a \in 1 .. Len(s) /\ b \in 1 .. Len(s) /\ Len(s) \in Nat /\ DOMAIN s = 1 .. Len(s)
    <3>1. DOMAIN s = 1 .. Len(s) /\ Len(s) \in Nat
      BY <1>1
    <3> HIDE DEF a, b
    <3> QED
      BY <2>3, <3>1
  <2>5. a + 1 \in S
    <3>1. a + 1 \in 1 .. Len(s) /\ a < a + 1
      <4>1. a \in Int /\ b \in Int
        BY <2>4
      <4> HIDE DEF a, b, S
      <4> QED
        BY <2>3, <2>4, <4>1
    <3>2. s[a].t <= s[a + 1].t
      BY <2>4, <3>1 DEF SeriesOk
    <3>3. s[a].t >= from /\ s[a].t \in Nat /\ s[a + 1].t \in Nat
      BY <1>1, <2>3, <2>4, <3>1, TimesAreNumbers
    <3> HIDE DEF a, from
    <3> QED
      BY <1>1, <2>4, <3>1, <3>2, <3>3
  <2>6. PICK m \in 1 .. n : kept[m] = a + 1
    BY <2>2, <2>5 DEF ToSet
  <2>7. m >= k + 1
    <3>1. CASE m < k
      BY <2>1, <2>2, <2>4, <2>6, <3>1
    <3>2. CASE m = k
      BY <2>4, <2>6, <3>2
    <3> QED
      BY <1>3, <3>1, <3>2
  <2>8. b <= a + 1
    <3>1. CASE m = k + 1
      BY <2>4, <2>6, <3>1
    <3>2. CASE m > k + 1
      BY <2>1, <2>2, <2>4, <2>6, <3>2
    <3> QED
      BY <2>7, <3>1, <3>2
  <2> QED
    <3>1. a \in Int /\ b \in Int
      BY <2>4
    <3>2. a < b /\ b <= a + 1
      BY <2>3, <2>8
    <3>3. b = a + 1
      <4> HIDE DEF a, b
      <4> QED
        BY <3>1, <3>2
    <3>4. a \in 1 .. Len(s) - 1
      <4> HIDE DEF a, b
      <4> QED
        BY <2>4, <3>3
    <3> QED
      BY <3>3, <3>4
<1>17. k \in 1 .. n /\ k + 1 \in 1 .. n
    BY <1>3
<1>18. vs[k] = s[kept[k]].v /\ vs[k + 1] = s[kept[k] + 1].v /\ s[kept[k]].t >= from
  <2>1. vs[k] = w[k].v /\ vs[k + 1] = w[k + 1].v
    BY <1>4, <1>17
  <2>2. w[k] = s[kept[k]] /\ w[k + 1] = s[kept[k + 1]] /\ s[kept[k]].t >= from
    BY <1>2, <1>17
  <2> QED
    BY <1>16, <2>1, <2>2
<1>19. s[kept[k]].t \in Nat
    BY <1>1, <1>2, <1>17, TimesAreNumbers
<1>20. s[kept[k] + 1].v < s[kept[k]].v /\ now - s[kept[k]].t <= 300
    BY <1>15, <1>18, <1>19
<1> QED
    BY <1>16, <1>20
-----------------------------------------------------------------------------
(* The rules of the table.                                                 *)

\* Only the rule for a drop of the throughput has its name.
DropRuleIsIt(rule) == rule.id = "app_throughput_drop" => rule.condition = RateChange(Counter, 300, -30)

LEMMA CoreRules ==
  Core \in Seq(ToSet(Core)) /\ \A r \in DOMAIN Core : DropRuleIsIt(Core[r])
<1>1. DOMAIN Core = 1 .. 10 /\ Core \in Seq(ToSet(Core))
    BY DEF Core, ToSet
<1>2. \A r \in 1 .. 10 : Core[r].id # "app_throughput_drop"
    BY DEF Core, Rule
<1> QED
    BY <1>1, <1>2 DEF DropRuleIsIt

LEMMA ResourceRules ==
  Resources \in Seq(ToSet(Resources)) /\ \A r \in DOMAIN Resources : DropRuleIsIt(Resources[r])
<1>1. DOMAIN Resources = 1 .. 10 /\ Resources \in Seq(ToSet(Resources))
    BY DEF Resources, ToSet
<1>2. \A r \in 1 .. 10 : Resources[r].id # "app_throughput_drop"
    BY DEF Resources, Rule
<1> QED
    BY <1>1, <1>2 DEF DropRuleIsIt

LEMMA SystemRules ==
  System \in Seq(ToSet(System)) /\ \A r \in DOMAIN System : DropRuleIsIt(System[r])
<1>1. DOMAIN System = 1 .. 10 /\ System \in Seq(ToSet(System))
    BY DEF System, ToSet
<1>2. \A r \in 1 .. 10 : System[r].id # "app_throughput_drop"
    BY DEF System, Rule
<1> QED
    BY <1>1, <1>2 DEF DropRuleIsIt

LEMMA ApplicationRules ==
  Application \in Seq(ToSet(Application)) /\ \A r \in DOMAIN Application : DropRuleIsIt(Application[r])
<1>1. DOMAIN Application = 1 .. 10 /\ Application \in Seq(ToSet(Application))
    BY DEF Application, ToSet
<1>2. \A r \in 2 .. 10 : Application[r].id # "app_throughput_drop"
    BY DEF Application, Rule
<1>3. Application[1].condition = RateChange(Counter, 300, -30)
    BY DEF Application, Rule, Counter
<1> QED
    BY <1>1, <1>2, <1>3 DEF DropRuleIsIt

LEMMA BothParts ==
  ASSUME NEW s, s \in Seq(ToSet(s)), \A r \in DOMAIN s : DropRuleIsIt(s[r]),
         NEW t, t \in Seq(ToSet(t)), \A r \in DOMAIN t : DropRuleIsIt(t[r])
  PROVE  s \o t \in Seq(ToSet(s \o t)) /\ \A r \in DOMAIN (s \o t) : DropRuleIsIt((s \o t)[r])
<1> DEFINE T == ToSet(s) \cup ToSet(t)
           both == s \o t
<1>1. s \in Seq(T) /\ t \in Seq(T)
  <2>1. \A k \in 1 .. Len(s) : s[k] \in T
    BY DEF ToSet
  <2>2. \A k \in 1 .. Len(t) : t[k] \in T
    BY DEF ToSet
  <2> HIDE DEF T
  <2> QED
    BY <2>1, <2>2, ListOf
<1> HIDE DEF T
<1>2. /\ both \in Seq(T) /\ Len(both) = Len(s) + Len(t)
      /\ \A k \in 1 .. Len(s) : both[k] = s[k]
      /\ \A k \in 1 .. Len(t) : both[Len(s) + k] = t[k]
    BY <1>1, Appended
<1>3. Len(s) \in Nat /\ Len(t) \in Nat /\ DOMAIN s = 1 .. Len(s) /\ DOMAIN t = 1 .. Len(t)
      /\ DOMAIN both = 1 .. Len(s) + Len(t)
    BY <1>1, <1>2
<1> HIDE DEF both
<1>4. \A k \in 1 .. Len(both) : both[k] \in ToSet(both)
    BY <1>2, <1>3 DEF ToSet
<1>5. both \in Seq(ToSet(both))
    BY <1>2, <1>4, ListOf
<1>6. ASSUME NEW r \in 1 .. Len(s) + Len(t) PROVE DropRuleIsIt(both[r])
  <2>1. CASE r \in 1 .. Len(s)
    BY <1>2, <1>3, <2>1
  <2>2. CASE r \notin 1 .. Len(s)
    <3>1. r - Len(s) \in 1 .. Len(t) /\ Len(s) + (r - Len(s)) = r
      BY <1>3, <2>2
    <3> QED
      BY <1>2, <1>3, <3>1
  <2> QED
    BY <2>1, <2>2
<1> QED
    BY <1>3, <1>5, <1>6 DEF both

LEMMA RulesAre ==
  /\ BuiltinRules \in Seq(ToSet(BuiltinRules)) /\ Len(BuiltinRules) \in Nat
  /\ DOMAIN BuiltinRules = 1 .. Len(BuiltinRules)
  /\ \A r \in DOMAIN BuiltinRules : DropRuleIsIt(BuiltinRules[r])
<1> DEFINE two == Core \o Resources
           three == two \o System
           four == three \o Application
<1>1. two \in Seq(ToSet(two)) /\ \A r \in DOMAIN two : DropRuleIsIt(two[r])
    BY CoreRules, ResourceRules, BothParts
<1> HIDE DEF two
<1>2. three \in Seq(ToSet(three)) /\ \A r \in DOMAIN three : DropRuleIsIt(three[r])
    BY <1>1, SystemRules, BothParts
<1> HIDE DEF three
<1>3. four \in Seq(ToSet(four)) /\ \A r \in DOMAIN four : DropRuleIsIt(four[r])
    BY <1>2, ApplicationRules, BothParts
<1>4. four = BuiltinRules
    BY DEF three, two, BuiltinRules
<1> HIDE DEF four
<1>5. BuiltinRules \in Seq(ToSet(BuiltinRules)) /\ \A r \in DOMAIN BuiltinRules : DropRuleIsIt(BuiltinRules[r])
    BY <1>3, <1>4
<1> QED
    BY <1>5

\* When the rule for a drop is met, the throughput fell by 30 percent.
LEMMA DropMet ==
  ASSUME NEW rule, rule.condition = RateChange(Counter, 300, -30), NEW ctx, NEW timer,
         EvaluateRule(rule, ctx, timer).met
  PROVE  /\ Counter \in DOMAIN ctx.series
         /\ ChangePercent(ctx.series[Counter], ctx.now, 300) # None
         /\ LessEq(ChangePercent(ctx.series[Counter], ctx.now, 300), <<-30, 1>>)
<1> DEFINE c == RateChange(Counter, 300, -30)
           st == [met |-> FALSE, timer |-> timer, matched |-> <<>>]
           value == Observed(c, ctx)
<1>1. /\ c.kind = "rate_change" /\ c.metric = Counter /\ c.window = 300 /\ c.bound = <<-30, 1>>
      /\ c.kind \notin Timed
    BY DEF RateChange, Timed
<1>2. st.met = FALSE /\ [st EXCEPT !.met = FALSE].met = FALSE
    OBVIOUS
<1> HIDE DEF c
<1>3. EvaluateRule(rule, ctx, timer) = EvalLeaf(c, ctx, st)
    BY <1>1 DEF EvaluateRule, EvalCondition, c
<1>4. value # None /\ Satisfies(c, value)
  <2>1. CASE value = None
    <3>1. EvalLeaf(c, ctx, st) = [st EXCEPT !.met = FALSE]
      BY <2>1 DEF EvalLeaf
    <3> QED
      BY <1>2, <1>3, <3>1
  <2>2. CASE value # None /\ ~Satisfies(c, value)
    <3>1. EvalLeaf(c, ctx, st).met = FALSE
      BY <2>2 DEF EvalLeaf
    <3> QED
      BY <1>3, <3>1
  <2> QED
    BY <2>1, <2>2
<1>5. Counter \in DOMAIN ctx.series
    BY <1>1, <1>4 DEF Observed
<1>6. value = ChangePercent(ctx.series[Counter], ctx.now, 300)
    BY <1>1, <1>5 DEF Observed
<1> HIDE DEF value
<1>7. LessEq(value, <<-30, 1>>)
  <2>1. c.bound[1] < 0
    BY <1>1
  <2> QED
    BY <1>1, <1>4, <2>1 DEF Satisfies
<1> QED
    BY <1>4, <1>5, <1>6, <1>7
-----------------------------------------------------------------------------
(* The invariant.                                                          *)

EngineInv ==
  /\ clock \in Nat /\ GraphOk
  /\ inbox \in Seq(Seq(RemoteSamples(clock)))
  /\ StoreOk(store, clock) /\ store = [key \in DOMAIN store |-> store[key]]
  /\ DropOnlyAfterReset /\ CorrelationAccounts

\* What a process is found to suffer from, by the rules that are met.
FindingsAt(series, t, p, results) ==
  {DiagnosticOf(BuiltinRules[r], p, results[r].matched, series, t) :
     r \in {q \in DOMAIN BuiltinRules : results[q].met}}

LEMMA DiagsAtType ==
  ASSUME NEW series, NEW t, NEW p, NEW results
  PROVE  DiagsAt(series, t, p, results) \in Seq(FindingsAt(series, t, p, results))
<1> DEFINE S == {r \in DOMAIN BuiltinRules : results[r].met}
           found == Ascending(Len(BuiltinRules), S)
           D(i) == DiagnosticOf(BuiltinRules[found[i]], p, results[found[i]].matched, series, t)
<1>1. Lists(found, (1 .. Len(BuiltinRules)) \cap S)
    BY RulesAre, AscendingIs
<1> HIDE DEF found
<1>2. Len(found) \in Nat /\ DOMAIN found = 1 .. Len(found) /\ \A i \in 1 .. Len(found) : found[i] \in S
    BY <1>1 DEF Lists, ToSet
<1>3. \A i \in 1 .. Len(found) : D(i) \in FindingsAt(series, t, p, results)
    BY <1>2 DEF FindingsAt
<1>4. DiagsAt(series, t, p, results) = [i \in DOMAIN found |-> D(i)]
    BY DEF DiagsAt, found
<1> HIDE DEF D, S
<1>5. [i \in 1 .. Len(found) |-> D(i)] \in Seq(FindingsAt(series, t, p, results))
    BY <1>2, <1>3
<1> QED
    BY <1>2, <1>4, <1>5

\* Every process in some order, and its findings in the order of the rules.
LEMMA FoundType ==
  ASSUME NEW series, NEW results, NEW t \in Nat, IsFiniteSet(DOMAIN series),
         NEW order \in SetToSeqs(DOMAIN series)
  PROVE  FlattenSeq([i \in DOMAIN order |-> DiagsAt(series[order[i]], t, order[i], results[order[i]])])
           \in Seq(UNION {FindingsAt(series[p], t, p, results[p]) : p \in DOMAIN series})
<1> DEFINE D == DOMAIN series
           n == Cardinality(D)
           F == UNION {FindingsAt(series[p], t, p, results[p]) : p \in D}
           A(i) == DiagsAt(series[order[i]], t, order[i], results[order[i]])
           parts == [i \in DOMAIN order |-> A(i)]
<1>1. n \in Nat
    BY FS_CardinalityType
<1>2. order \in [1 .. n -> D]
    BY DEF SetToSeqs
<1>3. ASSUME NEW i \in 1 .. n PROVE A(i) \in Seq(F)
  <2> DEFINE p == order[i]
             Fp == FindingsAt(series[p], t, p, results[p])
  <2>1. p \in D
    BY <1>2
  <2>2. A(i) \in Seq(Fp)
    BY DiagsAtType
  <2>3. \A x \in Fp : x \in F
    BY <2>1
  <2> HIDE DEF A, F, Fp
  <2>4. \A k \in 1 .. Len(A(i)) : A(i)[k] \in F
    BY <2>2, <2>3
  <2> QED
    BY <2>2, <2>4, ListOf
<1>4. DOMAIN order = 1 .. n
    BY <1>2
<1> HIDE DEF A, F, n
<1>5. parts \in Seq(Seq(F))
    BY <1>1, <1>3, <1>4
<1> HIDE DEF parts
<1>6. FlattenSeq(parts) \in Seq(F)
    BY <1>5, FlattenSeqType
<1> QED
    BY <1>6 DEF parts, A, F

LEMMA DiagnosticIs ==
  ASSUME NEW rule, NEW p, NEW matched, NEW series, NEW t
  PROVE  /\ DiagnosticOf(rule, p, matched, series, t).target = p
         /\ DiagnosticOf(rule, p, matched, series, t).rule = rule.id
         /\ DiagnosticOf(rule, p, matched, series, t).at = t
         /\ {"target", "category", "rule"} \subseteq DOMAIN DiagnosticOf(rule, p, matched, series, t)
BY DEF DiagnosticOf

LEMMA CollectedIsFunction ==
  ASSUME NEW st, NEW t, NEW machine, NEW top
  PROVE  LET collected == CollectSamples(st, t, machine, top)
         IN collected = [key \in DOMAIN collected |-> collected[key]]
<1> DEFINE host == HostProfile(machine.host)
           hosted == IF host = Missing THEN st ELSE PushAll(st, t, Named(NoPid, HostSamples(host)))
           profile(p) == ProcessProfile(machine.proc[p].dir)
           readable == {p \in top : profile(p) # Missing}
           sampled == UNION {{p} \X (DOMAIN ProfileSamples(profile(p))) : p \in readable}
           values == [key \in sampled |-> ProfileSamples(profile(key[1]))[key[2]]]
<1>1. CollectSamples(st, t, machine, top) = PushAll(hosted, t, values)
    BY DEF CollectSamples
<1> HIDE DEF hosted, values
<1> QED
    BY <1>1, PushAllIsFunction

LEMMA CorrelationIs ==
  /\ CorrelationAccounts <=> AccountsFor(diags, groups)
  /\ CorrelationAccounts' <=> AccountsFor(diags', groups')
<1>1. CorrelationAccounts <=> AccountsFor(diags, groups)
    BY DEF CorrelationAccounts, AccountsFor, InGroups, In
<1>2. CorrelationAccounts' <=> AccountsFor(diags', groups')
    BY DEF CorrelationAccounts, AccountsFor, InGroups, In
<1> QED
    BY <1>1, <1>2

LEMMA EngineTickKeeps ==
  ASSUME EngineAssumption, MachineAssumption, EngineInv, EngineTick
  PROVE  EngineInv'
<1>1. PICK gap \in Gaps, machine \in Machines : EngineTickAt(clock + gap, machine)
    BY DEF EngineTick
<1> DEFINE t == clock + gap
           drained == IngestRemote(store, FlattenSeq(inbox))
           ingested == IngestWorld(drained, t)
<1>2. clock \in Nat /\ t \in Nat /\ clock <= t /\ t <= t /\ LastPid \in Nat
    BY DEF EngineInv, EngineAssumption
<1> HIDE DEF t
<1>3. clock' = t /\ inbox' = <<>> /\ graph' = graph
    BY <1>1 DEF EngineTickAt, t
<1>4. PICK top \in TopPids(ingested) :
        LET collected == CollectSamples(ingested, t, machine, top)
            limits == CollectLimits(machine, top)
            series == [p \in ProcessPids(ingested) |-> SeriesOf(collected, p)]
            results == [p \in DOMAIN series |-> EvaluateRules(series[p], t, p, limits)]
        IN /\ store' = collected
           /\ \E order \in SetToSeqs(DOMAIN series) :
                LET found == FlattenSeq([i \in DOMAIN order |->
                               DiagsAt(series[order[i]], t, order[i], results[order[i]])])
                IN groups' = Correlate(found) /\ diags' = Annotated(found, groups')
    BY <1>1 DEF EngineTickAt, t
<1>5. StoreOk(drained, clock)
  <2>1. inbox \in Seq(Seq(RemoteSamples(clock))) /\ StoreOk(store, clock)
        /\ store = [key \in DOMAIN store |-> store[key]]
    BY DEF EngineInv
  <2>2. FlattenSeq(inbox) \in Seq(RemoteSamples(clock))
    BY <2>1, FlattenSeqType
  <2> QED
    BY <1>2, <2>1, <2>2, IngestRemoteOk
<1> HIDE DEF drained
<1>6. StoreOk(ingested, t)
    BY <1>2, <1>5, IngestWorldOk DEF EngineInv
<1> HIDE DEF ingested
<1>7. ProcessPids(ingested) \subseteq 1 .. LastPid
  <2>1. \A key \in DOMAIN ingested : key[1] \in 0 .. LastPid
    BY <1>6 DEF StoreOk, SeriesKey
  <2> QED
    BY <1>2, <2>1 DEF ProcessPids, NoPid
<1>8. top \subseteq 1 .. LastPid
    BY <1>7 DEF TopPids
<1> DEFINE collected == CollectSamples(ingested, t, machine, top)
           limits == CollectLimits(machine, top)
           series == [p \in ProcessPids(ingested) |-> SeriesOf(collected, p)]
           results == [p \in DOMAIN series |-> EvaluateRules(series[p], t, p, limits)]
<1>9. StoreOk(collected, t) /\ collected = [key \in DOMAIN collected |-> collected[key]]
  <2>1. StoreOk(collected, t)
    BY <1>2, <1>6, <1>8, CollectSamplesOk
  <2>2. collected = [key \in DOMAIN collected |-> collected[key]]
    BY CollectedIsFunction
  <2> QED
    BY <2>1, <2>2
<1>10. DOMAIN series = ProcessPids(ingested)
    OBVIOUS
<1>11. IsFiniteSet(DOMAIN series)
  <2>1. IsFiniteSet(1 .. LastPid)
    BY <1>2, FS_Interval
  <2> QED
    BY <1>7, <1>10, <2>1, FS_Subset
<1>12. store' = collected
    BY <1>4
<1>13. PICK order \in SetToSeqs(DOMAIN series) :
         LET found == FlattenSeq([i \in DOMAIN order |->
                        DiagsAt(series[order[i]], t, order[i], results[order[i]])])
         IN groups' = Correlate(found) /\ diags' = Annotated(found, groups')
    BY <1>4
<1> DEFINE found == FlattenSeq([i \in DOMAIN order |->
                      DiagsAt(series[order[i]], t, order[i], results[order[i]])])
           F == UNION {FindingsAt(series[p], t, p, results[p]) : p \in DOMAIN series}
<1>14. groups' = Correlate(found) /\ diags' = Annotated(found, groups')
    BY <1>13
<1>15. \A p \in DOMAIN series : series[p] = SeriesOf(collected, p)
    OBVIOUS
<1>16. \A p \in DOMAIN series : results[p] = EvaluateRules(series[p], t, p, limits)
    OBVIOUS
<1> HIDE DEF collected, limits, series, results
<1>17. found \in Seq(F)
    BY <1>2, <1>11, FoundType
<1> HIDE DEF found
<1>18. ASSUME NEW x \in F
       PROVE  \E p \in DOMAIN series, r \in DOMAIN BuiltinRules :
                /\ results[p][r].met /\ x.target = p /\ x.rule = BuiltinRules[r].id
                /\ x.at = t /\ {"target", "category", "rule"} \subseteq DOMAIN x
  <2>1. PICK p \in DOMAIN series : x \in FindingsAt(series[p], t, p, results[p])
    BY <1>18
  <2>2. PICK r \in DOMAIN BuiltinRules :
          results[p][r].met /\ x = DiagnosticOf(BuiltinRules[r], p, results[p][r].matched, series[p], t)
    BY <2>1 DEF FindingsAt
  <2> QED
    BY <2>2, DiagnosticIs
<1> HIDE DEF F
<1>19. Len(found) \in Nat /\ DOMAIN found = 1 .. Len(found) /\ \A i \in 1 .. Len(found) : found[i] \in F
    BY <1>17
<1>20. \A i \in DOMAIN found : {"target", "category", "rule"} \subseteq DOMAIN found[i] /\ found[i].at = t
    BY <1>18, <1>19
<1>21. AtOnce(found)
  <2>1. t - t \in -TimeWindow .. TimeWindow
    BY <1>2 DEF TimeWindow
  <2> QED
    BY <1>19, <1>20, <2>1 DEF AtOnce, WithinTimeWindow
<1>22. /\ DOMAIN diags' = DOMAIN found
       /\ \A i \in DOMAIN found : /\ diags'[i].target = found[i].target
                                  /\ diags'[i].category = found[i].category
                                  /\ diags'[i].rule = found[i].rule
    BY <1>14, <1>20, AnnotatedIs
<1>23. CorrelationAccounts'
  <2>1. AccountsFor(diags', groups')
    BY <1>14, <1>19, <1>21, <1>22, CorrelateAccountsFor
  <2> QED
    BY <2>1, CorrelationIs
<1>24. ASSUME NEW i \in DOMAIN diags', diags'[i].rule = "app_throughput_drop"
       PROVE  \E k \in 1 .. Len(store'[<<diags'[i].target, Counter>>]) - 1 :
                /\ store'[<<diags'[i].target, Counter>>][k + 1].v < store'[<<diags'[i].target, Counter>>][k].v
                /\ clock' - store'[<<diags'[i].target, Counter>>][k].t <= 300
  <2>1. i \in DOMAIN found /\ found[i] \in F
    BY <1>19, <1>22, <1>24
  <2>2. PICK p \in DOMAIN series, r \in DOMAIN BuiltinRules :
          results[p][r].met /\ found[i].target = p /\ found[i].rule = BuiltinRules[r].id
    BY <1>18, <2>1
  <2>3. diags'[i].target = p /\ BuiltinRules[r].id = "app_throughput_drop"
    BY <1>22, <1>24, <2>1, <2>2
  <2>4. BuiltinRules[r].condition = RateChange(Counter, 300, -30)
    BY <2>3, RulesAre DEF DropRuleIsIt
  <2> DEFINE ctx == [series |-> series[p], now |-> t,
                     limits |-> IF p \in DOMAIN limits THEN limits[p] ELSE NoLimits]
             timer == TimerOf(BuiltinRules[r].id, p)
  <2>5. results[p][r] = EvaluateRule(BuiltinRules[r], ctx, timer)
    BY <1>16 DEF EvaluateRules
  <2>6. ctx.series = series[p] /\ ctx.now = t
    OBVIOUS
  <2> HIDE DEF ctx, timer
  <2>7. /\ Counter \in DOMAIN series[p]
        /\ ChangePercent(series[p][Counter], t, 300) # None
        /\ LessEq(ChangePercent(series[p][Counter], t, 300), <<-30, 1>>)
    BY <2>2, <2>4, <2>5, <2>6, DropMet
  <2> DEFINE s == collected[<<p, Counter>>]
  <2>8. <<p, Counter>> \in DOMAIN collected /\ series[p][Counter] = s
    <3>1. series[p] = SeriesOf(collected, p)
      BY <1>15
    <3>2. PICK key \in DOMAIN collected : key[1] = p /\ key[2] = Counter
      BY <2>7, <3>1 DEF SeriesOf
    <3>3. key = <<key[1], key[2]>>
      BY <1>9 DEF StoreOk, SeriesKey
    <3>4. <<p, Counter>> \in DOMAIN collected
      BY <3>2, <3>3
    <3> QED
      BY <2>7, <3>1, <3>4 DEF SeriesOf
  <2>9. SeriesOk(s, t, Counter)
    <3>1. <<p, Counter>>[2] = Counter
      OBVIOUS
    <3> QED
      BY <1>9, <2>8, <3>1 DEF StoreOk
  <2> HIDE DEF s
  <2>10. \E k \in 1 .. Len(s) - 1 : s[k + 1].v < s[k].v /\ t - s[k].t <= 300
    BY <1>2, <2>7, <2>8, <2>9, DropIsReset
  <2>11. store'[<<diags'[i].target, Counter>>] = s
    BY <1>12, <2>3 DEF s
  <2> QED
    BY <1>3, <2>10, <2>11
<1>25. DropOnlyAfterReset'
    BY <1>24 DEF DropOnlyAfterReset, DiagsOf
<1>26. GraphOk'
    BY <1>3 DEF EngineInv, GraphOk
<1>27. inbox' \in Seq(Seq(RemoteSamples(clock')))
    BY <1>3
<1>28. StoreOk(store', clock') /\ store' = [key \in DOMAIN store' |-> store'[key]]
    BY <1>3, <1>9, <1>12
<1>29. clock' \in Nat
    BY <1>2, <1>3
<1> QED
    BY <1>23, <1>25, <1>26, <1>27, <1>28, <1>29 DEF EngineInv

LEMMA RemoteKeeps ==
  ASSUME EngineAssumption, EngineInv, Remote
  PROVE  EngineInv'
<1> DEFINE S == RemoteSamples(clock)
<1>1. PICK batch \in Batches :
        inbox' = Append(inbox, [i \in DOMAIN batch |->
                   [pid |-> batch[i].pid, metric |-> batch[i].metric, t |-> clock, v |-> batch[i].value]])
    BY DEF Remote
<1>2. UNCHANGED <<clock, graph, store, diags, groups>>
    BY DEF Remote
<1> DEFINE sample(i) == [pid |-> batch[i].pid, metric |-> batch[i].metric, t |-> clock, v |-> batch[i].value]
           samples == [i \in DOMAIN batch |-> sample(i)]
<1>3. /\ batch \in Seq([pid : 0 .. LastPid, metric : STRING, value : Int])
      /\ \A i \in DOMAIN batch : batch[i].metric = Counter => batch[i].value >= 0
    BY DEF EngineAssumption
<1>4. Len(batch) \in Nat /\ DOMAIN batch = 1 .. Len(batch)
    BY <1>3
<1>5. ASSUME NEW i \in 1 .. Len(batch) PROVE sample(i) \in S
  <2>1. batch[i] \in [pid : 0 .. LastPid, metric : STRING, value : Int]
    <3> DEFINE T == [pid : 0 .. LastPid, metric : STRING, value : Int]
    <3>1. batch \in Seq(T)
      BY <1>3
    <3> HIDE DEF T
    <3>2. batch[i] \in T
      BY <1>5, <3>1
    <3> QED
      BY <3>2 DEF T
  <2>2. batch[i].pid \in 0 .. LastPid /\ batch[i].metric \in STRING /\ batch[i].value \in Int
    BY <2>1
  <2>3. batch[i].metric = Counter => batch[i].value >= 0
    BY <1>3, <1>4
  <2> QED
    BY <2>2, <2>3 DEF RemoteSamples
<1> HIDE DEF S, sample
<1>6. samples \in Seq(S)
    BY <1>4, <1>5
<1>7. inbox' = Append(inbox, samples)
    BY <1>1 DEF sample
<1> HIDE DEF samples
<1>8. inbox \in Seq(Seq(S))
    BY DEF EngineInv, S
<1>9. inbox' \in Seq(Seq(RemoteSamples(clock')))
  <2>1. Append(inbox, samples) \in Seq(Seq(S))
    BY <1>6, <1>8
  <2> QED
    BY <1>2, <1>7, <2>1 DEF S
<1>10. GraphOk'
    BY <1>2 DEF EngineInv, GraphOk
<1>11. StoreOk(store', clock') /\ store' = [key \in DOMAIN store' |-> store'[key]] /\ clock' \in Nat
    BY <1>2 DEF EngineInv
<1>12. DropOnlyAfterReset'
    BY <1>2 DEF EngineInv, DropOnlyAfterReset, DiagsOf
<1>13. CorrelationAccounts'
  <2>1. AccountsFor(diags', groups') <=> AccountsFor(diags, groups)
    BY <1>2
  <2> QED
    BY <2>1, CorrelationIs DEF EngineInv
<1> QED
    BY <1>9, <1>10, <1>11, <1>12, <1>13 DEF EngineInv

LEMMA GraphUpdatesKeeps ==
  ASSUME EngineAssumption, EngineInv, GraphUpdates
  PROVE  EngineInv'
<1>1. UNCHANGED <<clock, inbox, store, diags, groups>> /\ graph' \in WorldStates
    BY DEF GraphUpdates
<1>2. GraphOk'
    BY <1>1 DEF EngineAssumption, GraphOk
<1>3. StoreOk(store', clock') /\ store' = [key \in DOMAIN store' |-> store'[key]] /\ clock' \in Nat
      /\ inbox' \in Seq(Seq(RemoteSamples(clock')))
    BY <1>1 DEF EngineInv
<1>4. DropOnlyAfterReset'
    BY <1>1 DEF EngineInv, DropOnlyAfterReset, DiagsOf
<1>5. CorrelationAccounts'
  <2>1. AccountsFor(diags', groups') <=> AccountsFor(diags, groups)
    BY <1>1
  <2> QED
    BY <2>1, CorrelationIs DEF EngineInv
<1> QED
    BY <1>2, <1>3, <1>4, <1>5 DEF EngineInv

LEMMA EngineInit0 ==
  ASSUME EngineAssumption, EngineInit
  PROVE  EngineInv
<1>1. clock = 0 /\ graph = <<>> /\ inbox = <<>> /\ store = <<>> /\ diags = <<>> /\ groups = <<>>
    BY DEF EngineInit
<1>2. DOMAIN <<>> = {} /\ <<>> = [key \in DOMAIN <<>> |-> <<>>[key]]
    OBVIOUS
<1>3. GraphOk
    BY <1>1, <1>2 DEF GraphOk
<1>4. inbox \in Seq(Seq(RemoteSamples(clock)))
    BY <1>1
<1>5. StoreOk(store, clock) /\ store = [key \in DOMAIN store |-> store[key]]
    BY <1>1, <1>2 DEF StoreOk
<1>6. DropOnlyAfterReset
    BY <1>1, <1>2 DEF DropOnlyAfterReset, DiagsOf
<1>7. CorrelationAccounts
  <2>1. {i \in DOMAIN diags : InGroups(i) = {}} = {}
    BY <1>1, <1>2
  <2>2. Cardinality({i \in DOMAIN diags : InGroups(i) = {}}) <= 1
    BY <2>1, FS_EmptySet
  <2> QED
    BY <1>1, <1>2, <2>2 DEF CorrelationAccounts
<1> QED
    BY <1>1, <1>3, <1>4, <1>5, <1>6, <1>7 DEF EngineInv

LEMMA EngineInvariant == EngineSpec => []EngineInv
<1>1. EngineInit => EngineInv
    BY EngineInit0, EngineAssumption
<1>2. EngineInv /\ [EngineNext]_analysisVars => EngineInv'
  <2> SUFFICES ASSUME EngineInv, [EngineNext]_analysisVars PROVE EngineInv'
    OBVIOUS
  <2>1. CASE GraphUpdates
    BY <2>1, GraphUpdatesKeeps, EngineAssumption
  <2>2. CASE Remote
    BY <2>2, RemoteKeeps, EngineAssumption
  <2>3. CASE EngineTick
    BY <2>3, EngineTickKeeps, EngineAssumption, MachineAssumption
  <2>4. CASE UNCHANGED analysisVars
    <3>1. UNCHANGED <<clock, graph, inbox, store, diags, groups>>
      BY <2>4 DEF analysisVars
    <3>2. AccountsFor(diags', groups') <=> AccountsFor(diags, groups)
      BY <3>1
    <3>3. CorrelationAccounts'
      BY <3>2, CorrelationIs DEF EngineInv
    <3>4. DropOnlyAfterReset' /\ GraphOk'
      BY <3>1 DEF EngineInv, DropOnlyAfterReset, DiagsOf, GraphOk
    <3> QED
      BY <3>1, <3>3, <3>4 DEF EngineInv
  <2> QED
    BY <2>1, <2>2, <2>3, <2>4 DEF EngineNext
<1> QED
    BY <1>1, <1>2, PTL DEF EngineSpec

\* The groups that the correlator makes of a tick's diagnostics account for
\* them: at most one stays alone, only the first of several causal pairs is
\* in more than one group, and what is grouped belongs together.
THEOREM GroupsAccountForTheTick == EngineSpec => []CorrelationAccounts
<1>1. EngineInv => CorrelationAccounts
    BY DEF EngineInv
<1> QED
    BY <1>1, EngineInvariant, PTL

\* The rule for a drop of the throughput fires only after the counter was
\* reset within its window.
THEOREM ThroughputDropsByReset == EngineSpec => []DropOnlyAfterReset
<1>1. EngineInv => DropOnlyAfterReset
    BY DEF EngineInv
<1> QED
    BY <1>1, EngineInvariant, PTL

\* The slope that linear_regression computes from sums is that of the least
\* squares line through the samples of the window, for every series that the
\* engine can have in its store.
THEOREM SlopesAreLeastSquares == EngineSpec => []RegressionAgrees
<1>1. EngineInv => RegressionAgrees
  <2> SUFFICES ASSUME EngineInv PROVE RegressionAgrees
    OBVIOUS
  <2>1. \A key \in DOMAIN store : store[key] \in Seq(Sample)
    BY DEF EngineInv, StoreOk, SeriesOk
  <2>2. 300 \in Int
    OBVIOUS
  <2> QED
    BY <2>1, <2>2, RegressionIsLeastSquares DEF RegressionAgrees
<1> QED
    BY <1>1, EngineInvariant, PTL
=============================================================================
