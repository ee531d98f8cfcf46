-------------------------- MODULE DiagnosticsProofs --------------------------
(***************************************************************************)
(* Theorems about Diagnostics, OutputPipeline and RuleEngineHistory, for   *)
(* any processes, rules and findings and for every capacity, window, limit *)
(* and duration.                                                           *)
(***************************************************************************)
EXTENDS Diagnostics, OutputPipeline, RuleEngineHistory, NaturalsInduction, WellFoundedInduction,
        FiniteSetTheorems, SequenceTheorems, TLAPS

-----------------------------------------------------------------------------
(* Loops: induction up to a number, with a set for the predicate, and that *)
(* what a loop computes exists.                                            *)

LEMMA UpTo ==
  ASSUME NEW N \in Nat, NEW S, 0 \in S,
         \A n \in Nat : n < N /\ n \in S => n + 1 \in S
  PROVE  0 .. N \subseteq S
<1> SUFFICES ASSUME 0 .. N \ S # {} PROVE FALSE
    OBVIOUS
<1> DEFINE R == OpToRel(<, Nat)
<1>2. IsWellFoundedOn(R, Nat)
    BY NatLessThanWellFounded
<1> HIDE DEF R
<1>3. PICK x \in 0 .. N \ S : \A y \in 0 .. N \ S : ~ (<<y, x>> \in R)
  <2>1. 0 .. N \ S \subseteq Nat
    OBVIOUS
  <2> QED
    BY <1>2, <2>1, WFMin
<1>4. x # 0 /\ x - 1 \in Nat /\ x - 1 < N /\ x - 1 \in 0 .. N
    OBVIOUS
<1>5. <<x - 1, x>> \in R
    BY <1>4 DEF R, OpToRel
<1>6. x - 1 \in S
    BY <1>3, <1>4, <1>5
<1>7. x - 1 + 1 \in S
    BY <1>4, <1>6
<1> QED
    BY <1>3, <1>7

\* m holds what a loop of N rounds has computed before and after each round.
Loop(m, start, Step, N) ==
  /\ m[0] = start
  /\ \A k \in 1 .. N : m[k] = Step[<<m[k - 1], k>>]

LEMMA LoopExists ==
  ASSUME NEW Q, NEW start \in Q, NEW N \in Nat, NEW Step \in [Q \X (1 .. N) -> Q]
  PROVE  \E m \in [0 .. N -> Q] : Loop(m, start, Step, N)
<1> DEFINE S == {n \in Nat : n <= N => \E m \in [0 .. n -> Q] : Loop(m, start, Step, n)}
<1>1. 0 \in S
  <2> DEFINE m == [k \in 0 .. 0 |-> start]
  <2>1. m \in [0 .. 0 -> Q] /\ Loop(m, start, Step, 0)
    BY DEF Loop
  <2> QED
    BY <2>1
<1>2. ASSUME NEW n \in Nat, n < N, n \in S PROVE n + 1 \in S
  <2>1. PICK m \in [0 .. n -> Q] : Loop(m, start, Step, n)
    BY <1>2
  <2> DEFINE next == Step[<<m[n], n + 1>>]
             l == [k \in 0 .. n + 1 |-> IF k = n + 1 THEN next ELSE m[k]]
  <2>2. next \in Q
    BY <1>2, <2>1
  <2>3. l \in [0 .. n + 1 -> Q]
    BY <2>1, <2>2
  <2>4. l[0] = start /\ l[n] = m[n] /\ l[n + 1] = next /\ \A k \in 0 .. n : l[k] = m[k]
    BY <2>1 DEF Loop
  <2>5. next = Step[<<m[n], n + 1>>]
    OBVIOUS
  <2> HIDE DEF l, next
  <2>6. ASSUME NEW k \in 1 .. n + 1 PROVE l[k] = Step[<<l[k - 1], k>>]
    <3>1. CASE k = n + 1
      <4>1. k - 1 = n
        BY <3>1
      <4> QED
        BY <2>4, <2>5, <3>1, <4>1
    <3>2. CASE k \in 1 .. n
      <4>1. k - 1 \in 0 .. n /\ k \in 0 .. n
        BY <3>2
      <4> QED
        BY <2>1, <2>4, <3>2, <4>1 DEF Loop
    <3> QED
      BY <3>1, <3>2
  <2>7. Loop(l, start, Step, n + 1)
    BY <2>4, <2>6 DEF Loop
  <2> QED
    BY <2>3, <2>7
<1> HIDE DEF S
<1>3. 0 .. N \subseteq S
    BY <1>1, <1>2, UpTo
<1> QED
    BY <1>3 DEF S
-----------------------------------------------------------------------------
(* Lists of diagnostics.                                                   *)

Categories == {Rules[r].category : r \in RuleIds} \cup {"ScriptRule"}

Diagnostic == [id : Nat, target : Pids, category : Categories, severity : Severities]

Unique(ds) == \A i, j \in DOMAIN ds : Key(ds[i]) = Key(ds[j]) => i = j

LEMMA KeysOfList ==
  ASSUME NEW ds
  PROVE  /\ \A d : d \in ToSet(ds) <=> \E i \in DOMAIN ds : ds[i] = d
         /\ \A k : k \in Keys(ds) <=> \E i \in DOMAIN ds : Key(ds[i]) = k
BY DEF Keys, ToSet

LEMMA AppendToList ==
  ASSUME NEW ds \in Seq(Diagnostic), NEW d \in Diagnostic
  PROVE  /\ Append(ds, d) \in Seq(Diagnostic)
         /\ DOMAIN ds = 1 .. Len(ds) /\ Len(ds) \in Nat
         /\ DOMAIN Append(ds, d) = 1 .. Len(ds) + 1 /\ Len(Append(ds, d)) = Len(ds) + 1
         /\ \A i \in 1 .. Len(ds) : Append(ds, d)[i] = ds[i]
         /\ Append(ds, d)[Len(ds) + 1] = d
         /\ ToSet(Append(ds, d)) = ToSet(ds) \cup {d}
         /\ Keys(Append(ds, d)) = Keys(ds) \cup {Key(d)}
         /\ Unique(ds) /\ Key(d) \notin Keys(ds) => Unique(Append(ds, d))
<1> DEFINE a == Append(ds, d)
<1>1. /\ a \in Seq(Diagnostic)
      /\ DOMAIN ds = 1 .. Len(ds) /\ Len(ds) \in Nat
      /\ DOMAIN a = 1 .. Len(ds) + 1 /\ Len(a) = Len(ds) + 1
      /\ \A i \in 1 .. Len(ds) : a[i] = ds[i]
      /\ a[Len(ds) + 1] = d
    OBVIOUS
<1> HIDE DEF a
<1>2. ToSet(a) = ToSet(ds) \cup {d}
    BY <1>1 DEF ToSet
<1>3. Keys(a) = Keys(ds) \cup {Key(d)}
    BY <1>2 DEF Keys
<1>4. Unique(ds) /\ Key(d) \notin Keys(ds) => Unique(a)
    BY <1>1, KeysOfList DEF Unique
<1> QED
    BY <1>1, <1>2, <1>3, <1>4 DEF a

\* What Retain keeps after n rounds.
RetainRound(q, d, S) == IF d \in S THEN Append(q, d) ELSE q
Retains(m, ds, S) ==
  m = [n \in 0 .. Len(ds) |-> IF n = 0 THEN <<>> ELSE RetainRound(m[n - 1], ds[n], S)]

LEMMA RetainLoop ==
  ASSUME NEW ds \in Seq(Diagnostic), NEW S
  PROVE  \E m : Retains(m, ds, S) /\ Retain(ds, S) = m[Len(ds)]
<1> DEFINE N == Len(ds)
           Q == Seq(Diagnostic)
           Step == [qk \in Q \X (1 .. N) |-> RetainRound(qk[1], ds[qk[2]], S)]
<1>1. N \in Nat /\ \A k \in 1 .. N : ds[k] \in Diagnostic
    OBVIOUS
<1>2. \A q \in Q, k \in 1 .. N : RetainRound(q, ds[k], S) \in Q
    BY <1>1 DEF RetainRound
<1>3. Step \in [Q \X (1 .. N) -> Q]
    BY <1>2
<1>4. <<>> \in Q
    OBVIOUS
<1>5. \A q \in Q, k \in 1 .. N : Step[<<q, k>>] = RetainRound(q, ds[k], S)
    OBVIOUS
<1> HIDE DEF Step, Q, N
<1>6. PICK m \in [0 .. N -> Q] : Loop(m, <<>>, Step, N)
    BY <1>1, <1>3, <1>4, LoopExists
<1>7. ASSUME NEW k \in 0 .. N
      PROVE  m[k] = IF k = 0 THEN <<>> ELSE RetainRound(m[k - 1], ds[k], S)
  <2>1. CASE k = 0
    BY <1>6, <2>1 DEF Loop
  <2>2. CASE k \in 1 .. N
    <3>1. m[k - 1] \in Q
      BY <1>1, <1>6, <2>2
    <3> QED
      BY <1>5, <1>6, <2>2, <3>1 DEF Loop
  <2> QED
    BY <1>1, <2>1, <2>2
<1>8. Retains(m, ds, S)
    BY <1>6, <1>7 DEF Retains, N
<1>9. Retain(ds, S) = (CHOOSE q : Retains(q, ds, S))[Len(ds)]
    BY DEF Retain, Retains, RetainRound
<1> QED
    BY <1>8, <1>9

\* What Retain keeps of a list without two of one key.
LEMMA RetainIs ==
  ASSUME NEW ds \in Seq(Diagnostic), Unique(ds), NEW S
  PROVE  /\ Retain(ds, S) \in Seq(Diagnostic)
         /\ ToSet(Retain(ds, S)) = ToSet(ds) \cap S
         /\ Unique(Retain(ds, S))
         /\ Len(Retain(ds, S)) <= Len(ds)
         /\ (\E d \in ToSet(ds) : d \notin S) => Len(Retain(ds, S)) < Len(ds)
<1> DEFINE N == Len(ds)
<1>1. PICK m : Retains(m, ds, S) /\ Retain(ds, S) = m[N]
    BY RetainLoop, Zenon
<1>2. /\ m[0] = <<>>
      /\ \A n \in 1 .. N : m[n] = RetainRound(m[n - 1], ds[n], S)
  <2>1. N \in Nat /\ m = [n \in 0 .. N |-> IF n = 0 THEN <<>> ELSE RetainRound(m[n - 1], ds[n], S)]
    BY <1>1 DEF Retains
  <2> HIDE DEF N
  <2>2. m[0] = <<>>
    <3>1. 0 \in 0 .. N
      BY <2>1
    <3> QED
      BY <2>1, <3>1, Zenon
  <2>3. ASSUME NEW n \in 1 .. N PROVE m[n] = RetainRound(m[n - 1], ds[n], S)
    <3>1. n \in 0 .. N /\ n # 0
      BY <2>1
    <3> QED
      BY <2>1, <3>1, Zenon
  <2> QED
    BY <2>2, <2>3
<1>3. N \in Nat /\ DOMAIN ds = 1 .. N /\ \A i \in 1 .. N : ds[i] \in Diagnostic
    OBVIOUS
<1> HIDE DEF N
<1> DEFINE Before(n) == {ds[i] : i \in 1 .. n}
           Good(q, n) == /\ q \in Seq(Diagnostic) /\ Unique(q)
                         /\ ToSet(q) = Before(n) \cap S
                         /\ Len(q) <= n
                         /\ (\E d \in Before(n) : d \notin S) => Len(q) < n
           P == {n \in Nat : n <= N => Good(m[n], n)}
<1>4. 0 \in P
  <2>1. <<>> \in Seq(Diagnostic) /\ Len(<<>>) = 0 /\ DOMAIN <<>> = {} /\ Before(0) = {}
    OBVIOUS
  <2>2. Unique(<<>>) /\ ToSet(<<>>) = {}
    BY <2>1 DEF Unique, ToSet
  <2>3. Good(<<>>, 0)
    BY <2>1, <2>2
  <2> HIDE DEF Good
  <2> QED
    BY <1>2, <2>3
<1>5. ASSUME NEW n \in Nat, n < N, n \in P PROVE n + 1 \in P
  <2> DEFINE q == m[n]
             d == ds[n + 1]
  <2>1. Good(q, n) /\ d \in Diagnostic /\ Len(q) \in Nat
    BY <1>3, <1>5
  <2>2. m[n + 1] = RetainRound(q, d, S)
    BY <1>2, <1>3, <1>5
  <2>3. Before(n + 1) = Before(n) \cup {d}
    <3>1. 1 .. n + 1 = (1 .. n) \cup {n + 1}
      OBVIOUS
    <3> QED
      BY <3>1
  <2>4. \A e \in Before(n) : Key(e) # Key(d)
    BY <1>3, <1>5 DEF Unique
  <2> HIDE DEF q, d, Before
  <2>5. Key(d) \notin Keys(q)
    BY <2>1, <2>4 DEF Keys
  <2>6. CASE d \in S
    <3> DEFINE longer == Append(q, d)
    <3>1. Good(longer, n + 1)
      BY <2>1, <2>3, <2>5, <2>6, AppendToList
    <3>2. m[n + 1] = longer
      BY <2>2, <2>6 DEF RetainRound
    <3> HIDE DEF Good, longer
    <3> QED
      BY <3>1, <3>2
  <2>7. CASE d \notin S
    <3>1. Good(q, n + 1)
      BY <2>1, <2>3, <2>7
    <3> HIDE DEF Good
    <3> QED
      BY <2>2, <2>7, <3>1 DEF RetainRound
  <2> QED
    BY <2>6, <2>7
<1> HIDE DEF P
<1>6. N \in P
    BY <1>3, <1>4, <1>5, UpTo
<1>7. Good(Retain(ds, S), N) /\ Before(N) = ToSet(ds)
    BY <1>1, <1>3, <1>6 DEF P, ToSet
<1> HIDE DEF Before
<1> QED
    BY <1>7 DEF N
-----------------------------------------------------------------------------
(* The merge of the engine.                                                *)

LEMMA MergeOneType ==
  ASSUME NEW ds \in Seq(Diagnostic), NEW d \in Diagnostic
  PROVE  MergeOne(ds, d) \in Seq(Diagnostic)
<1> DEFINE Updated(e) == [e EXCEPT !.severity = d.severity]
<1>1. Len(ds) \in Nat /\ DOMAIN ds = 1 .. Len(ds) /\ \A i \in 1 .. Len(ds) : ds[i] \in Diagnostic
    OBVIOUS
<1>2. \A e \in Diagnostic : Updated(e) \in Diagnostic
    BY DEF Diagnostic
<1>3. \/ MergeOne(ds, d) = [i \in 1 .. Len(ds) |->
                             IF Key(ds[i]) = Key(d) THEN Updated(ds[i]) ELSE ds[i]]
      \/ MergeOne(ds, d) = Append(ds, d)
    BY <1>1 DEF MergeOne
<1> HIDE DEF Updated
<1> QED
    BY <1>1, <1>2, <1>3

\* After the merge of one, exactly its key has joined, what has this key has
\* its severity, and the others are as they were.
LEMMA MergeOneIs ==
  ASSUME NEW ds \in Seq(Diagnostic), Unique(ds), NEW d \in Diagnostic
  PROVE  /\ MergeOne(ds, d) \in Seq(Diagnostic)
         /\ Unique(MergeOne(ds, d))
         /\ Keys(MergeOne(ds, d)) = Keys(ds) \cup {Key(d)}
         /\ \A e \in ToSet(MergeOne(ds, d)) :
              IF Key(e) = Key(d) THEN e.severity = d.severity ELSE e \in ToSet(ds)
<1> DEFINE l == MergeOne(ds, d)
<1>1. Len(ds) \in Nat /\ DOMAIN ds = 1 .. Len(ds) /\ \A i \in 1 .. Len(ds) : ds[i] \in Diagnostic
    OBVIOUS
<1>2. CASE Key(d) \in Keys(ds)
  <2> DEFINE Updated(e) == [e EXCEPT !.severity = d.severity]
  <2>1. \A e \in Diagnostic : Updated(e) \in Diagnostic /\ Key(Updated(e)) = Key(e)
                              /\ Updated(e).severity = d.severity
    BY DEF Diagnostic, Key
  <2>2. l = [i \in 1 .. Len(ds) |-> IF Key(ds[i]) = Key(d) THEN Updated(ds[i]) ELSE ds[i]]
    BY <1>1, <1>2 DEF MergeOne
  <2> HIDE DEF l, Updated
  <2>3. /\ l \in Seq(Diagnostic) /\ DOMAIN l = 1 .. Len(ds)
        /\ \A i \in 1 .. Len(ds) : Key(l[i]) = Key(ds[i])
        /\ \A i \in 1 .. Len(ds) : IF Key(l[i]) = Key(d) THEN l[i].severity = d.severity
                                   ELSE l[i] = ds[i]
    BY <1>1, <2>1, <2>2
  <2>4. Unique(l)
    BY <1>1, <2>3 DEF Unique
  <2>5. Keys(l) = Keys(ds) \cup {Key(d)}
    BY <1>1, <1>2, <2>3, KeysOfList
  <2>6. \A e \in ToSet(l) : IF Key(e) = Key(d) THEN e.severity = d.severity ELSE e \in ToSet(ds)
    BY <1>1, <2>3 DEF ToSet
  <2> QED
    BY <2>3, <2>4, <2>5, <2>6 DEF l
<1>3. CASE Key(d) \notin Keys(ds)
  <2>1. l = Append(ds, d)
    BY <1>3 DEF MergeOne
  <2>2. \A e \in ToSet(ds) : Key(e) # Key(d)
    BY <1>3 DEF Keys
  <2> QED
    BY <1>3, <2>1, <2>2, AppendToList
<1> QED
    BY <1>2, <1>3

Merges(m, ds, new) ==
  m = [n \in 0 .. Len(new) |-> IF n = 0 THEN ds ELSE MergeOne(m[n - 1], new[n])]

LEMMA MergeLoop ==
  ASSUME NEW ds \in Seq(Diagnostic), NEW new \in Seq(Diagnostic),
         \A q \in Seq(Diagnostic), d \in Diagnostic : MergeOne(q, d) \in Seq(Diagnostic)
  PROVE  \E m : Merges(m, ds, new) /\ Merge(ds, new) = m[Len(new)]
<1> DEFINE N == Len(new)
           Q == Seq(Diagnostic)
           Step == [qk \in Q \X (1 .. N) |-> MergeOne(qk[1], new[qk[2]])]
<1>1. N \in Nat /\ \A k \in 1 .. N : new[k] \in Diagnostic
    OBVIOUS
<1>2. \A q \in Q, k \in 1 .. N : MergeOne(q, new[k]) \in Q
    BY <1>1
<1>3. Step \in [Q \X (1 .. N) -> Q]
    BY <1>2
<1>4. \A q \in Q, k \in 1 .. N : Step[<<q, k>>] = MergeOne(q, new[k])
    OBVIOUS
<1> HIDE DEF Step, Q, N
<1>5. PICK m \in [0 .. N -> Q] : Loop(m, ds, Step, N)
    BY <1>1, <1>3, LoopExists DEF Q
<1>6. ASSUME NEW k \in 0 .. N
      PROVE  m[k] = IF k = 0 THEN ds ELSE MergeOne(m[k - 1], new[k])
  <2>1. CASE k = 0
    BY <1>5, <2>1 DEF Loop
  <2>2. CASE k \in 1 .. N
    <3>1. m[k - 1] \in Q
      BY <1>1, <1>5, <2>2
    <3> QED
      BY <1>4, <1>5, <2>2, <3>1 DEF Loop
  <2> QED
    BY <1>1, <2>1, <2>2
<1>7. Merges(m, ds, new)
    BY <1>5, <1>6 DEF Merges, N
<1>8. Merge(ds, new) = (CHOOSE q : Merges(q, ds, new))[Len(new)]
    BY DEF Merge, Merges
<1> QED
    BY <1>7, <1>8

\* The merge of all findings into diagnostics that have findings.
LEMMA MergeIs ==
  ASSUME NEW ds \in Seq(Diagnostic), Unique(ds), NEW new \in Seq(Diagnostic),
         Keys(ds) \subseteq Keys(new)
  PROVE  /\ Merge(ds, new) \in Seq(Diagnostic)
         /\ Unique(Merge(ds, new))
         /\ Keys(Merge(ds, new)) = Keys(new)
         /\ \A e \in ToSet(Merge(ds, new)) :
              \E d \in ToSet(new) : Key(e) = Key(d) /\ e.severity = d.severity
<1> DEFINE N == Len(new)
<1>1. PICK m : Merges(m, ds, new) /\ Merge(ds, new) = m[N]
    BY MergeLoop, MergeOneType
<1>2. m[0] = ds /\ \A n \in 1 .. N : m[n] = MergeOne(m[n - 1], new[n])
    BY <1>1, SMTT(30) DEF Merges
<1>3. N \in Nat /\ DOMAIN new = 1 .. N /\ \A i \in 1 .. N : new[i] \in Diagnostic
    OBVIOUS
<1> HIDE DEF N
<1> DEFINE Before(n) == {new[i] : i \in 1 .. n}
           KeysBefore(n) == {Key(d) : d \in Before(n)}
           Good(q, n) ==
             /\ q \in Seq(Diagnostic) /\ Unique(q)
             /\ Keys(q) = Keys(ds) \cup KeysBefore(n)
             /\ \A e \in ToSet(q) :
                  \/ Key(e) \notin KeysBefore(n)
                  \/ \E d \in Before(n) : Key(e) = Key(d) /\ e.severity = d.severity
           P == {n \in Nat : n <= N => Good(m[n], n)}
<1>4. 0 \in P
  <2>1. Before(0) = {} /\ KeysBefore(0) = {}
    OBVIOUS
  <2>2. Good(ds, 0)
    BY <2>1
  <2> HIDE DEF Good
  <2> QED
    BY <1>2, <2>2
<1>5. ASSUME NEW n \in Nat, n < N, n \in P PROVE n + 1 \in P
  <2> DEFINE q == m[n]
             d == new[n + 1]
             l == MergeOne(q, d)
  <2>1. Good(q, n) /\ d \in Diagnostic
    BY <1>3, <1>5
  <2>2. m[n + 1] = l
    BY <1>2, <1>3, <1>5
  <2>3. Before(n + 1) = Before(n) \cup {d}
    <3>1. 1 .. n + 1 = (1 .. n) \cup {n + 1}
      OBVIOUS
    <3> QED
      BY <3>1
  <2>4. KeysBefore(n + 1) = KeysBefore(n) \cup {Key(d)}
    BY <2>3
  <2> HIDE DEF Before, KeysBefore, d, q
  <2>5. /\ l \in Seq(Diagnostic) /\ Unique(l)
        /\ Keys(l) = Keys(q) \cup {Key(d)}
        /\ \A e \in ToSet(l) : IF Key(e) = Key(d) THEN e.severity = d.severity ELSE e \in ToSet(q)
    BY <2>1, MergeOneIs
  <2> HIDE DEF l
  <2>6. ASSUME NEW e \in ToSet(l), Key(e) \in KeysBefore(n + 1)
        PROVE  \E b \in Before(n + 1) : Key(e) = Key(b) /\ e.severity = b.severity
    <3>1. CASE Key(e) = Key(d)
      BY <2>3, <2>5, <3>1
    <3>2. CASE Key(e) # Key(d)
      BY <2>1, <2>3, <2>4, <2>5, <2>6, <3>2
    <3> QED
      BY <3>1, <3>2
  <2>7. Good(l, n + 1)
    BY <2>1, <2>4, <2>5, <2>6
  <2> HIDE DEF Good
  <2> QED
    BY <2>2, <2>7
<1> HIDE DEF P
<1>6. 0 .. N \subseteq P
    BY <1>3, <1>4, <1>5, UpTo
<1>7. Before(N) = ToSet(new)
    BY <1>3 DEF ToSet
<1>8. KeysBefore(N) = Keys(new)
    BY <1>7 DEF Keys
<1>9. N \in P
    BY <1>3, <1>6
<1>10. Good(Merge(ds, new), N)
    BY <1>1, <1>3, <1>9, SMTT(30) DEF P
<1> HIDE DEF Before, KeysBefore
<1>11. \A e \in ToSet(Merge(ds, new)) : Key(e) \in Keys(new)
    BY <1>8, <1>10 DEF Keys
<1> QED
    BY <1>7, <1>8, <1>10, <1>11
-----------------------------------------------------------------------------
(* The upsert into the shared vector.                                      *)

LEMMA UpsertOneType ==
  ASSUME NEW ds \in Seq(Diagnostic), NEW d \in Diagnostic
  PROVE  UpsertOne(ds, d) \in Seq(Diagnostic)
<1>1. Len(ds) \in Nat /\ DOMAIN ds = 1 .. Len(ds) /\ \A i \in 1 .. Len(ds) : ds[i] \in Diagnostic
    OBVIOUS
<1>2. \/ UpsertOne(ds, d) = [i \in 1 .. Len(ds) |-> IF Key(ds[i]) = Key(d) THEN d ELSE ds[i]]
      \/ UpsertOne(ds, d) = Append(ds, d)
    BY <1>1 DEF UpsertOne
<1> QED
    BY <1>1, <1>2

LEMMA UpsertOneIs ==
  ASSUME NEW ds \in Seq(Diagnostic), Unique(ds), NEW d \in Diagnostic
  PROVE  /\ Unique(UpsertOne(ds, d))
         /\ ToSet(UpsertOne(ds, d)) = {e \in ToSet(ds) : Key(e) # Key(d)} \cup {d}
         /\ Key(d) \in Keys(ds) => Len(UpsertOne(ds, d)) = Len(ds)
<1> DEFINE l == UpsertOne(ds, d)
<1>1. Len(ds) \in Nat /\ DOMAIN ds = 1 .. Len(ds) /\ \A i \in 1 .. Len(ds) : ds[i] \in Diagnostic
    OBVIOUS
<1>2. CASE Key(d) \in Keys(ds)
  <2>1. l = [i \in 1 .. Len(ds) |-> IF Key(ds[i]) = Key(d) THEN d ELSE ds[i]]
    BY <1>1, <1>2 DEF UpsertOne
  <2>2. PICK k \in 1 .. Len(ds) : Key(ds[k]) = Key(d)
    BY <1>1, <1>2, KeysOfList
  <2> HIDE DEF l
  <2>3. /\ l \in Seq(Diagnostic) /\ DOMAIN l = 1 .. Len(ds) /\ Len(l) = Len(ds)
        /\ \A i \in 1 .. Len(ds) : Key(l[i]) = Key(ds[i])
        /\ \A i \in 1 .. Len(ds) : l[i] = IF Key(ds[i]) = Key(d) THEN d ELSE ds[i]
    BY <1>1, <2>1
  <2>4. Unique(l)
    BY <1>1, <2>3 DEF Unique
  <2>5. ToSet(l) = {e \in ToSet(ds) : Key(e) # Key(d)} \cup {d}
    <3>1. \A e \in ToSet(l) : e = d \/ (e \in ToSet(ds) /\ Key(e) # Key(d))
      BY <1>1, <2>3 DEF ToSet
    <3>2. \A e \in ToSet(ds) : Key(e) # Key(d) => e \in ToSet(l)
      BY <1>1, <2>3 DEF ToSet
    <3>3. d \in ToSet(l)
      BY <2>2, <2>3 DEF ToSet
    <3> QED
      BY <3>1, <3>2, <3>3
  <2> QED
    BY <2>3, <2>4, <2>5 DEF l
<1>3. CASE Key(d) \notin Keys(ds)
  <2>1. l = Append(ds, d)
    BY <1>3 DEF UpsertOne
  <2>2. \A e \in ToSet(ds) : Key(e) # Key(d)
    BY <1>3 DEF Keys
  <2>3. {e \in ToSet(ds) : Key(e) # Key(d)} = ToSet(ds)
    BY <2>2
  <2> QED
    BY <1>3, <2>1, <2>3, AppendToList
<1> QED
    BY <1>2, <1>3

Upserts(m, ds, new) ==
  m = [n \in 0 .. Len(new) |-> IF n = 0 THEN ds ELSE UpsertOne(m[n - 1], new[n])]

LEMMA UpsertLoop ==
  ASSUME NEW ds \in Seq(Diagnostic), NEW new \in Seq(Diagnostic),
         \A q \in Seq(Diagnostic), d \in Diagnostic : UpsertOne(q, d) \in Seq(Diagnostic)
  PROVE  \E m : Upserts(m, ds, new) /\ UpsertAll(ds, new) = m[Len(new)]
<1> DEFINE N == Len(new)
           Q == Seq(Diagnostic)
           Step == [qk \in Q \X (1 .. N) |-> UpsertOne(qk[1], new[qk[2]])]
<1>1. N \in Nat /\ \A k \in 1 .. N : new[k] \in Diagnostic
    OBVIOUS
<1>2. \A q \in Q, k \in 1 .. N : UpsertOne(q, new[k]) \in Q
    BY <1>1
<1>3. Step \in [Q \X (1 .. N) -> Q]
    BY <1>2
<1>4. \A q \in Q, k \in 1 .. N : Step[<<q, k>>] = UpsertOne(q, new[k])
    OBVIOUS
<1> HIDE DEF Step, Q, N
<1>5. PICK m \in [0 .. N -> Q] : Loop(m, ds, Step, N)
    BY <1>1, <1>3, LoopExists DEF Q
<1>6. ASSUME NEW k \in 0 .. N
      PROVE  m[k] = IF k = 0 THEN ds ELSE UpsertOne(m[k - 1], new[k])
  <2>1. CASE k = 0
    BY <1>5, <2>1 DEF Loop
  <2>2. CASE k \in 1 .. N
    <3>1. m[k - 1] \in Q
      BY <1>1, <1>5, <2>2
    <3> QED
      BY <1>4, <1>5, <2>2, <3>1 DEF Loop
  <2> QED
    BY <1>1, <2>1, <2>2
<1>7. Upserts(m, ds, new)
    BY <1>5, <1>6 DEF Upserts, N
<1>8. UpsertAll(ds, new) = (CHOOSE q : Upserts(q, ds, new))[Len(new)]
    BY DEF UpsertAll, Upserts
<1> QED
    BY <1>7, <1>8

\* An upsert of a batch without two of one key: the batch, and what has keys
\* of its own.
LEMMA UpsertAllIs ==
  ASSUME NEW ds \in Seq(Diagnostic), Unique(ds), NEW new \in Seq(Diagnostic), Unique(new)
  PROVE  /\ UpsertAll(ds, new) \in Seq(Diagnostic)
         /\ Unique(UpsertAll(ds, new))
         /\ ToSet(UpsertAll(ds, new))
              = {e \in ToSet(ds) : Key(e) \notin Keys(new)} \cup ToSet(new)
         /\ Keys(new) \subseteq Keys(ds) => Len(UpsertAll(ds, new)) = Len(ds)
<1> DEFINE N == Len(new)
<1>1. PICK m : Upserts(m, ds, new) /\ UpsertAll(ds, new) = m[N]
    BY UpsertLoop, UpsertOneType
<1>2. m[0] = ds /\ \A n \in 1 .. N : m[n] = UpsertOne(m[n - 1], new[n])
    BY <1>1, SMTT(30) DEF Upserts
<1>3. N \in Nat /\ DOMAIN new = 1 .. N /\ \A i \in 1 .. N : new[i] \in Diagnostic
    OBVIOUS
<1> HIDE DEF N
<1> DEFINE Before(n) == {new[i] : i \in 1 .. n}
           KeysBefore(n) == {Key(d) : d \in Before(n)}
           Good(q, n) ==
             /\ q \in Seq(Diagnostic) /\ Unique(q)
             /\ ToSet(q) = {e \in ToSet(ds) : Key(e) \notin KeysBefore(n)} \cup Before(n)
             /\ Keys(new) \subseteq Keys(ds) => Len(q) = Len(ds)
           P == {n \in Nat : n <= N => Good(m[n], n)}
<1>4. 0 \in P
  <2>1. Before(0) = {} /\ KeysBefore(0) = {}
    OBVIOUS
  <2>2. Good(ds, 0)
    BY <2>1
  <2> HIDE DEF Good
  <2> QED
    BY <1>2, <2>2
<1>5. ASSUME NEW n \in Nat, n < N, n \in P PROVE n + 1 \in P
  <2> DEFINE q == m[n]
             d == new[n + 1]
             l == UpsertOne(q, d)
  <2>1. Good(q, n) /\ d \in Diagnostic
    BY <1>3, <1>5
  <2>2. m[n + 1] = l
    BY <1>2, <1>3, <1>5, SMTT(30)
  <2>3. Before(n + 1) = Before(n) \cup {d}
    <3>1. 1 .. n + 1 = (1 .. n) \cup {n + 1}
      OBVIOUS
    <3> QED
      BY <3>1
  <2>4. KeysBefore(n + 1) = KeysBefore(n) \cup {Key(d)}
    BY <2>3
  <2>5. \A e \in Before(n) : Key(e) # Key(d)
    BY <1>3, <1>5 DEF Unique
  <2>6. Key(d) \in Keys(new) /\ \A e \in Before(n) : Key(e) \in KeysBefore(n)
    BY <1>3, <1>5, KeysOfList, SMTT(30)
  <2> HIDE DEF Before, d, q
  <2>7. /\ l \in Seq(Diagnostic) /\ Unique(l)
        /\ ToSet(l) = {e \in ToSet(q) : Key(e) # Key(d)} \cup {d}
        /\ Key(d) \in Keys(q) => Len(l) = Len(q)
    BY <2>1, UpsertOneIs, UpsertOneType
  <2> HIDE DEF l
  <2>8. ToSet(l) = {e \in ToSet(ds) : Key(e) \notin KeysBefore(n + 1)} \cup Before(n + 1)
    <3> HIDE DEF KeysBefore
    <3> QED
      BY <2>1, <2>3, <2>4, <2>5, <2>7
  <2>9. Keys(new) \subseteq Keys(ds) => Len(l) = Len(ds)
    <3> SUFFICES ASSUME Keys(new) \subseteq Keys(ds) PROVE Key(d) \in Keys(q)
      BY <2>1, <2>7
    <3>1. PICK e \in ToSet(ds) : Key(e) = Key(d)
      BY <2>6 DEF Keys
    <3>2. CASE Key(d) \in KeysBefore(n)
      <4>1. PICK b \in Before(n) : Key(b) = Key(d)
        BY <3>2
      <4> QED
        BY <2>5, <4>1
    <3>3. CASE Key(d) \notin KeysBefore(n)
      <4>1. e \in ToSet(q)
        BY <2>1, <3>1, <3>3
      <4> QED
        BY <3>1, <4>1 DEF Keys
    <3> QED
      BY <3>2, <3>3
  <2>10. Good(l, n + 1)
    BY <2>7, <2>8, <2>9
  <2> HIDE DEF Good
  <2> QED
    BY <2>2, <2>10
<1> HIDE DEF P
<1>6. 0 .. N \subseteq P
    BY <1>3, <1>4, <1>5, UpTo
<1>7. Before(N) = ToSet(new)
    BY <1>3 DEF ToSet
<1>8. KeysBefore(N) = Keys(new)
    BY <1>7 DEF Keys
<1>9. N \in P
    BY <1>3, <1>6
<1>10. Good(UpsertAll(ds, new), N)
    BY <1>1, <1>3, <1>9 DEF P
<1> QED
    BY <1>7, <1>8, <1>10
-----------------------------------------------------------------------------
(* The sort and the eviction.                                              *)

Rising(ds) == \A i, j \in DOMAIN ds : i < j => ds[i].severity <= ds[j].severity

\* Two lists after one another.
LEMMA Concatenation ==
  ASSUME NEW a \in Seq(Diagnostic), NEW b \in Seq(Diagnostic),
         Unique(a), Unique(b), \A d \in ToSet(a), e \in ToSet(b) : Key(d) # Key(e),
         Rising(a), Rising(b), \A d \in ToSet(a), e \in ToSet(b) : d.severity <= e.severity
  PROVE  /\ a \o b \in Seq(Diagnostic) /\ Len(a \o b) = Len(a) + Len(b)
         /\ ToSet(a \o b) = ToSet(a) \cup ToSet(b)
         /\ Unique(a \o b) /\ Rising(a \o b)
<1> DEFINE c == a \o b
           M == Len(a)
           N == Len(b)
<1>1. /\ c \in Seq(Diagnostic) /\ Len(c) = M + N /\ M \in Nat /\ N \in Nat
      /\ DOMAIN a = 1 .. M /\ DOMAIN b = 1 .. N /\ DOMAIN c = 1 .. M + N
    OBVIOUS
<1>2. \A i \in 1 .. M : c[i] = a[i]
    OBVIOUS
<1>3. \A k \in 1 .. N : M + k \in 1 .. M + N /\ c[M + k] = b[k]
    OBVIOUS
<1>4. /\ \A i \in 1 .. M : a[i] \in Diagnostic /\ a[i] \in ToSet(a)
      /\ \A k \in 1 .. N : b[k] \in Diagnostic /\ b[k] \in ToSet(b)
    BY <1>1 DEF ToSet
<1> HIDE DEF c, M, N
<1>5. \A i \in 1 .. M + N : i \in 1 .. M \/ \E k \in 1 .. N : i = M + k
  <2> TAKE i \in 1 .. M + N
  <2>1. i > M => i - M \in 1 .. N /\ i = M + (i - M)
    BY <1>1
  <2> QED
    BY <1>1, <2>1
<1>6. 1 .. M \subseteq 1 .. M + N
    BY <1>1
<1>7. ToSet(c) = ToSet(a) \cup ToSet(b)
  <2>1. ASSUME NEW x \in ToSet(c) PROVE x \in ToSet(a) \cup ToSet(b)
    <3>1. PICK i \in 1 .. M + N : x = c[i]
      BY <1>1, <2>1 DEF ToSet
    <3> QED
      BY <1>2, <1>3, <1>4, <1>5, <3>1
  <2>2. ASSUME NEW x \in ToSet(a) PROVE x \in ToSet(c)
    BY <1>1, <1>2, <1>6, <2>2 DEF ToSet
  <2>3. ASSUME NEW x \in ToSet(b) PROVE x \in ToSet(c)
    BY <1>1, <1>3, <2>3 DEF ToSet
  <2> QED
    BY <2>1, <2>2, <2>3
<1>8. Unique(c)
  <2> SUFFICES ASSUME NEW i \in 1 .. M + N, NEW j \in 1 .. M + N, Key(c[i]) = Key(c[j])
               PROVE  i = j
    BY <1>1 DEF Unique
  <2>1. CASE i \in 1 .. M /\ j \in 1 .. M
    BY <1>1, <1>2, <2>1 DEF Unique
  <2>2. ASSUME NEW k \in 1 .. N, i = M + k, NEW l \in 1 .. N, j = M + l PROVE i = j
    <3>1. k = l
      BY <1>1, <1>3, <2>2 DEF Unique
    <3> QED
      BY <2>2, <3>1
  <2>3. ASSUME NEW k \in 1 .. N, i = M + k, j \in 1 .. M PROVE FALSE
    BY <1>2, <1>3, <1>4, <2>3
  <2>4. ASSUME NEW k \in 1 .. N, j = M + k, i \in 1 .. M PROVE FALSE
    BY <1>2, <1>3, <1>4, <2>4
  <2> QED
    BY <1>5, <2>1, <2>2, <2>3, <2>4
<1>9. Rising(c)
  <2> SUFFICES ASSUME NEW i \in 1 .. M + N, NEW j \in 1 .. M + N, i < j
               PROVE  c[i].severity <= c[j].severity
    BY <1>1 DEF Rising
  <2>1. CASE i \in 1 .. M /\ j \in 1 .. M
    BY <1>1, <1>2, <2>1 DEF Rising
  <2>2. ASSUME NEW k \in 1 .. N, i = M + k, NEW l \in 1 .. N, j = M + l
        PROVE  c[i].severity <= c[j].severity
    <3>1. k < l
      BY <1>1, <2>2
    <3>2. b[k].severity <= b[l].severity
      BY <1>1, <3>1 DEF Rising
    <3> QED
      BY <1>3, <2>2, <3>2
  <2>3. ASSUME NEW k \in 1 .. N, i = M + k, j \in 1 .. M PROVE FALSE
    BY <1>1, <2>3
  <2>4. ASSUME NEW k \in 1 .. N, j = M + k, i \in 1 .. M PROVE c[i].severity <= c[j].severity
    BY <1>2, <1>3, <1>4, <2>4
  <2> QED
    BY <1>5, <2>1, <2>2, <2>3, <2>4
<1> QED
    BY <1>1, <1>7, <1>8, <1>9 DEF c, M, N

\* Three sets that share out a list keep as many as there are.
LEMMA RetainShares ==
  ASSUME NEW ds \in Seq(Diagnostic), NEW A, NEW B, NEW C,
         \A d \in ToSet(ds) : \/ d \in A /\ d \notin B /\ d \notin C
                              \/ d \notin A /\ d \in B /\ d \notin C
                              \/ d \notin A /\ d \notin B /\ d \in C
  PROVE  Len(Retain(ds, A)) + Len(Retain(ds, B)) + Len(Retain(ds, C)) = Len(ds)
<1> DEFINE N == Len(ds)
<1>1. PICK a : Retains(a, ds, A) /\ Retain(ds, A) = a[N]
    BY RetainLoop
<1>2. PICK b : Retains(b, ds, B) /\ Retain(ds, B) = b[N]
    BY RetainLoop
<1>3. PICK c : Retains(c, ds, C) /\ Retain(ds, C) = c[N]
    BY RetainLoop
<1>4. N \in Nat /\ \A i \in 1 .. N : ds[i] \in Diagnostic /\ ds[i] \in ToSet(ds)
    BY DEF ToSet
<1>5. /\ a[0] = <<>> /\ b[0] = <<>> /\ c[0] = <<>>
      /\ \A n \in 1 .. N : /\ a[n] = RetainRound(a[n - 1], ds[n], A)
                           /\ b[n] = RetainRound(b[n - 1], ds[n], B)
                           /\ c[n] = RetainRound(c[n - 1], ds[n], C)
    BY <1>1, <1>2, <1>3, <1>4 DEF Retains
<1> HIDE DEF N
<1> DEFINE Good(x, y, z, n) ==
             /\ x \in Seq(Diagnostic) /\ y \in Seq(Diagnostic) /\ z \in Seq(Diagnostic)
             /\ Len(x) + Len(y) + Len(z) = n
           P == {n \in Nat : n <= N => Good(a[n], b[n], c[n], n)}
<1>6. 0 \in P
  <2>1. Good(<<>>, <<>>, <<>>, 0)
    OBVIOUS
  <2> HIDE DEF Good
  <2> QED
    BY <1>5, <2>1
<1>7. ASSUME NEW n \in Nat, n < N, n \in P PROVE n + 1 \in P
  <2> DEFINE x == a[n]
             y == b[n]
             z == c[n]
             d == ds[n + 1]
  <2> HIDE DEF Good
  <2>1. Good(x, y, z, n) /\ n + 1 \in 1 .. N
    BY <1>4, <1>7
  <2>2. d \in Diagnostic /\ d \in ToSet(ds)
    BY <1>4, <2>1
  <2>3. /\ a[n + 1] = RetainRound(x, d, A) /\ b[n + 1] = RetainRound(y, d, B)
        /\ c[n + 1] = RetainRound(z, d, C)
    BY <1>4, <1>5, <1>7, <2>1
  <2> HIDE DEF x, y, z, d
  <2>4. ASSUME NEW q \in Seq(Diagnostic), NEW S
        PROVE  /\ RetainRound(q, d, S) \in Seq(Diagnostic) /\ Len(q) \in Nat
               /\ Len(RetainRound(q, d, S)) = IF d \in S THEN Len(q) + 1 ELSE Len(q)
    BY <2>2, AppendToList DEF RetainRound
  <2>5. /\ x \in Seq(Diagnostic) /\ y \in Seq(Diagnostic) /\ z \in Seq(Diagnostic)
        /\ Len(x) + Len(y) + Len(z) = n
    BY <2>1 DEF Good
  <2> DEFINE u == RetainRound(x, d, A)
             v == RetainRound(y, d, B)
             w == RetainRound(z, d, C)
  <2>6. /\ u \in Seq(Diagnostic) /\ v \in Seq(Diagnostic) /\ w \in Seq(Diagnostic)
        /\ Len(u) = IF d \in A THEN Len(x) + 1 ELSE Len(x)
        /\ Len(v) = IF d \in B THEN Len(y) + 1 ELSE Len(y)
        /\ Len(w) = IF d \in C THEN Len(z) + 1 ELSE Len(z)
        /\ Len(x) \in Nat /\ Len(y) \in Nat /\ Len(z) \in Nat
    BY <2>4, <2>5
  <2> HIDE DEF u, v, w
  <2>7. /\ Len(x) \in Nat /\ Len(y) \in Nat /\ Len(z) \in Nat
        /\ Len(x) + Len(y) + Len(z) = n
    BY <2>5, <2>6
  <2>8. Len(u) + Len(v) + Len(w) = n + 1
    <3>1. CASE d \in A /\ d \notin B /\ d \notin C
      <4>1. Len(u) = Len(x) + 1 /\ Len(v) = Len(y) /\ Len(w) = Len(z)
        BY <2>6, <3>1
      <4> QED
        BY <2>7, <4>1
    <3>2. CASE d \notin A /\ d \in B /\ d \notin C
      <4>1. Len(u) = Len(x) /\ Len(v) = Len(y) + 1 /\ Len(w) = Len(z)
        BY <2>6, <3>2
      <4> QED
        BY <2>7, <4>1
    <3>3. CASE d \notin A /\ d \notin B /\ d \in C
      <4>1. Len(u) = Len(x) /\ Len(v) = Len(y) /\ Len(w) = Len(z) + 1
        BY <2>6, <3>3
      <4> QED
        BY <2>7, <4>1
    <3> QED
      BY <2>2, <3>1, <3>2, <3>3
  <2>9. Good(u, v, w, n + 1)
    BY <2>6, <2>8 DEF Good
  <2> QED
    BY <2>3, <2>9 DEF u, v, w
<1> HIDE DEF P
<1>8. 0 .. N \subseteq P
    BY <1>4, <1>6, <1>7, UpTo
<1>9. N \in P
    BY <1>4, <1>8
<1> HIDE DEF Good
<1>10. Good(a[N], b[N], c[N], N)
    BY <1>4, <1>9 DEF P
<1> QED
    BY <1>1, <1>2, <1>3, <1>10 DEF Good, N

LEMMA BySeverityIs ==
  ASSUME NEW ds \in Seq(Diagnostic), Unique(ds)
  PROVE  /\ BySeverity(ds) \in Seq(Diagnostic) /\ Len(BySeverity(ds)) = Len(ds)
         /\ ToSet(BySeverity(ds)) = ToSet(ds)
         /\ Unique(BySeverity(ds)) /\ Rising(BySeverity(ds))
<1> DEFINE Of(s) == {d \in ToSet(ds) : d.severity = s}
           R(s) == Retain(ds, Of(s))
<1>1. \A d \in ToSet(ds) : d \in Diagnostic
    BY DEF ToSet
<1>2. \A d \in ToSet(ds) : d.severity \in {0, 1, 2}
    BY <1>1 DEF Diagnostic, Severities
<1>3. ASSUME NEW s \in {0, 1, 2}
      PROVE  R(s) \in Seq(Diagnostic) /\ ToSet(R(s)) = Of(s) /\ Unique(R(s))
    BY RetainIs
<1>4. ASSUME NEW s \in {0, 1, 2} PROVE Rising(R(s))
  <2>1. \A i \in DOMAIN R(s) : R(s)[i] \in Of(s)
    BY <1>3 DEF ToSet
  <2> HIDE DEF R
  <2> QED
    BY <2>1 DEF Rising
<1>5. \A s, t \in {0, 1, 2} : s # t =>
        \A d \in Of(s), e \in Of(t) : Key(d) # Key(e)
  <2> SUFFICES ASSUME NEW i \in DOMAIN ds, NEW j \in DOMAIN ds, Key(ds[i]) = Key(ds[j])
               PROVE  ds[i].severity = ds[j].severity
    BY KeysOfList
  <2> QED
    BY DEF Unique
<1>6. Len(R(0)) + Len(R(1)) + Len(R(2)) = Len(ds)
    BY <1>2, RetainShares
<1>7. BySeverity(ds) = (R(0) \o R(1)) \o R(2)
    BY DEF BySeverity
<1>8. Of(0) \cup Of(1) \cup Of(2) = ToSet(ds)
    BY <1>2
<1>9. \A s \in {0, 1, 2} : \A d \in Of(s) : d.severity = s
    OBVIOUS
<1> HIDE DEF R, Of
<1> DEFINE c == R(0) \o R(1)
<1>10. /\ c \in Seq(Diagnostic) /\ Len(c) = Len(R(0)) + Len(R(1))
       /\ ToSet(c) = Of(0) \cup Of(1) /\ Unique(c) /\ Rising(c)
  <2> DEFINE a == R(0)
             b == R(1)
  <2>1. a \in Seq(Diagnostic) /\ Unique(a) /\ ToSet(a) = Of(0) /\ Rising(a)
    BY <1>3, <1>4
  <2>2. b \in Seq(Diagnostic) /\ Unique(b) /\ ToSet(b) = Of(1) /\ Rising(b)
    BY <1>3, <1>4
  <2>3. \A d \in Of(0), e \in Of(1) : Key(d) # Key(e) /\ d.severity <= e.severity
    BY <1>5, <1>9
  <2> HIDE DEF a, b
  <2>4. /\ a \o b \in Seq(Diagnostic) /\ Len(a \o b) = Len(a) + Len(b)
        /\ ToSet(a \o b) = ToSet(a) \cup ToSet(b)
        /\ Unique(a \o b) /\ Rising(a \o b)
    BY ONLY <2>1, <2>2, <2>3, Concatenation
  <2> QED
    BY <2>1, <2>2, <2>4 DEF a, b
<1> HIDE DEF c
<1>11. /\ \A d \in ToSet(c), e \in Of(2) : Key(d) # Key(e)
       /\ \A d \in ToSet(c), e \in Of(2) : d.severity <= e.severity
    BY <1>5, <1>9, <1>10
<1>12. /\ c \o R(2) \in Seq(Diagnostic) /\ Len(c \o R(2)) = Len(c) + Len(R(2))
       /\ ToSet(c \o R(2)) = ToSet(c) \cup Of(2)
       /\ Unique(c \o R(2)) /\ Rising(c \o R(2))
  <2> DEFINE b == R(2)
  <2>1. b \in Seq(Diagnostic) /\ Unique(b) /\ ToSet(b) = Of(2) /\ Rising(b)
    BY <1>3, <1>4
  <2> HIDE DEF b
  <2>2. \A d \in ToSet(c), e \in ToSet(b) : Key(d) # Key(e) /\ d.severity <= e.severity
    BY <1>11, <2>1
  <2>3. c \in Seq(Diagnostic) /\ Unique(c) /\ Rising(c)
    BY <1>10
  <2>4. /\ c \o b \in Seq(Diagnostic) /\ Len(c \o b) = Len(c) + Len(b)
        /\ ToSet(c \o b) = ToSet(c) \cup ToSet(b)
        /\ Unique(c \o b) /\ Rising(c \o b)
    BY ONLY <2>1, <2>2, <2>3, Concatenation
  <2> QED
    BY <2>1, <2>4 DEF b
<1> QED
    BY <1>6, <1>7, <1>8, <1>10, <1>12 DEF c

\* What the eviction leaves is no more than fits; what it takes is no more
\* severe than anything that it leaves.
LEMMA EvictIs ==
  ASSUME NEW ds \in Seq(Diagnostic), Unique(ds)
  PROVE  /\ Evict(ds) \in Seq(Diagnostic) /\ Unique(Evict(ds))
         /\ Len(Evict(ds)) <= MaxDiagnostics
         /\ ToSet(Evict(ds)) \subseteq ToSet(ds)
         /\ Len(ds) <= MaxDiagnostics => Evict(ds) = ds
         /\ \A d \in ToSet(ds) \ ToSet(Evict(ds)), e \in ToSet(Evict(ds)) :
              d.severity <= e.severity
<1>1. CASE Len(ds) <= MaxDiagnostics
  <2>1. Evict(ds) = ds
    BY <1>1, DiagnosticsAssumption DEF Evict
  <2> QED
    BY <1>1, <2>1
<1>2. CASE Len(ds) > MaxDiagnostics
  <2> DEFINE sorted == BySeverity(ds)
             N == Len(ds)
             x == N - MaxDiagnostics
             l == SubSeq(sorted, x + 1, N)
  <2>1. /\ sorted \in Seq(Diagnostic) /\ Len(sorted) = N
        /\ ToSet(sorted) = ToSet(ds) /\ Unique(sorted) /\ Rising(sorted)
    BY BySeverityIs
  <2>2. Evict(ds) = l
    BY <1>2, DiagnosticsAssumption DEF Evict
  <2>3. N \in Nat /\ x \in Nat /\ N = x + MaxDiagnostics /\ MaxDiagnostics \in Nat
    BY <1>2, DiagnosticsAssumption
  <2> HIDE DEF sorted, N, x
  <2>4. /\ l \in Seq(Diagnostic) /\ Len(l) = MaxDiagnostics /\ DOMAIN l = 1 .. MaxDiagnostics
        /\ \A i \in 1 .. MaxDiagnostics : l[i] = sorted[x + i]
    BY <2>1, <2>3
  <2>5. DOMAIN sorted = 1 .. N /\ \A i \in 1 .. MaxDiagnostics : x + i \in 1 .. N
    BY <2>1, <2>3
  <2> HIDE DEF l
  <2>6. Unique(l)
    <3> SUFFICES ASSUME NEW i \in 1 .. MaxDiagnostics, NEW j \in 1 .. MaxDiagnostics,
                        Key(l[i]) = Key(l[j])
                 PROVE  i = j
      BY <2>4 DEF Unique
    <3>1. x + i = x + j
      BY <2>1, <2>4, <2>5 DEF Unique
    <3> QED
      BY <2>3, <3>1
  <2>7. ToSet(l) \subseteq ToSet(sorted)
    BY <2>4, <2>5 DEF ToSet
  <2>8. ASSUME NEW d \in ToSet(sorted), d \notin ToSet(l), NEW e \in ToSet(l)
        PROVE  d.severity <= e.severity
    <3>1. PICK i \in 1 .. N : d = sorted[i]
      BY <2>5 DEF ToSet
    <3>2. PICK j \in 1 .. MaxDiagnostics : e = sorted[x + j]
      BY <2>4 DEF ToSet
    <3>3. i <= x
      <4> SUFFICES ASSUME i > x PROVE FALSE
        BY <2>3
      <4>1. i - x \in 1 .. MaxDiagnostics /\ x + (i - x) = i
        BY <2>3
      <4> QED
        BY <2>4, <2>8, <3>1, <4>1 DEF ToSet
    <3>4. i < x + j
      BY <2>3, <3>3
    <3> QED
      BY <2>1, <2>5, <3>1, <3>2, <3>4 DEF Rising
  <2> QED
    BY <1>2, <2>1, <2>2, <2>3, <2>4, <2>6, <2>7, <2>8 DEF N
<1>3. Len(ds) \in Nat /\ MaxDiagnostics \in Nat
    BY DiagnosticsAssumption
<1> QED
    BY <1>1, <1>2, <1>3

-----------------------------------------------------------------------------
(* The inductive invariant.                                                *)

LifeTyped ==
  /\ DOMAIN world \subseteq Pids /\ DOMAIN last \subseteq Pids
  /\ findings \subseteq RuleIds \X Pids
  /\ active \in Seq(Diagnostic) /\ shared \in Seq(Diagnostic)
  /\ channel \in Seq(Seq(Diagnostic))
  /\ nextId \in Nat /\ scripts \in Nat

NoneTwice ==
  /\ Unique(active) /\ Unique(shared)
  /\ \A i \in DOMAIN channel : Unique(channel[i])
  /\ Len(shared) <= MaxDiagnostics

\* What is shown is not dropped.
DroppedIsNotShown == \A k \in dropped : k \notin Keys(shared)

\* The active diagnostics are about to be sent, are the last batch on its
\* way, or have arrived.
Arriving ==
  \/ sending
  \/ channel # <<>> /\ channel[Len(channel)] = active
  \/ channel = <<>> /\ \A d \in ToSet(active) : d \in ToSet(shared) \/ Key(d) \in dropped

LifeInv == LifeTyped /\ NoneTwice /\ DroppedIsNotShown /\ Arriving /\ ActiveIsWhatMatched

LEMMA LifeInvSuffices == LifeInv => OnePerTargetAndCategory /\ ShownIsCurrent /\ ActiveIsWhatMatched
BY DEF LifeInv, NoneTwice, Unique, OnePerTargetAndCategory, Arriving, ShownIsCurrent

\* Rules have names of their own for what they find.
LEMMA RuleTypes ==
  \A r \in RuleIds : /\ Rules[r].category \in Categories /\ Rules[r].category # "ScriptRule"
                     /\ Rules[r].severity \in Severities
<1> TAKE r \in RuleIds
<1> DEFINE Rule == [min : Bands \ {0}, sustained : Nat, severity : Severities, category : STRING]
<1>1. Rules \in Seq(Rule)
    BY RuleAssumption
<1>2. Rules[r].severity \in Severities
  <2> HIDE DEF Rule
  <2>1. Rules[r] \in Rule
    BY <1>1 DEF RuleIds
  <2> QED
    BY <2>1 DEF Rule
<1>3. Rules[r].category # "ScriptRule" /\ Rules[r].category \in Categories
    BY DiagnosticsAssumption DEF Categories
<1> QED
    BY <1>2, <1>3

\* What is active comes from a rule, so it is never a script's.
LEMMA ActiveIsNoScripts ==
  ASSUME LifeInv, NEW d \in ToSet(active)
  PROVE  d.category # "ScriptRule"
<1>1. PICK f \in findings : Rules[f[1]].category = d.category
    BY DEF LifeInv, ActiveIsWhatMatched
<1>2. f[1] \in RuleIds
    BY DEF LifeInv, LifeTyped
<1> QED
    BY <1>1, <1>2, RuleTypes

LEMMA InitLife == Init => LifeInv
<1> SUFFICES ASSUME Init PROVE LifeInv
    OBVIOUS
<1>1. /\ <<>> \in Seq(Diagnostic) /\ <<>> \in Seq(Seq(Diagnostic))
      /\ DOMAIN <<>> = {} /\ Len(<<>>) = 0
    OBVIOUS
<1>2. Unique(<<>>) /\ ToSet(<<>>) = {} /\ Keys(<<>>) = {}
    BY <1>1 DEF Unique, ToSet, Keys
<1>3. LifeTyped
    BY <1>1 DEF Init, RuleInit, LifeTyped
<1>4. NoneTwice
    BY <1>1, <1>2, DiagnosticsAssumption DEF Init, NoneTwice
<1>5. DroppedIsNotShown /\ Arriving /\ ActiveIsWhatMatched
    BY <1>2 DEF Init, RuleInit, DroppedIsNotShown, Arriving, ActiveIsWhatMatched
<1> QED
    BY <1>3, <1>4, <1>5 DEF LifeInv

\* The world may change under the engine.
LEMMA WorldChangesKeeps == LifeInv /\ WorldChanges => LifeInv'
<1> SUFFICES ASSUME LifeInv, WorldChanges PROVE LifeInv'
    OBVIOUS
<1>1. DOMAIN world' \subseteq Pids
    BY DEF WorldChanges, Snapshot, Worlds
<1>2. UNCHANGED <<last, timers, findings, active, nextId, sending, channel, shared, scripts, dropped>>
    BY DEF WorldChanges, Snapshot
<1> QED
    BY <1>1, <1>2 DEF LifeInv, LifeTyped, NoneTwice, DroppedIsNotShown, Arriving, ActiveIsWhatMatched

\* The diagnostics that are generated are typed and have the findings' keys.
LEMMA GenerateIs ==
  ASSUME nextId \in Nat, NEW n \in Nat, NEW fs \in [1 .. n -> RuleIds \X Pids]
  PROVE  /\ Generate(fs) \in Seq(Diagnostic)
         /\ Keys(Generate(fs)) = {<<f[2], Rules[f[1]].category>> : f \in ToSet(fs)}
         /\ \A d \in ToSet(Generate(fs)) :
              \E f \in ToSet(fs) : /\ f[2] = d.target
                                   /\ Rules[f[1]].category = d.category
                                   /\ Rules[f[1]].severity = d.severity
<1> DEFINE new == Generate(fs)
           F == ToSet(fs)
<1>1. DOMAIN fs = 1 .. n
    OBVIOUS
<1>2. \A i \in 1 .. n : fs[i][1] \in RuleIds /\ fs[i][2] \in Pids /\ fs[i] \in F
    BY <1>1 DEF ToSet
<1>3. DOMAIN new = 1 .. n /\ new = [i \in 1 .. n |-> new[i]]
    BY <1>1 DEF Generate
<1>4. \A i \in 1 .. n : /\ new[i] \in Diagnostic
                        /\ new[i].target = fs[i][2]
                        /\ new[i].category = Rules[fs[i][1]].category
                        /\ new[i].severity = Rules[fs[i][1]].severity
    BY <1>1, <1>2, RuleTypes DEF Generate, Diagnostic
<1> HIDE DEF new
<1>5. new \in Seq(Diagnostic)
    BY <1>3, <1>4
<1>6. Keys(new) = {<<f[2], Rules[f[1]].category>> : f \in F}
  <2>1. ASSUME NEW k \in Keys(new) PROVE \E f \in F : k = <<f[2], Rules[f[1]].category>>
    <3>1. PICK i \in 1 .. n : Key(new[i]) = k
      BY <1>3, <2>1, KeysOfList
    <3> QED
      BY <1>2, <1>4, <3>1 DEF Key
  <2>2. ASSUME NEW f \in F PROVE <<f[2], Rules[f[1]].category>> \in Keys(new)
    <3>1. PICK i \in 1 .. n : fs[i] = f
      BY <1>1 DEF ToSet
    <3>2. Key(new[i]) = <<f[2], Rules[f[1]].category>>
      BY <1>4, <3>1 DEF Key
    <3> QED
      BY <1>3, <3>2, KeysOfList, Zenon
  <2> QED
    BY <2>1, <2>2
<1>7. \A d \in ToSet(new) : \E f \in F : /\ f[2] = d.target
                                         /\ Rules[f[1]].category = d.category
                                         /\ Rules[f[1]].severity = d.severity
    BY <1>2, <1>3, <1>4, SMTT(30) DEF ToSet
<1> QED
    BY <1>5, <1>6, <1>7 DEF new

\* A tick makes the active diagnostics what has just matched.
LEMMA TickKeeps ==
  ASSUME LifeInv, NEW dt, Tick(dt)
  PROVE  LifeInv'
<1>1. /\ last' = Ingest /\ UNCHANGED world
      /\ findings' = {rp \in RulePids(DOMAIN last') : Matches(rp[1], rp[2], last', timers')}
      /\ sending' = TRUE /\ UNCHANGED <<channel, shared, scripts, dropped>>
    BY DEF Tick, Evaluate
<1>2. DOMAIN last' \subseteq Pids
    BY <1>1 DEF LifeInv, LifeTyped, Ingest
<1>3. findings' \subseteq RuleIds \X Pids
    BY <1>1, <1>2 DEF RulePids
<1>4. PICK n \in 0 .. MaxId + 1 - nextId : \E fs \in FindingsInOrder(n) :
        /\ active' = Merge(Retain(active, {d \in ToSet(active) : Key(d) \in Keys(Generate(fs))}),
                           Generate(fs))
        /\ nextId' = nextId + n
    BY DEF Tick
<1>5. PICK fs \in FindingsInOrder(n) :
        /\ active' = Merge(Retain(active, {d \in ToSet(active) : Key(d) \in Keys(Generate(fs))}),
                           Generate(fs))
        /\ nextId' = nextId + n
    BY <1>4
<1>6. n \in Nat /\ fs \in [1 .. n -> findings'] /\ ToSet(fs) = findings'
    BY DEF FindingsInOrder
<1> DEFINE new == Generate(fs)
           S == {d \in ToSet(active) : Key(d) \in Keys(new)}
           kept == Retain(active, S)
           F == findings'
<1>7. nextId \in Nat /\ active \in Seq(Diagnostic) /\ Unique(active)
    BY DEF LifeInv, LifeTyped, NoneTwice
<1>8. /\ new \in Seq(Diagnostic)
      /\ Keys(new) = {<<f[2], Rules[f[1]].category>> : f \in F}
      /\ \A d \in ToSet(new) : \E f \in F : /\ f[2] = d.target
                                            /\ Rules[f[1]].category = d.category
                                            /\ Rules[f[1]].severity = d.severity
  <2>1. nextId \in Nat /\ n \in Nat /\ fs \in [1 .. n -> RuleIds \X Pids] /\ F = ToSet(fs)
    BY <1>3, <1>6, <1>7
  <2>2. /\ new \in Seq(Diagnostic)
        /\ Keys(new) = {<<f[2], Rules[f[1]].category>> : f \in ToSet(fs)}
        /\ \A d \in ToSet(new) : \E f \in ToSet(fs) : /\ f[2] = d.target
                                                   /\ Rules[f[1]].category = d.category
                                                   /\ Rules[f[1]].severity = d.severity
    BY <2>1, GenerateIs
  <2> HIDE DEF new, F
  <2> QED
    BY <2>1, <2>2, Zenon
<1>9. active' = Merge(kept, new)
    BY <1>5
<1> HIDE DEF new
<1>10. /\ kept \in Seq(Diagnostic) /\ Unique(kept)
      /\ ToSet(kept) = ToSet(active) \cap S
    BY <1>7, RetainIs
<1> HIDE DEF kept
<1>11. Keys(kept) \subseteq Keys(new)
    BY <1>10 DEF Keys
<1>12. /\ active' \in Seq(Diagnostic) /\ Unique(active')
       /\ Keys(active') = Keys(new)
       /\ \A e \in ToSet(active') :
            \E d \in ToSet(new) : Key(e) = Key(d) /\ e.severity = d.severity
    BY <1>8, <1>9, <1>10, <1>11, MergeIs
<1>13. LifeTyped'
    BY <1>1, <1>2, <1>3, <1>5, <1>6, <1>12 DEF LifeInv, LifeTyped
<1>14. NoneTwice' /\ DroppedIsNotShown' /\ Arriving'
    BY <1>1, <1>12 DEF LifeInv, NoneTwice, DroppedIsNotShown, Arriving, Unique
<1>15. ActiveIsWhatMatched'
  <2>1. ASSUME NEW e \in ToSet(active')
        PROVE  \E f \in F : /\ f[2] = e.target
                            /\ Rules[f[1]].category = e.category
                            /\ Rules[f[1]].severity = e.severity
    <3>1. PICK d \in ToSet(new) : Key(e) = Key(d) /\ e.severity = d.severity
      BY <1>12
    <3>2. e.target = d.target /\ e.category = d.category
      BY <3>1 DEF Key
    <3> QED
      BY <1>8, <3>1, <3>2
  <2> QED
    BY <1>8, <1>12, <2>1 DEF ActiveIsWhatMatched
<1> QED
    BY <1>13, <1>14, <1>15 DEF LifeInv

\* A send puts the active diagnostics last on the way.
LEMMA SendKeeps == LifeInv /\ Send => LifeInv'
<1> SUFFICES ASSUME LifeInv, Send PROVE LifeInv'
    OBVIOUS
<1>1. /\ channel' = Append(channel, active)
      /\ UNCHANGED <<world, last, timers, findings, active, nextId, shared, scripts, dropped>>
    BY DEF Send, ruleVars
<1>2. channel \in Seq(Seq(Diagnostic)) /\ active \in Seq(Diagnostic)
    BY DEF LifeInv, LifeTyped
<1>3. /\ channel' \in Seq(Seq(Diagnostic)) /\ channel' # <<>>
      /\ DOMAIN channel' = 1 .. Len(channel) + 1 /\ DOMAIN channel = 1 .. Len(channel)
      /\ Len(channel') = Len(channel) + 1 /\ Len(channel) \in Nat
      /\ \A i \in 1 .. Len(channel) : channel'[i] = channel[i]
      /\ channel'[Len(channel) + 1] = active
    BY <1>1, <1>2
<1>4. LifeTyped' /\ DroppedIsNotShown' /\ Arriving' /\ ActiveIsWhatMatched'
    BY <1>1, <1>3 DEF LifeInv, LifeTyped, DroppedIsNotShown, Arriving, ActiveIsWhatMatched
<1>5. NoneTwice'
    BY <1>1, <1>3 DEF LifeInv, NoneTwice
<1> QED
    BY <1>4, <1>5 DEF LifeInv

\* What an upsert does to the shared vector and to what was dropped.
LEMMA UpsertIs ==
  ASSUME shared \in Seq(Diagnostic), Unique(shared), DroppedIsNotShown,
         NEW batch \in Seq(Diagnostic), Unique(batch), Upsert(batch)
  PROVE  /\ shared' \in Seq(Diagnostic) /\ Unique(shared') /\ Len(shared') <= MaxDiagnostics
         /\ DroppedIsNotShown'
         /\ \A d \in {e \in ToSet(shared) : Key(e) \notin Keys(batch)} \cup ToSet(batch) :
              /\ d \in ToSet(shared') \/ Key(d) \in dropped'
              /\ Key(d) \notin Keys(shared') =>
                   \A e \in ToSet(shared') : d.severity <= e.severity
         /\ \A k \in dropped : k \notin Keys(batch) => k \in dropped'
         /\ Keys(batch) \subseteq Keys(shared) /\ Len(shared) <= MaxDiagnostics =>
              Keys(shared') = Keys(shared)
<1> DEFINE full == UpsertAll(shared, batch)
<1>1. /\ full \in Seq(Diagnostic) /\ Unique(full)
      /\ ToSet(full) = {e \in ToSet(shared) : Key(e) \notin Keys(batch)} \cup ToSet(batch)
      /\ Keys(batch) \subseteq Keys(shared) => Len(full) = Len(shared)
    BY UpsertAllIs
<1>2. shared' = Evict(full) /\ dropped' = (dropped \cup Keys(shared) \cup Keys(batch)) \ Keys(shared')
    BY DEF Upsert
<1> HIDE DEF full
<1>3. /\ shared' \in Seq(Diagnostic) /\ Unique(shared') /\ Len(shared') <= MaxDiagnostics
      /\ ToSet(shared') \subseteq ToSet(full)
      /\ Len(full) <= MaxDiagnostics => shared' = full
      /\ \A d \in ToSet(full) \ ToSet(shared'), e \in ToSet(shared') : d.severity <= e.severity
    BY <1>1, <1>2, EvictIs
<1>4. Keys(full) = Keys(shared) \cup Keys(batch)
  <2>1. \A d \in ToSet(full) : Key(d) \in Keys(shared) \cup Keys(batch)
    BY <1>1 DEF Keys
  <2>2. \A d \in ToSet(batch) : Key(d) \in Keys(full)
    BY <1>1 DEF Keys
  <2>3. \A d \in ToSet(shared) : Key(d) \notin Keys(batch) => Key(d) \in Keys(full)
    BY <1>1 DEF Keys
  <2>4. Keys(batch) \subseteq Keys(full)
    BY <2>2 DEF Keys
  <2>5. Keys(shared) \subseteq Keys(full)
    BY <2>3, <2>4 DEF Keys
  <2> QED
    BY <2>1, <2>4, <2>5 DEF Keys
<1>5. \A d \in ToSet(full), e \in ToSet(shared') : Key(d) = Key(e) => d = e
  <2>1. \A d, e \in ToSet(full) : Key(d) = Key(e) => d = e
    BY <1>1 DEF Unique, ToSet
  <2> QED
    BY <1>3, <2>1
<1>6. ASSUME NEW d \in ToSet(full)
      PROVE  /\ d \in ToSet(shared') \/ Key(d) \in dropped'
             /\ Key(d) \notin Keys(shared') =>
                  \A e \in ToSet(shared') : d.severity <= e.severity
  <2>1. Key(d) \in Keys(shared') => d \in ToSet(shared')
    BY <1>5 DEF Keys
  <2>2. Key(d) \in Keys(full)
    BY DEF Keys
  <2>3. Key(d) \notin Keys(shared') => d \notin ToSet(shared')
    BY DEF Keys
  <2> QED
    BY <1>2, <1>3, <1>4, <2>1, <2>2, <2>3
<1>7. \A k \in dropped : k \notin Keys(batch) => k \in dropped'
  <2>1. ToSet(shared') \subseteq ToSet(full) => Keys(shared') \subseteq Keys(full)
    BY DEF Keys
  <2> QED
    BY <1>2, <1>3, <1>4, <2>1 DEF DroppedIsNotShown
<1>8. DroppedIsNotShown'
    BY <1>2 DEF DroppedIsNotShown
<1>9. Keys(batch) \subseteq Keys(shared) /\ Len(shared) <= MaxDiagnostics => Keys(shared') = Keys(shared)
    BY <1>1, <1>3, <1>4
<1> QED
    BY <1>1, <1>3, <1>6, <1>7, <1>8, <1>9

\* The collector shows what has arrived, or it drops it.
LEMMA CollectKeeps == LifeInv /\ Collect => LifeInv'
<1> SUFFICES ASSUME LifeInv, Collect PROVE LifeInv'
    OBVIOUS
<1> DEFINE batch == Head(channel)
<1>1. /\ channel # <<>> /\ channel' = Tail(channel) /\ Upsert(batch)
      /\ UNCHANGED <<world, last, timers, findings, active, nextId, sending, scripts>>
    BY DEF Collect, engineVars, ruleVars
<1>2. /\ channel \in Seq(Seq(Diagnostic)) /\ shared \in Seq(Diagnostic) /\ Unique(shared)
      /\ DroppedIsNotShown /\ \A i \in DOMAIN channel : Unique(channel[i])
    BY DEF LifeInv, LifeTyped, NoneTwice
<1>3. /\ Len(channel) \in Nat \ {0} /\ DOMAIN channel = 1 .. Len(channel) /\ batch = channel[1]
      /\ batch \in Seq(Diagnostic) /\ channel' \in Seq(Seq(Diagnostic))
      /\ Len(channel') = Len(channel) - 1 /\ DOMAIN channel' = 1 .. Len(channel) - 1
      /\ \A i \in 1 .. Len(channel) - 1 : channel'[i] = channel[i + 1]
    BY <1>1, <1>2
<1> HIDE DEF batch
<1>4. Unique(batch)
  <2>1. 1 \in DOMAIN channel
    BY <1>3
  <2> QED
    BY <1>2, <1>3, <2>1
<1>5. /\ shared' \in Seq(Diagnostic) /\ Unique(shared') /\ Len(shared') <= MaxDiagnostics
      /\ DroppedIsNotShown'
      /\ \A d \in ToSet(batch) : d \in ToSet(shared') \/ Key(d) \in dropped'
    BY <1>1, <1>2, <1>3, <1>4, UpsertIs
<1>6. LifeTyped'
    BY <1>1, <1>3, <1>5 DEF LifeInv, LifeTyped
<1>7. NoneTwice'
  <2>1. \A i \in DOMAIN channel' : Unique(channel'[i])
    <3> TAKE i \in DOMAIN channel'
    <3>1. i + 1 \in 1 .. Len(channel) /\ channel'[i] = channel[i + 1]
      BY <1>3
    <3> QED
      BY <1>2, <1>3, <3>1
  <2> QED
    BY <1>1, <1>5, <2>1 DEF LifeInv, NoneTwice
<1>8. Arriving'
  <2>1. CASE sending
    BY <1>1, <2>1 DEF Arriving
  <2>2. CASE ~sending /\ Len(channel) = 1
    <3>1. channel' = <<>> /\ batch = active
      BY <1>1, <1>3, <2>2 DEF LifeInv, Arriving
    <3> QED
      BY <1>1, <1>5, <3>1 DEF Arriving
  <2>3. CASE ~sending /\ Len(channel) # 1
    <3>1. channel[Len(channel)] = active
      BY <1>1, <2>3 DEF LifeInv, Arriving
    <3>2. Len(channel) - 1 \in 1 .. Len(channel) - 1 /\ Len(channel) - 1 + 1 = Len(channel)
      BY <1>3, <2>3
    <3>3. channel'[Len(channel')] = active /\ channel' # <<>>
      BY <1>3, <3>1, <3>2
    <3> QED
      BY <1>1, <3>3 DEF Arriving
  <2> QED
    BY <2>1, <2>2, <2>3
<1>9. ActiveIsWhatMatched'
    BY <1>1 DEF LifeInv, ActiveIsWhatMatched
<1> QED
    BY <1>5, <1>6, <1>7, <1>8, <1>9 DEF LifeInv

\* A script's diagnostic takes no place of an active one but by eviction.
LEMMA BridgeKeeps ==
  ASSUME LifeInv, NEW p \in Pids, NEW severity \in Severities, Bridge(p, severity)
  PROVE  LifeInv'
<1> DEFINE new == [id |-> ScriptBase + scripts, target |-> p,
                   category |-> "ScriptRule", severity |-> severity]
           batch == <<new>>
<1>1. /\ Upsert(batch) /\ scripts' = scripts + 1
      /\ UNCHANGED <<world, last, timers, findings, active, nextId, sending, channel>>
    BY DEF Bridge, engineVars, ruleVars
<1>2. new \in Diagnostic /\ new.category = "ScriptRule"
  <2>1. ScriptBase + scripts \in Nat
    BY DiagnosticsAssumption DEF LifeInv, LifeTyped
  <2>2. "ScriptRule" \in Categories
    BY DEF Categories
  <2> QED
    BY <2>1, <2>2 DEF Diagnostic
<1>3. batch \in Seq(Diagnostic) /\ DOMAIN batch = {1} /\ batch[1] = new
    BY <1>2
<1> HIDE DEF new, batch
<1>4. Unique(batch) /\ Keys(batch) = {Key(new)}
    BY <1>3, KeysOfList DEF Unique
<1>5. /\ shared' \in Seq(Diagnostic) /\ Unique(shared') /\ Len(shared') <= MaxDiagnostics
      /\ DroppedIsNotShown'
      /\ \A d \in ToSet(shared) :
           Key(d) # Key(new) => d \in ToSet(shared') \/ Key(d) \in dropped'
      /\ \A k \in dropped : k # Key(new) => k \in dropped'
    BY <1>1, <1>3, <1>4, UpsertIs DEF LifeInv, LifeTyped, NoneTwice
<1>6. LifeTyped'
    BY <1>1, <1>5 DEF LifeInv, LifeTyped
<1>7. NoneTwice'
    BY <1>1, <1>5 DEF LifeInv, NoneTwice
<1>8. \A d \in ToSet(active) : Key(d) # Key(new)
    BY <1>2, ActiveIsNoScripts DEF Key
<1>9. Arriving'
    BY <1>1, <1>5, <1>8 DEF LifeInv, Arriving
<1>10. ActiveIsWhatMatched'
    BY <1>1 DEF LifeInv, ActiveIsWhatMatched
<1> QED
    BY <1>5, <1>6, <1>7, <1>9, <1>10 DEF LifeInv

\* What is dismissed is dropped.
LEMMA DismissKeeps ==
  ASSUME LifeInv, NEW id, Dismiss(id)
  PROVE  LifeInv' /\ Len(shared') < MaxDiagnostics
<1> DEFINE S == {d \in ToSet(shared) : d.id # id}
<1>1. /\ shared' = Retain(shared, S) /\ dropped' = dropped \cup (Keys(shared) \ Keys(shared'))
      /\ UNCHANGED <<world, last, timers, findings, active, nextId, sending, channel, scripts>>
      /\ \E d \in ToSet(shared) : d.id = id
    BY DEF Dismiss, engineVars, ruleVars
<1>2. shared \in Seq(Diagnostic) /\ Unique(shared) /\ Len(shared) <= MaxDiagnostics
    BY DEF LifeInv, LifeTyped, NoneTwice
<1>3. /\ shared' \in Seq(Diagnostic) /\ Unique(shared')
      /\ ToSet(shared') = ToSet(shared) \cap S
      /\ Len(shared') < Len(shared)
    BY <1>1, <1>2, RetainIs
<1> HIDE DEF S
<1>4. Len(shared') < MaxDiagnostics /\ Len(shared') <= MaxDiagnostics
    BY <1>2, <1>3, DiagnosticsAssumption
<1>5. Keys(shared') \subseteq Keys(shared)
    BY <1>3 DEF Keys
<1>6. ASSUME NEW d \in ToSet(shared), d \notin ToSet(shared') PROVE Key(d) \in dropped'
  <2>1. Key(d) \in Keys(shared)
    BY DEF Keys
  <2>2. \A e \in ToSet(shared) : Key(e) = Key(d) => e = d
    BY <1>2 DEF Unique, ToSet
  <2>3. Key(d) \notin Keys(shared')
    BY <1>3, <1>6, <2>2 DEF Keys
  <2> QED
    BY <1>1, <2>1, <2>3
<1>7. LifeTyped'
    BY <1>1, <1>3 DEF LifeInv, LifeTyped
<1>8. NoneTwice'
    BY <1>1, <1>3, <1>4 DEF LifeInv, NoneTwice
<1>9. DroppedIsNotShown'
    BY <1>1, <1>5 DEF LifeInv, DroppedIsNotShown
<1>10. Arriving'
    BY <1>1, <1>6 DEF LifeInv, Arriving
<1>11. ActiveIsWhatMatched'
    BY <1>1 DEF LifeInv, ActiveIsWhatMatched
<1> QED
    BY <1>4, <1>7, <1>8, <1>9, <1>10, <1>11 DEF LifeInv

LEMMA NextLife == LifeInv /\ [Next]_vars => LifeInv'
<1> SUFFICES ASSUME LifeInv, [Next]_vars PROVE LifeInv'
    OBVIOUS
<1>1. CASE WorldChanges
    BY <1>1, WorldChangesKeeps
<1>2. ASSUME NEW dt \in Elapsed, Tick(dt) PROVE LifeInv'
    BY <1>2, TickKeeps
<1>3. CASE Send
    BY <1>3, SendKeeps
<1>4. CASE Collect
    BY <1>4, CollectKeeps
<1>5. ASSUME NEW p \in Pids, NEW s \in Severities, Bridge(p, s) PROVE LifeInv'
    BY <1>5, BridgeKeeps
<1>6. ASSUME NEW d \in ToSet(shared), Dismiss(d.id) PROVE LifeInv'
    BY <1>6, DismissKeeps
<1>7. CASE UNCHANGED vars
    BY <1>7 DEF vars, engineVars, ruleVars, LifeInv, LifeTyped, NoneTwice, DroppedIsNotShown,
                Arriving, ActiveIsWhatMatched
<1> QED
    BY <1>1, <1>2, <1>3, <1>4, <1>5, <1>6, <1>7 DEF Next

-----------------------------------------------------------------------------
(* What is proved of the life of diagnostics.                              *)

LEMMA LifeAlways == Spec => []LifeInv
BY InitLife, NextLife, PTL DEF Spec

\* For any processes and rules, any capacity of the channel and any bound of
\* the vector: no (target, category) pair is active or shown twice, and the
\* vector keeps its bound, however the engine, the collector, the scripts and
\* the web page interleave.
THEOREM NoDiagnosticTwice == Spec => []OnePerTargetAndCategory
BY LifeAlways, LifeInvSuffices, PTL

\* The merge of a tick, in whichever order the findings come, leaves exactly
\* what has matched, with a severity of a rule that has.
THEOREM ActiveAreTheFindings == Spec => []ActiveIsWhatMatched
BY LifeAlways, LifeInvSuffices, PTL

\* What the engine has active is shown as it is, unless it was dismissed or
\* evicted, once nothing is under way.
THEOREM WhatIsActiveIsShown == Spec => []ShownIsCurrent
BY LifeAlways, LifeInvSuffices, PTL

\* No step but an upsert takes out a diagnostic and leaves the vector full.
LEMMA NextSpares ==
  ASSUME LifeInv, [Next]_vars, Len(shared') = MaxDiagnostics
  PROVE  \A d \in LastSeen : Key(d) \notin Keys(shared') =>
           \A e \in ToSet(shared') : d.severity <= e.severity
<1>1. /\ channel \in Seq(Seq(Diagnostic)) /\ shared \in Seq(Diagnostic) /\ Unique(shared)
      /\ DroppedIsNotShown /\ Len(shared) <= MaxDiagnostics
      /\ \A i \in DOMAIN channel : Unique(channel[i])
    BY DEF LifeInv, LifeTyped, NoneTwice
<1>2. ToSet(<<>>) = {} /\ Keys(<<>>) = {}
  <2>1. DOMAIN <<>> = {}
    OBVIOUS
  <2> QED
    BY <2>1 DEF ToSet, Keys
<1>3. ~(Len(channel') < Len(channel)) => LastSeen = ToSet(shared)
    BY <1>2 DEF LastSeen
<1>4. \A d \in ToSet(shared) : Key(d) \in Keys(shared)
    BY DEF Keys
<1>5. ASSUME UNCHANGED shared, ~(Len(channel') < Len(channel))
      PROVE  \A d \in LastSeen : Key(d) \in Keys(shared')
    BY <1>3, <1>4, <1>5
<1>6. channel' = channel => ~(Len(channel') < Len(channel))
    BY <1>1
<1>7. CASE WorldChanges \/ (\E dt \in Elapsed : Tick(dt)) \/ UNCHANGED vars
    BY <1>5, <1>6, <1>7 DEF WorldChanges, Tick, vars
<1>8. CASE Send
  <2>1. Len(channel') = Len(channel) + 1 /\ Len(channel) \in Nat
    BY <1>1, <1>8 DEF Send, LifeInv, LifeTyped
  <2> QED
    BY <1>5, <1>8, <2>1 DEF Send
<1>9. CASE Collect
  <2> DEFINE batch == Head(channel)
  <2>1. /\ channel # <<>> /\ channel' = Tail(channel) /\ Upsert(batch)
    BY <1>9 DEF Collect
  <2>2. /\ Len(channel') < Len(channel) /\ 1 \in DOMAIN channel /\ batch = channel[1]
        /\ batch \in Seq(Diagnostic)
    BY <1>1, <2>1
  <2> HIDE DEF batch
  <2>3. Unique(batch)
    BY <1>1, <2>2
  <2>4. LastSeen = {d \in ToSet(shared) : Key(d) \notin Keys(batch)} \cup ToSet(batch)
    BY <2>2 DEF LastSeen, batch
  <2> QED
    BY <1>1, <2>1, <2>2, <2>3, <2>4, UpsertIs
<1>10. ASSUME NEW p \in Pids, NEW s \in Severities, Bridge(p, s)
       PROVE  \A d \in LastSeen : Key(d) \notin Keys(shared') =>
                \A e \in ToSet(shared') : d.severity <= e.severity
  <2> DEFINE new == [id |-> ScriptBase + scripts, target |-> p,
                     category |-> "ScriptRule", severity |-> s]
             batch == <<new>>
  <2>1. Upsert(batch) /\ channel' = channel
    BY <1>10 DEF Bridge
  <2>2. new \in Diagnostic
    <3>1. ScriptBase + scripts \in Nat
      BY DiagnosticsAssumption DEF LifeInv, LifeTyped
    <3>2. "ScriptRule" \in Categories
      BY DEF Categories
    <3> QED
      BY <3>1, <3>2 DEF Diagnostic
  <2>3. batch \in Seq(Diagnostic) /\ DOMAIN batch = {1} /\ batch[1] = new
    BY <2>2
  <2> HIDE DEF new, batch
  <2>4. Unique(batch) /\ Keys(batch) = {Key(new)}
    BY <2>3, KeysOfList DEF Unique
  <2>5. /\ \A d \in ToSet(shared) : Key(d) # Key(new) /\ Key(d) \notin Keys(shared') =>
             \A e \in ToSet(shared') : d.severity <= e.severity
        /\ Key(new) \in Keys(shared) => Keys(shared') = Keys(shared)
    BY <1>1, <2>1, <2>3, <2>4, UpsertIs
  <2>6. LastSeen = ToSet(shared)
    BY <1>3, <1>6, <2>1
  <2> QED
    BY <1>4, <2>5, <2>6
<1>11. ASSUME NEW d \in ToSet(shared), Dismiss(d.id) PROVE FALSE
  <2>1. Len(shared') < MaxDiagnostics
    BY <1>11, DismissKeeps
  <2> QED
    BY <2>1, DiagnosticsAssumption
<1> QED
    BY <1>5, <1>7, <1>8, <1>9, <1>10, <1>11 DEF Next

\* What an upsert pushes out of the full vector is, as last seen, no more
\* severe than anything that stays, for a vector of any size.
THEOREM EvictionIsBySeverity == Spec => EvictionSparesTheWorse
<1>1. LifeInv /\ [Next]_vars =>
        [Len(shared') = MaxDiagnostics =>
           \A d \in LastSeen : Key(d) \notin Keys(shared') =>
             \A e \in ToSet(shared') : d.severity <= e.severity]_vars
    BY NextSpares
<1> QED
    BY <1>1, LifeAlways, PTL DEF Spec, EvictionSparesTheWorse
-----------------------------------------------------------------------------
(* The dispatches.  What makes Deduplicated inductive is that a dispatch   *)
(* that is among the sinks started now, at a time when no other dispatch   *)
(* of its pair was there, and that all grants of others are a window old.  *)
(* What makes RateLimited inductive is that the grants of the last minute  *)
(* are all in the state of their sink.                                     *)

Tasks == [finding : Findings, severity : Levels, next : 0 .. Finished]

AtSinks(t) == tasks[t].next \in Sinks

Typed ==
  /\ now \in Nat
  /\ tasks \in Seq(Tasks)
  /\ \A f \in DOMAIN lastSent : lastSent[f] \in Nat /\ lastSent[f] <= now

GrantsAreNoted ==
  \A g \in grants :
    /\ g.at \in Nat
    /\ g.task \in DOMAIN tasks /\ tasks[g.task].next # 0
    /\ tasks[g.task].finding \in DOMAIN lastSent
    /\ g.at <= lastSent[tasks[g.task].finding]

StartedNow ==
  \A t \in DOMAIN tasks : AtSinks(t) =>
    /\ tasks[t].finding \in DOMAIN lastSent /\ lastSent[tasks[t].finding] = now
    /\ \A u \in DOMAIN tasks :
         AtSinks(u) /\ u # t /\ tasks[u].finding = tasks[t].finding => DedupWindow = 0
    /\ \A g \in grants :
         g.task # t /\ tasks[g.task].finding = tasks[t].finding => g.at + DedupWindow <= now

DInv == Typed /\ GrantsAreNoted /\ StartedNow /\ Deduplicated

\* A new dispatch is not among the sinks yet.
LEMMA SpawnKeeps ==
  ASSUME DInv, NEW f \in Findings, NEW sev \in Levels, Spawn(f, sev)
  PROVE  DInv'
<1>1. /\ tasks' = Append(tasks, [finding |-> f, severity |-> sev, next |-> 0])
      /\ UNCHANGED <<now, lastSent, granted, grants>>
  BY DEF Spawn
<1>2. Finished \in Nat /\ 0 \notin Sinks
  BY OutputAssumption DEF Finished, Sinks
<1>3. /\ DOMAIN tasks \subseteq DOMAIN tasks'
      /\ \A t \in DOMAIN tasks : tasks'[t] = tasks[t]
      /\ \A t \in DOMAIN tasks' \ DOMAIN tasks : tasks'[t].next = 0
  BY <1>1 DEF DInv, Typed
<1>4. Typed'
  BY <1>1, <1>2 DEF DInv, Typed, Tasks
<1>5. GrantsAreNoted'
  BY <1>1, <1>3 DEF DInv, GrantsAreNoted
<1>6. StartedNow'
  BY <1>1, <1>2, <1>3 DEF DInv, GrantsAreNoted, StartedNow, AtSinks
<1>7. Deduplicated'
  BY <1>1, <1>3 DEF DInv, GrantsAreNoted, Deduplicated
<1> QED BY <1>4, <1>5, <1>6, <1>7 DEF DInv

\* A dispatch that goes on keeps its pair, and the others are left alone.
LEMMA GoingOn ==
  ASSUME NEW ts \in Seq(Tasks), NEW t \in DOMAIN ts, NEW n \in 0 .. Finished,
         NEW us, us = [ts EXCEPT ![t].next = n]
  PROVE  /\ us \in Seq(Tasks) /\ DOMAIN us = DOMAIN ts
         /\ us[t].next = n
         /\ \A u \in DOMAIN ts : us[u].finding = ts[u].finding
         /\ \A u \in DOMAIN ts : u # t => us[u].next = ts[u].next
<1>1. t \in 1 .. Len(ts) /\ ts[t] \in Tasks
  OBVIOUS
<1> DEFINE moved == [ts[t] EXCEPT !.next = n]
<1>2. moved \in Tasks /\ moved.next = n /\ moved.finding = ts[t].finding
  BY <1>1 DEF Tasks
<1>3. us = [ts EXCEPT ![t] = moved]
  OBVIOUS
<1> HIDE DEF moved
<1>4. us \in Seq(Tasks) /\ Len(us) = Len(ts)
  BY <1>1, <1>2, <1>3, ExceptSeq
<1>5. DOMAIN us = DOMAIN ts /\ us[t] = moved /\ \A u \in DOMAIN ts : u # t => us[u] = ts[u]
  BY <1>1, <1>3
<1> QED BY <1>2, <1>4, <1>5

\* A dispatch that passes the window finds all grants of its pair a window
\* old, and among the sinks no dispatch of its pair that has just started.
LEMMA TestWindowKeeps ==
  ASSUME DInv, NEW t \in DOMAIN tasks, TestWindow(t)
  PROVE  DInv'
<1> DEFINE f == tasks[t].finding
<1>1. Finished \in Nat /\ 0 \notin Sinks /\ Finished \notin Sinks /\ DedupWindow \in Nat
      /\ 1 \in 0 .. Finished
  BY OutputAssumption DEF Finished, Sinks
<1>2. Typed /\ GrantsAreNoted /\ StartedNow /\ Deduplicated
  BY DEF DInv
<1>3. tasks[t].next = 0 /\ UNCHANGED <<now, granted, grants>>
  BY DEF TestWindow
<1>4. ASSUME NEW n \in 0 .. Finished, tasks' = [tasks EXCEPT ![t].next = n]
      PROVE  /\ tasks' \in Seq(Tasks)
             /\ DOMAIN tasks' = DOMAIN tasks
             /\ tasks'[t].next = n
             /\ \A u \in DOMAIN tasks : tasks'[u].finding = tasks[u].finding
             /\ \A u \in DOMAIN tasks : u # t => tasks'[u].next = tasks[u].next
  BY <1>2, <1>4, GoingOn, SMTT(30) DEF Typed
<1>5. CASE WithinWindow(f)
  <2>1. tasks' = [tasks EXCEPT ![t].next = Finished] /\ lastSent' = lastSent
    BY <1>5 DEF TestWindow
  <2>2. Finished \in 0 .. Finished /\ Finished # 0
    BY <1>1, OutputAssumption DEF Finished
  <2>3. Typed'
    BY <1>2, <1>3, <1>4, <2>1, <2>2 DEF Typed
  <2>4. GrantsAreNoted' /\ Deduplicated'
    BY <1>2, <1>3, <1>4, <2>1, <2>2 DEF GrantsAreNoted, Deduplicated
  <2>5. StartedNow'
    BY <1>1, <1>2, <1>3, <1>4, <2>1, <2>2 DEF GrantsAreNoted, StartedNow, AtSinks
  <2> QED BY <2>3, <2>4, <2>5 DEF DInv
<1>6. CASE ~WithinWindow(f)
  <2>1. /\ tasks' = [tasks EXCEPT ![t].next = 1]
        /\ DOMAIN lastSent' = DOMAIN lastSent \cup {f} /\ lastSent'[f] = now
        /\ \A g \in DOMAIN lastSent : g # f => lastSent'[g] = lastSent[g]
    BY <1>6 DEF TestWindow
  <2>2. f \in DOMAIN lastSent => now - lastSent[f] >= DedupWindow /\ lastSent[f] \in Nat
    BY <1>1, <1>2, <1>6 DEF WithinWindow, Typed
  <2>3. now \in Nat /\ \A g \in DOMAIN lastSent : lastSent[g] \in Nat /\ lastSent[g] <= now
    BY <1>2 DEF Typed
  <2> HIDE DEF f
  <2>4. Typed'
    <3>1. \A g \in DOMAIN lastSent' : lastSent'[g] \in Nat /\ lastSent'[g] <= now
      BY <2>1, <2>3
    <3>2. tasks' \in Seq(Tasks)
      BY <1>1, <1>4, <2>1
    <3> QED BY <1>3, <2>3, <3>1, <3>2 DEF Typed
  <2>5. \A g \in grants : tasks[g.task].finding = f => g.at + DedupWindow <= now
    BY <1>1, <1>2, <2>2, <2>3 DEF GrantsAreNoted
  <2>6. \A g \in grants : g.task # t
    BY <1>2, <1>3 DEF GrantsAreNoted
  <2>7. GrantsAreNoted'
    BY <1>1, <1>2, <1>3, <1>4, <2>1, <2>3, <2>6 DEF GrantsAreNoted
  <2>8. Deduplicated'
    BY <1>1, <1>2, <1>3, <1>4, <2>1, <2>6 DEF GrantsAreNoted, Deduplicated
  <2>9. \A u \in DOMAIN tasks : AtSinks(u) /\ tasks[u].finding = f => DedupWindow = 0
    BY <1>1, <1>2, <2>2, <2>3 DEF StartedNow
  <2>10. StartedNow'
    <3> SUFFICES ASSUME NEW u \in DOMAIN tasks, AtSinks(u)'
                 PROVE  /\ tasks'[u].finding \in DOMAIN lastSent'
                        /\ lastSent'[tasks'[u].finding] = now
                        /\ \A v \in DOMAIN tasks : AtSinks(v)' /\ v # u
                              /\ tasks'[v].finding = tasks'[u].finding => DedupWindow = 0
                        /\ \A g \in grants : g.task # u
                              /\ tasks'[g.task].finding = tasks'[u].finding
                              => g.at + DedupWindow <= now
      BY <1>1, <1>3, <1>4, <2>1 DEF StartedNow
    <3>1. \A v \in DOMAIN tasks : v # t /\ AtSinks(v)' => AtSinks(v)
      BY <1>1, <1>4, <2>1 DEF AtSinks
    <3>2. \A v \in DOMAIN tasks : tasks'[v].finding = tasks[v].finding
      BY <1>1, <1>4, <2>1
    <3>3. \A g \in grants : g.task \in DOMAIN tasks
      BY <1>2 DEF GrantsAreNoted
    <3>4. tasks[t].finding = f
      BY DEF f
    <3>5. CASE u = t
      BY <2>1, <2>5, <2>9, <3>1, <3>2, <3>3, <3>4, <3>5
    <3>6. CASE u # t
      <4>1. /\ AtSinks(u) /\ tasks[u].finding \in DOMAIN lastSent
            /\ lastSent[tasks[u].finding] = now
        BY <1>2, <3>1, <3>6 DEF StartedNow
      <4>2. ASSUME NEW v \in DOMAIN tasks, AtSinks(v)', v # u,
                   tasks'[v].finding = tasks'[u].finding
            PROVE  DedupWindow = 0
        <5>1. CASE v = t
          BY <2>9, <3>2, <3>4, <4>1, <4>2, <5>1
        <5>2. CASE v # t
          BY <1>2, <3>1, <3>2, <4>1, <4>2, <5>2 DEF StartedNow
        <5> QED BY <5>1, <5>2
      <4>3. ASSUME NEW g \in grants, g.task # u, tasks'[g.task].finding = tasks'[u].finding
            PROVE  g.at + DedupWindow <= now
        BY <1>2, <3>2, <3>3, <4>1, <4>3 DEF StartedNow
      <4> QED BY <2>1, <3>2, <4>1, <4>2, <4>3
    <3> QED BY <3>5, <3>6
  <2> QED BY <2>4, <2>7, <2>8, <2>10 DEF DInv
<1> QED BY <1>5, <1>6

\* A grant is of this very time, and the other grants of its pair are old.
LEMMA ConsiderSinkKeeps ==
  ASSUME DInv, NEW t \in DOMAIN tasks, ConsiderSink(t)
  PROVE  DInv'
<1>1. Finished \in Nat /\ DedupWindow \in Nat /\ 0 \notin Sinks
      /\ \A s \in Sinks : s + 1 \in 0 .. Finished /\ s + 1 # 0
  BY OutputAssumption DEF Finished, Sinks
<1>2. Typed /\ GrantsAreNoted /\ StartedNow /\ Deduplicated
  BY DEF DInv
<1> DEFINE new == [task |-> t, sink |-> tasks[t].next, at |-> now]
<1>3. /\ AtSinks(t) /\ UNCHANGED <<now, lastSent>>
      /\ tasks' = [tasks EXCEPT ![t].next = tasks[t].next + 1]
      /\ grants' \subseteq grants \cup {new}
  BY DEF ConsiderSink, AtSinks
<1>4. /\ tasks' \in Seq(Tasks)
      /\ DOMAIN tasks' = DOMAIN tasks
      /\ \A u \in DOMAIN tasks : tasks'[u].finding = tasks[u].finding
      /\ \A u \in DOMAIN tasks : u # t => tasks'[u].next = tasks[u].next
      /\ tasks'[t].next # 0
  <2>1. tasks[t].next + 1 \in 0 .. Finished /\ tasks[t].next + 1 # 0 /\ tasks \in Seq(Tasks)
    BY <1>1, <1>2, <1>3 DEF Typed, AtSinks
  <2> QED BY <1>3, <2>1, GoingOn
<1>5. now \in Nat
  BY <1>2 DEF Typed
<1>6. \A u \in DOMAIN tasks : AtSinks(u)' => AtSinks(u)
  BY <1>3, <1>4 DEF AtSinks
<1>7. /\ tasks[t].finding \in DOMAIN lastSent /\ lastSent[tasks[t].finding] = now
      /\ \A g \in grants : g.task # t /\ tasks[g.task].finding = tasks[t].finding
                           => g.at + DedupWindow <= now
  BY <1>2, <1>3 DEF StartedNow
<1>8. new.task = t /\ new.at = now
  OBVIOUS
<1> HIDE DEF new
<1>9. Typed'
  BY <1>2, <1>3, <1>4 DEF Typed
<1>10. GrantsAreNoted'
  <2>1. ASSUME NEW g \in grants
        PROVE  /\ g.at \in Nat /\ g.task \in DOMAIN tasks /\ tasks'[g.task].next # 0
               /\ tasks[g.task].finding \in DOMAIN lastSent
               /\ g.at <= lastSent[tasks[g.task].finding]
    BY <1>2, <1>4 DEF GrantsAreNoted
  <2>2. /\ new.at \in Nat /\ new.task \in DOMAIN tasks /\ tasks'[new.task].next # 0
        /\ tasks[new.task].finding \in DOMAIN lastSent
        /\ new.at <= lastSent[tasks[new.task].finding]
    BY <1>4, <1>5, <1>7, <1>8
  <2> SUFFICES ASSUME NEW g \in grants \cup {new}
               PROVE  /\ g.at \in Nat /\ g.task \in DOMAIN tasks /\ tasks'[g.task].next # 0
                      /\ tasks[g.task].finding \in DOMAIN lastSent
                      /\ g.at <= lastSent[tasks[g.task].finding]
    BY <1>3, <1>4 DEF GrantsAreNoted
  <2>3. CASE g \in grants
    BY <2>1, <2>3
  <2>4. CASE g = new
    BY <2>2, <2>4, Zenon
  <2> QED BY <2>3, <2>4
<1>11. \A g \in grants : g.task \in DOMAIN tasks
  BY <1>2 DEF GrantsAreNoted
<1>12. StartedNow'
  <2> SUFFICES ASSUME NEW u \in DOMAIN tasks, AtSinks(u)
               PROVE  /\ tasks[u].finding \in DOMAIN lastSent /\ lastSent[tasks[u].finding] = now
                      /\ \A v \in DOMAIN tasks : AtSinks(v) /\ v # u
                            /\ tasks[v].finding = tasks[u].finding => DedupWindow = 0
                      /\ \A g \in grants \cup {new} : g.task # u
                            /\ tasks[g.task].finding = tasks[u].finding
                            => g.at + DedupWindow <= now
    BY <1>3, <1>4, <1>6, <1>8, <1>11 DEF StartedNow
  <2>1. ASSUME t # u, tasks[t].finding = tasks[u].finding PROVE now + DedupWindow <= now
    BY <1>2, <1>3, <1>5, <2>1 DEF StartedNow
  <2> QED BY <1>2, <1>8, <2>1 DEF StartedNow
<1>13. Deduplicated'
  <2> SUFFICES ASSUME NEW g \in grants \cup {new}, NEW h \in grants \cup {new},
                      g.sink = h.sink, g.task # h.task,
                      tasks[g.task].finding = tasks[h.task].finding
               PROVE  g.at >= h.at + DedupWindow \/ h.at >= g.at + DedupWindow
    BY <1>3, <1>4, <1>8, <1>11 DEF Deduplicated
  <2>1. CASE g \in grants /\ h \in grants
    BY <1>2, <2>1 DEF Deduplicated
  <2>2. CASE g = new /\ h \in grants
    BY <1>7, <1>8, <2>2
  <2>3. CASE h = new /\ g \in grants
    BY <1>7, <1>8, <2>3
  <2> QED BY <1>8, <2>1, <2>2, <2>3
<1> QED BY <1>9, <1>10, <1>12, <1>13 DEF DInv

\* The clock moves when no dispatch is among the sinks.
LEMMA ClockKeeps ==
  ASSUME DInv, Clock
  PROVE  DInv'
<1>1. /\ now' = now + 1 /\ UNCHANGED <<tasks, lastSent, granted, grants>>
      /\ \A t \in DOMAIN tasks : tasks[t].next \in {0, Finished}
  BY DEF Clock
<1>2. 0 \notin Sinks /\ Finished \notin Sinks
  BY OutputAssumption DEF Finished, Sinks
<1>3. \A t \in DOMAIN tasks : ~AtSinks(t)'
  BY <1>1, <1>2 DEF AtSinks
<1>4. Typed'
  BY <1>1 DEF DInv, Typed
<1>5. GrantsAreNoted' /\ Deduplicated'
  BY <1>1 DEF DInv, GrantsAreNoted, Deduplicated
<1>6. StartedNow'
  BY <1>1, <1>3 DEF StartedNow
<1> QED BY <1>4, <1>5, <1>6 DEF DInv

\* However many dispatches run at the same time, two of one (target, category)
\* pair that reach a sink are a dedup window apart.
THEOREM DispatchesAreDeduplicated ==
  DispatchSpec => []Deduplicated
<1>1. DispatchInit => DInv
  <2> SUFFICES ASSUME DispatchInit PROVE DInv
    OBVIOUS
  <2>1. Typed
    BY DEF DispatchInit, Typed
  <2>2. GrantsAreNoted /\ StartedNow /\ Deduplicated
    BY DEF DispatchInit, GrantsAreNoted, StartedNow, Deduplicated
  <2> QED BY <2>1, <2>2 DEF DInv
<1>2. DInv /\ [DispatchNext]_dispatchVars => DInv'
  <2> SUFFICES ASSUME DInv, [DispatchNext]_dispatchVars PROVE DInv'
    OBVIOUS
  <2>1. ASSUME NEW f \in Findings, NEW sev \in Levels, Spawn(f, sev) PROVE DInv'
    BY <2>1, SpawnKeeps
  <2>2. ASSUME NEW t \in DOMAIN tasks, TestWindow(t) PROVE DInv'
    BY <2>2, TestWindowKeeps
  <2>3. ASSUME NEW t \in DOMAIN tasks, ConsiderSink(t) PROVE DInv'
    BY <2>3, ConsiderSinkKeeps
  <2>4. CASE Clock
    BY <2>4, ClockKeeps
  <2>5. CASE UNCHANGED dispatchVars
    BY <2>5 DEF dispatchVars, DInv, Typed, GrantsAreNoted, StartedNow, AtSinks, Deduplicated
  <2> QED BY <2>1, <2>2, <2>3, <2>4, <2>5 DEF DispatchNext
<1>3. DInv => Deduplicated
  BY DEF DInv
<1> QED BY <1>1, <1>2, <1>3, PTL DEF DispatchSpec
-----------------------------------------------------------------------------
\* What a sink has been granted in the minute from a time on.
Window(s, from) == {g \in grants : g.sink = s /\ g.at >= from /\ g.at < from + Minute}

GrantsHaveTimes ==
  /\ now \in Nat
  /\ IsFiniteSet(grants)
  /\ \A g \in grants : g.at \in Nat /\ g.at <= now

\* A sink's state lacks only grants that are a minute old.
StateHasRecent ==
  /\ granted \in [Sinks -> SUBSET grants]
  /\ \A s \in Sinks, g \in grants : g.sink = s /\ now - g.at < Minute => g \in granted[s]

LimitKept == \A s \in Sinks, from \in Nat : Cardinality(Window(s, from)) <= MaxPerMinute

RInv == GrantsHaveTimes /\ StateHasRecent /\ LimitKept

\* A grant is given when fewer than max_per_minute are recent, and what a
\* minute that holds it granted before is among the recent ones.
LEMMA GrantKeepsLimit ==
  ASSUME RInv, NEW s \in Sinks, NEW grant, grant.sink = s, grant.at = now,
         Cardinality(Recent(s)) < MaxPerMinute, grants' = grants \cup {grant}
  PROVE  LimitKept'
<1>1. /\ now \in Nat /\ IsFiniteSet(grants)
      /\ \A g \in grants : g.at \in Nat /\ g.at <= now
      /\ granted \in [Sinks -> SUBSET grants]
      /\ \A g \in grants : g.sink = s /\ now - g.at < Minute => g \in granted[s]
  BY DEF RInv, GrantsHaveTimes, StateHasRecent
<1>2. IsFiniteSet(Recent(s))
  BY <1>1, FS_Subset DEF Recent
<1>3. /\ IsFiniteSet(Recent(s) \cup {grant})
      /\ Cardinality(Recent(s) \cup {grant}) <= MaxPerMinute
  <2>1. Cardinality(Recent(s)) \in Nat
    BY <1>2, FS_CardinalityType
  <2>2. /\ IsFiniteSet(Recent(s) \cup {grant})
        /\ \/ Cardinality(Recent(s) \cup {grant}) = Cardinality(Recent(s))
           \/ Cardinality(Recent(s) \cup {grant}) = Cardinality(Recent(s)) + 1
    BY <1>2, FS_AddElement
  <2> QED BY <2>1, <2>2, OutputAssumption
<1> SUFFICES ASSUME NEW r \in Sinks, NEW from \in Nat
             PROVE  Cardinality(Window(r, from)') <= MaxPerMinute
  BY DEF LimitKept
<1>4. Window(r, from)' \subseteq Window(r, from) \cup {grant}
  BY DEF Window
<1>5. Window(r, from) \subseteq Window(r, from)'
  BY DEF Window
<1>6. CASE grant \notin Window(r, from)'
  <2>1. Window(r, from)' = Window(r, from)
    BY <1>4, <1>5, <1>6
  <2> QED BY <2>1 DEF RInv, LimitKept
<1>7. CASE grant \in Window(r, from)'
  <2>1. r = s /\ now >= from /\ now < from + Minute
    BY <1>7 DEF Window
  <2>2. \A g \in Window(r, from) : g \in Recent(s)
    BY <1>1, <2>1, OutputAssumption DEF Window, Recent
  <2>3. Window(r, from)' \subseteq Recent(s) \cup {grant}
    BY <1>4, <2>2
  <2>4. /\ Cardinality(Window(r, from)') <= Cardinality(Recent(s) \cup {grant})
        /\ IsFiniteSet(Window(r, from)')
    BY <1>3, <2>3, FS_Subset
  <2> QED BY <1>3, <2>4, FS_CardinalityType, OutputAssumption
<1> QED BY <1>6, <1>7

\* What a sink's state loses is a minute old, and a grant joins it.
LEMMA ConsiderSinkKeepsLimit ==
  ASSUME RInv, NEW t \in DOMAIN tasks, ConsiderSink(t)
  PROVE  RInv'
<1> DEFINE s == tasks[t].next
           grant == [task |-> t, sink |-> s, at |-> now]
<1>1. s \in Sinks /\ now' = now
  BY DEF ConsiderSink
<1>2. GrantsHaveTimes /\ StateHasRecent /\ LimitKept
  BY DEF RInv
<1>3. Recent(s) \subseteq granted[s]
  BY DEF Recent
<1>4. \A g \in grants : g.sink = s /\ now - g.at < Minute => g \in Recent(s)
  BY <1>1, <1>2 DEF StateHasRecent, Recent
<1>5. grant.sink = s /\ grant.at = now
  OBVIOUS
<1>6. \/ /\ Cardinality(Recent(s)) < MaxPerMinute
         /\ grants' = grants \cup {grant}
         /\ granted' = [granted EXCEPT ![s] = Recent(s) \cup {grant}]
      \/ /\ grants' = grants
         /\ \/ granted' = [granted EXCEPT ![s] = Recent(s)]
            \/ granted' = granted
  BY DEF ConsiderSink
<1> HIDE DEF s, grant
<1>7. CASE grants' = grants
  <2>1. GrantsHaveTimes' /\ LimitKept'
    BY <1>1, <1>2, <1>7 DEF GrantsHaveTimes, LimitKept, Window
  <2>2. \/ granted' = [granted EXCEPT ![s] = Recent(s)]
        \/ granted' = granted
        \/ granted' = [granted EXCEPT ![s] = Recent(s) \cup {grant}] /\ grant \in grants
    BY <1>6, <1>7
  <2>3. StateHasRecent'
    <3>1. granted' \in [Sinks -> SUBSET grants]
      BY <1>1, <1>2, <1>3, <2>2 DEF StateHasRecent
    <3>2. \A r \in Sinks, g \in grants :
            g.sink = r /\ now - g.at < Minute => g \in granted'[r]
      BY <1>1, <1>2, <1>4, <2>2 DEF StateHasRecent
    <3> QED BY <1>1, <1>7, <3>1, <3>2 DEF StateHasRecent
  <2> QED BY <2>1, <2>3 DEF RInv
<1>8. CASE /\ Cardinality(Recent(s)) < MaxPerMinute
           /\ grants' = grants \cup {grant}
           /\ granted' = [granted EXCEPT ![s] = Recent(s) \cup {grant}]
  <2>1. LimitKept'
    BY <1>1, <1>5, <1>8, GrantKeepsLimit
  <2>2. IsFiniteSet(grants')
    BY <1>2, <1>8, FS_AddElement DEF GrantsHaveTimes
  <2>3. \A g \in grants' : g.at \in Nat /\ g.at <= now
    BY <1>2, <1>5, <1>8 DEF GrantsHaveTimes
  <2>4. GrantsHaveTimes'
    BY <1>1, <1>2, <2>2, <2>3 DEF GrantsHaveTimes
  <2>5. StateHasRecent'
    <3>1. granted' \in [Sinks -> SUBSET grants']
      BY <1>1, <1>2, <1>3, <1>8 DEF StateHasRecent
    <3>2. ASSUME NEW r \in Sinks, NEW g \in grants', g.sink = r, now - g.at < Minute
          PROVE  g \in granted'[r]
      <4>1. CASE g = grant
        BY <1>1, <1>2, <1>5, <1>8, <3>2, <4>1 DEF StateHasRecent
      <4>2. CASE g \in grants
        BY <1>1, <1>2, <1>4, <1>8, <3>2, <4>2 DEF StateHasRecent
      <4> QED BY <1>8, <4>1, <4>2
    <3> QED BY <1>1, <3>1, <3>2 DEF StateHasRecent
  <2> QED BY <2>1, <2>4, <2>5 DEF RInv
<1> QED BY <1>6, <1>7, <1>8

\* However the dispatches interleave between the two locks, and wherever the
\* minute is laid, no sink gets more than max_per_minute messages in it.
THEOREM RateIsLimited ==
  DispatchSpec => []RateLimited
<1>1. DispatchInit => RInv
  <2> SUFFICES ASSUME DispatchInit PROVE RInv
    OBVIOUS
  <2>2. GrantsHaveTimes /\ StateHasRecent
    BY FS_EmptySet DEF DispatchInit, GrantsHaveTimes, StateHasRecent
  <2>3. LimitKept
    <3>1. Cardinality({}) = 0
      BY FS_EmptySet
    <3> SUFFICES ASSUME NEW s \in Sinks, NEW from \in Nat
                 PROVE  Cardinality(Window(s, from)) <= MaxPerMinute
      BY DEF LimitKept
    <3>2. Window(s, from) = {}
      BY DEF DispatchInit, Window
    <3>3. 0 <= MaxPerMinute
      BY OutputAssumption
    <3> QED BY <3>1, <3>2, <3>3
  <2> QED BY <2>2, <2>3 DEF RInv
<1>2. RInv /\ [DispatchNext]_dispatchVars => RInv'
  <2> SUFFICES ASSUME RInv, [DispatchNext]_dispatchVars PROVE RInv'
    OBVIOUS
  <2>1. ASSUME NEW t \in DOMAIN tasks, ConsiderSink(t) PROVE RInv'
    BY <2>1, ConsiderSinkKeepsLimit
  <2>2. CASE Clock
    BY <2>2, OutputAssumption
       DEF Clock, RInv, GrantsHaveTimes, StateHasRecent, LimitKept, Window
  <2>3. CASE UNCHANGED <<now, granted, grants>>
    BY <2>3 DEF RInv, GrantsHaveTimes, StateHasRecent, LimitKept, Window
  <2>4. UNCHANGED <<now, granted, grants>> \/ Clock \/ \E t \in DOMAIN tasks : ConsiderSink(t)
    BY DEF DispatchNext, Spawn, TestWindow, dispatchVars
  <2> QED BY <2>1, <2>2, <2>3, <2>4
<1>3. RInv => RateLimited
  BY OutputAssumption DEF RInv, LimitKept, Window, RateLimited
<1> QED BY <1>1, <1>2, <1>3, PTL DEF DispatchSpec
-----------------------------------------------------------------------------
(* The rules of the engine: "sustained" is what the history says.          *)

HistTyped ==
  /\ world \in Worlds /\ last \in Worlds
  /\ samples \in Seq([time : Nat, sample : Worlds])
  /\ \A i \in DOMAIN samples : samples[i].time <= Now

\* The findings are those of the last sample of the store.
LastIsRecorded ==
  IF samples = <<>> THEN last = <<>> /\ timers = <<>>
  ELSE /\ last = samples[Len(samples)].sample
       /\ findings = {rp \in RulePids(DOMAIN last) : Matches(rp[1], rp[2], last, timers)}

\* The value has been over the threshold for that long.
OverFor(r, p, age) ==
  \E i \in DOMAIN samples :
    /\ Now - samples[i].time >= age
    /\ \A j \in i .. Len(samples) : Over(r, p, j)

\* A timer runs for what is over its threshold now, and tells for how long.
TimersTell ==
  /\ timers \in [DOMAIN timers -> Nat]
  /\ DOMAIN timers = {rp \in RulePids(DOMAIN last) :
                        Rules[rp[1]].sustained > 0 /\ Exceeds(rp[1], rp[2], last)}
  /\ \A k \in DOMAIN timers : \A age \in 0 .. Rules[k[1]].sustained :
       timers[k] >= age <=> OverFor(k[1], k[2], age)

HistInv == HistTyped /\ LastIsRecorded /\ TimersTell

LEMMA RuleNumbers ==
  \A r \in RuleIds : Rules[r].min \in Nat /\ Rules[r].sustained \in Nat
<1> TAKE r \in RuleIds
<1> DEFINE Rule == [min : Bands \ {0}, sustained : Nat, severity : Severities, category : STRING]
<1>1. Rules \in Seq(Rule)
    BY RuleAssumption
<1>2. Rules[r] \in Rule
  <2> HIDE DEF Rule
  <2> QED
    BY <1>1 DEF RuleIds
<1> QED
    BY <1>2, RuleAssumption

LEMMA TimesAreNumbers ==
  HistTyped => /\ Now \in Nat
               /\ \A i \in DOMAIN samples : samples[i].time \in Nat /\ samples[i].time <= Now
<1> SUFFICES ASSUME HistTyped
             PROVE  Now \in Nat /\ \A i \in DOMAIN samples : samples[i].time \in Nat
    BY DEF HistTyped
<1>1. ASSUME NEW i \in DOMAIN samples PROVE samples[i].time \in Nat
  <2> DEFINE Sample == [time : Nat, sample : Worlds]
  <2>1. samples \in Seq(Sample)
    BY DEF HistTyped
  <2>2. samples[i] \in Sample
    <3> HIDE DEF Sample
    <3> QED
      BY <1>1, <2>1
  <2> QED
    BY <2>2
<1>2. samples # <<>> => Len(samples) \in DOMAIN samples
    BY DEF HistTyped
<1> QED
    BY <1>1, <1>2 DEF Now

LEMMA HistInvSuffices == HistInv => FiresIffSustained
<1> SUFFICES ASSUME HistInv, samples # <<>>, NEW r \in RuleIds, NEW p \in DOMAIN last
             PROVE  <<r, p>> \in findings <=> SustainedBySamples(r, p)
    BY DEF FiresIffSustained
<1> DEFINE k == <<r, p>>  N == Len(samples)
<1>1. samples \in Seq([time : Nat, sample : Worlds]) /\ N \in DOMAIN samples /\ N \in Nat
  <2>1. samples \in Seq([time : Nat, sample : Worlds])
    BY DEF HistInv, HistTyped
  <2> QED
    BY <2>1
<1>2. Now \in Nat /\ \A i \in DOMAIN samples : samples[i].time \in Nat /\ samples[i].time <= Now
    BY TimesAreNumbers DEF HistInv
<1>3. last = samples[N].sample /\ k \in RulePids(DOMAIN last)
    BY DEF HistInv, LastIsRecorded, RulePids
<1>4. k \in findings <=> Matches(r, p, last, timers)
    BY <1>3 DEF HistInv, LastIsRecorded
<1>5. Over(r, p, N) <=> Exceeds(r, p, last)
    BY <1>3 DEF Over, Exceeds
<1>6. Rules[r].sustained \in Nat
    BY RuleNumbers
<1>7. SustainedBySamples(r, p) <=> OverFor(r, p, Rules[r].sustained)
    BY DEF SustainedBySamples, OverFor
<1>8. CASE Rules[r].sustained = 0
  <2>1. OverFor(r, p, 0) => Over(r, p, N)
    <3> SUFFICES ASSUME NEW i \in DOMAIN samples, \A j \in i .. N : Over(r, p, j)
                 PROVE  Over(r, p, N)
      BY DEF OverFor
    <3>1. N \in i .. N
      BY <1>1
    <3> QED
      BY <3>1
  <2>2. Over(r, p, N) => OverFor(r, p, 0)
    <3>1. Now - samples[N].time >= 0 /\ \A j \in N .. N : j = N
      BY <1>1, <1>2
    <3> QED
      BY <1>1, <3>1 DEF OverFor
  <2> QED
    BY <1>4, <1>5, <1>7, <1>8, <2>1, <2>2 DEF Matches
<1>9. CASE Rules[r].sustained > 0
  <2>1. CASE ~ Exceeds(r, p, last)
    <3>1. ~ OverFor(r, p, Rules[r].sustained)
      BY <1>1, <1>5, <2>1 DEF OverFor
    <3> QED
      BY <1>4, <1>7, <2>1, <3>1 DEF Matches
  <2>2. CASE Exceeds(r, p, last)
    <3>1. k \in DOMAIN timers
      BY <1>3, <1>9, <2>2 DEF HistInv, TimersTell
    <3>2. timers[k] >= Rules[r].sustained <=> OverFor(r, p, Rules[r].sustained)
      BY <1>6, <3>1 DEF HistInv, TimersTell
    <3> QED
      BY <1>4, <1>7, <1>9, <2>2, <3>2 DEF Matches
  <2> QED
    BY <2>1, <2>2
<1> QED
    BY <1>6, <1>8, <1>9

LEMMA InitHist == HistInit => HistInv
<1> SUFFICES ASSUME HistInit PROVE HistInv
    OBVIOUS
<1>1. world = <<>> /\ last = <<>> /\ timers = <<>> /\ samples = <<>>
    BY DEF HistInit, RuleInit
<1>2. <<>> \in Worlds
  <2>1. <<>> \in [{} -> Bands] /\ {} \in SUBSET Pids
    OBVIOUS
  <2> QED
    BY <2>1 DEF Worlds
<1>3. HistTyped
    BY <1>1, <1>2 DEF HistTyped
<1>4. TimersTell
    BY <1>1 DEF TimersTell, RulePids
<1> QED
    BY <1>1, <1>3, <1>4 DEF HistInv, LastIsRecorded

LEMMA SnapshotHist == HistInv /\ HistSnapshot => HistInv'
<1> SUFFICES ASSUME HistInv, HistSnapshot PROVE HistInv'
    OBVIOUS
<1>1. world' \in Worlds /\ UNCHANGED <<last, timers, findings, samples>>
    BY DEF HistSnapshot, Snapshot
<1>2. HistTyped'
    BY <1>1 DEF HistInv, HistTyped, Now
<1>3. LastIsRecorded'
    BY <1>1 DEF HistInv, LastIsRecorded, Matches, Exceeds
<1>4. TimersTell'
    BY <1>1 DEF HistInv, TimersTell, OverFor, Over, Now, Exceeds
<1> QED
    BY <1>2, <1>3, <1>4 DEF HistInv

\* One evaluation later a value has been over its threshold for an age exactly
\* when it is now, and had been for what was missing of it, or none is asked for.
LEMMA AgesPass ==
  ASSUME HistInv, NEW dt \in Elapsed, HistEvaluate(dt),
         NEW r \in RuleIds, NEW p, NEW age \in Nat
  PROVE  OverFor(r, p, age)' <=>
           /\ p \in DOMAIN last' /\ Exceeds(r, p, last')
           /\ age = 0 \/ OverFor(r, p, IF age > dt THEN age - dt ELSE 0)
<1> DEFINE N == Len(samples)  missing == IF age > dt THEN age - dt ELSE 0
           new == [time |-> Now + dt, sample |-> last']
<1>1. samples \in Seq([time : Nat, sample : Worlds]) /\ N \in Nat
    BY DEF HistInv, HistTyped
<1>2. \A i \in DOMAIN samples : samples[i].time \in Nat /\ samples[i].time <= Now
    BY TimesAreNumbers DEF HistInv
<1>3. Now \in Nat /\ dt \in Nat
    BY TimesAreNumbers, RuleAssumption DEF HistInv
<1>4. samples' = Append(samples, new)
    BY DEF HistEvaluate
<1>5. /\ Len(samples') = N + 1 /\ DOMAIN samples' = 1 .. N + 1 /\ DOMAIN samples = 1 .. N
      /\ samples'[N + 1] = new /\ \A i \in 1 .. N : samples'[i] = samples[i]
  <2> HIDE DEF new
  <2> QED
    BY <1>1, <1>4
<1>6. samples' # <<>> /\ Now' = Now + dt
    BY <1>1, <1>5 DEF Now
<1> DEFINE OverNow(i) == p \in DOMAIN samples'[i].sample /\ samples'[i].sample[p] >= Rules[r].min
<1>7. \A i \in 1 .. N : OverNow(i) <=> Over(r, p, i)
    BY <1>5 DEF Over
<1>8. OverNow(N + 1) <=> p \in DOMAIN last' /\ Exceeds(r, p, last')
    BY <1>5 DEF Exceeds
<1>9. OverFor(r, p, age)' <=>
        \E i \in 1 .. N + 1 : /\ Now' - samples'[i].time >= age
                              /\ \A j \in i .. N + 1 : OverNow(j)
    BY <1>5 DEF OverFor, Over
<1>10. OverFor(r, p, missing) <=>
         \E i \in 1 .. N : /\ Now - samples[i].time >= missing
                           /\ \A j \in i .. N : Over(r, p, j)
    BY <1>5 DEF OverFor
<1>11. ASSUME NEW i \in 1 .. N
       PROVE  Now' - samples'[i].time >= age <=> Now - samples[i].time >= missing
  <2> DEFINE then == samples[i].time
             at == Now
  <2>1. then \in Nat /\ at \in Nat /\ then <= at
    BY <1>2, <1>3, <1>5
  <2>2. samples'[i].time = then /\ samples[i].time = then /\ Now' = at + dt /\ Now = at
    BY <1>5, <1>6
  <2> HIDE DEF then, at
  <2>3. at + dt - then >= age <=> at - then >= missing
    BY <1>3, <2>1
  <2> QED
    BY <1>3, <2>1, <2>2, <2>3
<1>12. Now' - samples'[N + 1].time >= age <=> age = 0
    BY <1>3, <1>5, <1>6
<1> HIDE DEF OverNow, missing, N
<1>13. ASSUME OverFor(r, p, age)'
       PROVE  OverNow(N + 1) /\ (age = 0 \/ OverFor(r, p, missing))
  <2>1. PICK i \in 1 .. N + 1 : /\ Now' - samples'[i].time >= age
                                /\ \A j \in i .. N + 1 : OverNow(j)
    BY <1>9, <1>13
  <2>2. OverNow(N + 1)
    BY <1>1, <2>1
  <2>3. CASE i = N + 1
    BY <1>12, <2>1, <2>2, <2>3
  <2>4. CASE i # N + 1
    <3>1. i \in 1 .. N
      BY <1>1, <2>4
    <3>2. \A j \in i .. N : Over(r, p, j)
      BY <1>1, <1>7, <2>1, <3>1
    <3> QED
      BY <1>10, <1>11, <2>1, <2>2, <3>1, <3>2
  <2> QED
    BY <2>3, <2>4
<1>14. ASSUME OverNow(N + 1), age = 0 \/ OverFor(r, p, missing)
       PROVE  OverFor(r, p, age)'
  <2>1. CASE age = 0
    BY <1>1, <1>9, <1>12, <1>14, <2>1
  <2>2. CASE OverFor(r, p, missing)
    <3>1. PICK i \in 1 .. N : /\ Now - samples[i].time >= missing
                              /\ \A j \in i .. N : Over(r, p, j)
      BY <1>10, <2>2
    <3>2. \A j \in i .. N + 1 : OverNow(j)
      BY <1>1, <1>7, <1>14, <3>1
    <3>3. i \in 1 .. N + 1
      BY <1>1, <3>1
    <3> QED
      BY <1>9, <1>11, <3>1, <3>2, <3>3
  <2> QED
    BY <1>14, <2>1, <2>2
<1> QED
    BY <1>8, <1>13, <1>14 DEF missing

LEMMA EvaluateHist == ASSUME HistInv, NEW dt \in Elapsed, HistEvaluate(dt) PROVE HistInv'
<1> DEFINE N == Len(samples)  new == [time |-> Now + dt, sample |-> last']
<1>1. samples \in Seq([time : Nat, sample : Worlds]) /\ N \in Nat
    BY DEF HistInv, HistTyped
<1>2. Now \in Nat /\ dt \in Nat
    BY TimesAreNumbers, RuleAssumption DEF HistInv
<1>3. /\ samples' = Append(samples, new) /\ world' = world /\ last' = Ingest
      /\ timers' = TimersAfter(last', dt)
      /\ findings' = {rp \in RulePids(DOMAIN last') : Matches(rp[1], rp[2], last', timers')}
    BY DEF HistEvaluate, Evaluate
<1>4. last' \in Worlds
  <2>1. PICK ps \in SUBSET Pids : world \in [ps -> Bands]
    BY DEF HistInv, HistTyped, Worlds
  <2>2. PICK qs \in SUBSET Pids : last \in [qs -> Bands]
    BY DEF HistInv, HistTyped, Worlds
  <2>3. last' \in [qs \cup ps -> Bands] /\ qs \cup ps \in SUBSET Pids
    BY <1>3, <2>1, <2>2 DEF Ingest
  <2> QED
    BY <2>3 DEF Worlds
<1>5. new \in [time : Nat, sample : Worlds]
    BY <1>2, <1>4
<1>6. /\ samples' \in Seq([time : Nat, sample : Worlds]) /\ Len(samples') = N + 1
      /\ samples'[N + 1] = new /\ \A i \in 1 .. N : samples'[i] = samples[i]
      /\ DOMAIN samples' = 1 .. N + 1 /\ DOMAIN samples = 1 .. N
  <2> HIDE DEF new
  <2> QED
    BY <1>1, <1>3, <1>5
<1>7. samples' # <<>> /\ Now' = Now + dt
    BY <1>1, <1>6 DEF Now
<1>8. HistTyped'
  <2>1. \A i \in 1 .. N + 1 : samples'[i].time <= Now'
    <3>1. \A i \in 1 .. N : samples[i].time \in Nat /\ samples[i].time <= Now
      BY <1>6, TimesAreNumbers DEF HistInv
    <3> QED
      BY <1>2, <1>6, <1>7, <3>1
  <2> QED
    BY <1>3, <1>4, <1>6, <2>1 DEF HistInv, HistTyped
<1>9. LastIsRecorded'
    BY <1>3, <1>6, <1>7 DEF LastIsRecorded
<1>10. TimersTell'
  <2> DEFINE K == {rp \in RulePids(DOMAIN last') :
                     Rules[rp[1]].sustained > 0 /\ Exceeds(rp[1], rp[2], last')}
             R(k) == Rules[k[1]].sustained
  <2>1. DOMAIN timers' = K
    BY <1>3 DEF TimersAfter
  <2>2. \A k \in K : timers'[k] = IF k \notin DOMAIN timers THEN 0
                                  ELSE IF timers[k] + dt < R(k) THEN timers[k] + dt ELSE R(k)
    BY <1>3 DEF TimersAfter
  <2>3. \A k \in K : /\ k[1] \in RuleIds /\ k[2] \in DOMAIN last' /\ k = <<k[1], k[2]>>
                     /\ R(k) \in Nat /\ Exceeds(k[1], k[2], last')
    BY RuleNumbers DEF RulePids
  <2>4. \A k \in DOMAIN timers : timers[k] \in Nat
    BY DEF HistInv, TimersTell
  <2>5. timers' \in [DOMAIN timers' -> Nat]
    <3>1. \A k \in K : timers'[k] \in Nat
      BY <1>2, <2>2, <2>3, <2>4
    <3>2. timers' = [k \in DOMAIN timers' |-> timers'[k]]
      BY <1>3 DEF TimersAfter
    <3> QED
      BY <2>1, <3>1, <3>2
  <2>6. ASSUME NEW k \in K, NEW age \in 0 .. Rules[k[1]].sustained
        PROVE  timers'[k] >= age <=> OverFor(k[1], k[2], age)'
    <3> DEFINE r == k[1]  p == k[2]  missing == IF age > dt THEN age - dt ELSE 0
    <3>1. r \in RuleIds /\ p \in DOMAIN last' /\ k = <<r, p>> /\ Exceeds(r, p, last') /\ age \in Nat
      BY <2>3
    <3>2. OverFor(r, p, age)' <=> (age = 0 \/ OverFor(r, p, missing))
      <4> HIDE DEF r, p
      <4> QED
        BY <3>1, AgesPass
    <3>3. CASE k \notin DOMAIN timers
      <4>1. ~ OverFor(r, p, missing)
        <5> SUFFICES ASSUME OverFor(r, p, missing) PROVE FALSE
          OBVIOUS
        <5>1. N \in DOMAIN samples /\ Over(r, p, N)
          <6>1. PICK i \in DOMAIN samples : \A j \in i .. N : Over(r, p, j)
            BY DEF OverFor
          <6> QED
            BY <1>1, <1>6, <6>1
        <5>2. last = samples[N].sample
          BY <5>1, <1>1, <1>6 DEF HistInv, LastIsRecorded
        <5>3. p \in DOMAIN last /\ Exceeds(r, p, last)
          BY <5>1, <5>2 DEF Over, Exceeds
        <5>4. Rules[r].sustained > 0
          BY <2>6
        <5> QED
          BY <3>1, <3>3, <5>3, <5>4 DEF HistInv, TimersTell, RulePids
      <4>2. timers'[k] = 0
        BY <2>2, <3>3
      <4> QED
        BY <3>1, <3>2, <4>1, <4>2
    <3>4. CASE k \in DOMAIN timers
      <4>1. missing \in 0 .. R(k)
        BY <1>2, <2>3
      <4>2. timers[k] >= missing <=> OverFor(r, p, missing)
        <5> HIDE DEF missing
        <5> QED
          BY <3>4, <4>1 DEF HistInv, TimersTell
      <4>3. timers'[k] >= age <=> timers[k] >= missing
        BY <1>2, <2>2, <2>3, <2>4, <3>4
      <4>4. age = 0 => timers[k] >= missing
        BY <2>4, <1>2, <3>4
      <4> QED
        BY <3>2, <4>2, <4>3, <4>4
    <3> QED
      BY <3>3, <3>4
  <2> QED
    <3>1. \A k \in K : \A age \in 0 .. R(k) : timers'[k] >= age <=> OverFor(k[1], k[2], age)'
      BY <2>6
    <3> QED
      BY <2>1, <2>5, <3>1 DEF TimersTell
<1> QED
    BY <1>8, <1>9, <1>10 DEF HistInv

\* A rule with "sustained" fires for a pid exactly when every sample of the store has
\* been over its threshold for the duration, whatever the intervals between the
\* evaluations were (RuleEngine::check_sustained).
THEOREM RulesFireWhenSustained == HistSpec => []FiresIffSustained
<1>1. HistInv /\ [HistNext]_histVars => HistInv'
  <2> SUFFICES ASSUME HistInv, [HistNext]_histVars PROVE HistInv'
    OBVIOUS
  <2>1. CASE HistSnapshot
    BY <2>1, SnapshotHist
  <2>2. ASSUME NEW dt \in Elapsed, HistEvaluate(dt) PROVE HistInv'
    BY <2>2, EvaluateHist
  <2>3. CASE UNCHANGED histVars
    BY <2>3 DEF histVars, ruleVars, HistInv, HistTyped, LastIsRecorded, TimersTell, OverFor,
                Over, Now, Matches, Exceeds
  <2> QED
    BY <2>1, <2>2, <2>3 DEF HistNext
<1> QED
    BY InitHist, HistInvSuffices, <1>1, PTL DEF HistSpec
=============================================================================
