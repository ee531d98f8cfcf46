---------------------------- MODULE TuiAppProofs ----------------------------
(***************************************************************************)
(* Theorems about the terminal UI and what it shows.  TuiApp: what is      *)
(* decided on the Arbiter tab is kept track of through every trimming of   *)
(* the history, and a key acts on what the last frame showed as selected.  *)
(* Prediction: the model sees the last samples of a process, and the       *)
(* screen shows the last predictions.  TuiViews: an open text is only      *)
(* edited, and what is inspected is what was drawn.  Scene: a frame is of  *)
(* the nearest things that are there now.                                  *)
(***************************************************************************)
EXTENDS TuiApp, TuiViews, Prediction, Scene, FiniteSetTheorems, SequenceTheorems,
        WellFoundedInduction, TLAPS

-----------------------------------------------------------------------------
(* What a filter keeps.  The place of an element in what is left is its    *)
(* rank among the indexes that are kept.                                   *)

Rank(I, i) == Cardinality({j \in I : j <= i})

LEMMA Ranks ==
  ASSUME NEW N \in Nat, NEW I \in SUBSET (1 .. N)
  PROVE  /\ IsFiniteSet(I) /\ Cardinality(I) \in Nat
         /\ \A i \in I : Rank(I, i) \in 1 .. Cardinality(I)
         /\ \A i, j \in I : i < j => Rank(I, i) < Rank(I, j)
         /\ \A i, j \in I : Rank(I, i) = Rank(I, j) => i = j
         /\ \A k \in 1 .. Cardinality(I) : \E i \in I : Rank(I, i) = k
<1> DEFINE Upto(i) == {j \in I : j <= i}
<1>1. IsFiniteSet(I) /\ Cardinality(I) \in Nat /\ I \subseteq Nat
  <2>1. IsFiniteSet(1 .. N)
    BY FS_Interval
  <2>2. IsFiniteSet(I)
    BY <2>1, FS_Subset
  <2> QED
    BY <2>2, FS_CardinalityType
<1>2. \A i : /\ IsFiniteSet(Upto(i)) /\ Cardinality(Upto(i)) \in Nat
             /\ Cardinality(Upto(i)) <= Cardinality(I)
  <2> TAKE i
  <2>1. Upto(i) \in SUBSET I
    OBVIOUS
  <2> HIDE DEF Upto
  <2> QED
    BY <1>1, <2>1, FS_Subset, FS_CardinalityType
<1>3. ASSUME NEW i \in I PROVE Cardinality(Upto(i)) # 0
  <2>1. i \in Upto(i)
    OBVIOUS
  <2> HIDE DEF Upto
  <2> QED
    BY <1>2, <2>1, FS_EmptySet
<1>4. ASSUME NEW i \in I, NEW j \in I, i < j
      PROVE  Cardinality(Upto(i)) < Cardinality(Upto(j))
  <2>1. Upto(i) \in SUBSET Upto(j) /\ j \in Upto(j) /\ j \notin Upto(i)
    <3>1. i \in Nat /\ j \in Nat /\ \A k \in I : k \in Nat
      BY <1>1
    <3>2. \A k \in I : k <= i => k <= j
      BY <1>4, <3>1
    <3>3. j <= j /\ ~(j <= i)
      BY <1>4, <3>1
    <3> QED
      BY <3>2, <3>3
  <2> HIDE DEF Upto
  <2>2. /\ Cardinality(Upto(i)) <= Cardinality(Upto(j))
        /\ Cardinality(Upto(j)) # Cardinality(Upto(i))
    BY <1>2, <2>1, FS_Subset
  <2> QED
    BY <1>2, <2>2
<1> HIDE DEF Upto
<1>5. \A i : Rank(I, i) = Cardinality(Upto(i))
    BY DEF Rank, Upto
<1>6. \A i \in I : Rank(I, i) \in 1 .. Cardinality(I)
    BY <1>1, <1>2, <1>3, <1>5
<1>7. \A i, j \in I : i < j => Rank(I, i) < Rank(I, j)
    BY <1>4, <1>5
<1>8. \A i, j \in I : Rank(I, i) = Rank(I, j) => i = j
  <2> TAKE i, j \in I
  <2>1. i < j \/ i = j \/ j < i
    OBVIOUS
  <2>2. Rank(I, i) \in Nat /\ Rank(I, j) \in Nat
    BY <1>2, <1>5
  <2> QED
    BY <1>7, <2>1, <2>2
<1>9. ASSUME NEW k \in 1 .. Cardinality(I) PROVE \E i \in I : Rank(I, i) = k
  <2> DEFINE f == [i \in I |-> Rank(I, i)]
             T == 1 .. Cardinality(I)
  <2>1. f \in Injection(I, T)
    BY <1>6, <1>8 DEF Injection, IsInjective
  <2>2. IsFiniteSet(T) /\ Cardinality(T) = Cardinality(I)
    BY <1>1, FS_Interval
  <2> HIDE DEF f, T
  <2>3. f \in Surjection(I, T)
    BY <2>1, <2>2, FS_Injection
  <2>4. k \in T
    BY DEF T
  <2> QED
    BY <2>3, <2>4 DEF Surjection, f
<1> QED
    BY <1>1, <1>6, <1>7, <1>8, <1>9

LEMMA FilteredIs ==
  ASSUME NEW E, NEW es \in Seq(E), NEW I \in SUBSET DOMAIN es
  PROVE  /\ Cardinality(I) \in Nat /\ Len(Filtered(es, I)) = Cardinality(I)
         /\ DOMAIN Filtered(es, I) = 1 .. Cardinality(I)
         /\ Filtered(es, I) \in Seq(E)
         /\ \A i \in I : /\ Rank(I, i) \in 1 .. Cardinality(I)
                         /\ Filtered(es, I)[Rank(I, i)] = es[i]
         /\ \A k \in 1 .. Cardinality(I) :
              \E i \in I : Rank(I, i) = k /\ Filtered(es, I)[k] = es[i]
<1>1. DOMAIN es = 1 .. Len(es) /\ Len(es) \in Nat /\ \A i \in DOMAIN es : es[i] \in E
    OBVIOUS
<1>2. /\ Cardinality(I) \in Nat
      /\ \A i \in I : Rank(I, i) \in 1 .. Cardinality(I)
      /\ \A i, j \in I : Rank(I, i) = Rank(I, j) => i = j
      /\ \A k \in 1 .. Cardinality(I) : \E i \in I : Rank(I, i) = k
    BY <1>1, Ranks
<1> DEFINE At(k) == CHOOSE i \in I : Rank(I, i) = k
           f == [k \in 1 .. Cardinality(I) |-> es[At(k)]]
<1>3. Filtered(es, I) = f
    BY DEF Filtered, Rank
<1>4. \A k \in 1 .. Cardinality(I) : At(k) \in I /\ Rank(I, At(k)) = k
    BY <1>2
<1> HIDE DEF At
<1>5. f \in [1 .. Cardinality(I) -> E]
    BY <1>1, <1>4
<1>6. f \in Seq(E) /\ Len(f) = Cardinality(I) /\ DOMAIN f = 1 .. Cardinality(I)
    BY <1>2, <1>5
<1>7. \A k \in 1 .. Cardinality(I) : f[k] = es[At(k)]
    OBVIOUS
<1> HIDE DEF f
<1>8. \A i \in I : f[Rank(I, i)] = es[i]
    BY <1>2, <1>4, <1>7
<1> QED
    BY <1>2, <1>3, <1>4, <1>6, <1>7, <1>8

Waiting(es) == {i \in DOMAIN es : es[i].status = "Pending"}
Decided(es) == {i \in DOMAIN es : es[i].status # "Pending"}

LEMMA PendingIs ==
  ASSUME NEW es \in Seq(Entry)
  PROVE  /\ ToSet(Pending(es)) = {es[i] : i \in Waiting(es)}
         /\ ToSet(Resolved(es)) = {es[i] : i \in Decided(es)}
         /\ Len(Resolved(es)) = Cardinality(Decided(es))
         /\ Cardinality(Decided(es)) \in Nat
<1>1. Waiting(es) \in SUBSET DOMAIN es /\ Decided(es) \in SUBSET DOMAIN es
    BY DEF Waiting, Decided
<1>2. Pending(es) = Filtered(es, Waiting(es)) /\ Resolved(es) = Filtered(es, Decided(es))
    BY DEF Pending, Resolved, Waiting, Decided
<1>3. ASSUME NEW I \in SUBSET DOMAIN es
      PROVE  /\ ToSet(Filtered(es, I)) = {es[i] : i \in I}
             /\ Len(Filtered(es, I)) = Cardinality(I) /\ Cardinality(I) \in Nat
  <2> DEFINE f == Filtered(es, I)
  <2>1. /\ Cardinality(I) \in Nat /\ Len(f) = Cardinality(I) /\ DOMAIN f = 1 .. Cardinality(I)
        /\ \A i \in I : Rank(I, i) \in 1 .. Cardinality(I) /\ f[Rank(I, i)] = es[i]
        /\ \A k \in 1 .. Cardinality(I) : \E i \in I : Rank(I, i) = k /\ f[k] = es[i]
    BY FilteredIs
  <2> HIDE DEF f
  <2>2. ToSet(f) = {es[i] : i \in I}
    BY <2>1 DEF ToSet
  <2> QED
    BY <2>1, <2>2 DEF f
<1> QED
    BY <1>1, <1>2, <1>3

\* The rank of an element is the length of what is kept of the list up to it.
LEMMA PrefixIs ==
  ASSUME NEW es \in Seq(Entry), NEW i \in DOMAIN es
  PROVE  /\ Len(Pending(SubSeq(es, 1, i))) = Rank(Waiting(es), i)
         /\ Len(Resolved(SubSeq(es, 1, i))) = Rank(Decided(es), i)
<1> DEFINE pre == SubSeq(es, 1, i)
<1>1. i \in 1 .. Len(es) /\ Len(es) \in Nat /\ DOMAIN es = 1 .. Len(es)
    OBVIOUS
<1>2. pre \in Seq(Entry) /\ DOMAIN pre = 1 .. i /\ \A j \in 1 .. i : pre[j] = es[j]
    BY <1>1
<1> HIDE DEF pre
<1>3. Waiting(pre) = {j \in Waiting(es) : j <= i}
    BY <1>1, <1>2 DEF Waiting
<1>4. Decided(pre) = {j \in Decided(es) : j <= i}
    BY <1>1, <1>2 DEF Decided
<1>5. Waiting(pre) \in SUBSET DOMAIN pre /\ Decided(pre) \in SUBSET DOMAIN pre
    BY DEF Waiting, Decided
<1>6. Len(Pending(pre)) = Cardinality(Waiting(pre))
    BY <1>2, <1>5, FilteredIs DEF Pending, Waiting
<1>7. Len(Resolved(pre)) = Cardinality(Decided(pre))
    BY <1>2, <1>5, FilteredIs DEF Resolved, Decided
<1> QED
    BY <1>3, <1>4, <1>6, <1>7 DEF pre, Rank

\* What trim_history leaves: every undecided entry, and as many of the decided
\* ones as the history has room for.
LEMMA TrimHistoryIs ==
  ASSUME NEW es \in Seq(Entry)
  PROVE  /\ TrimHistory(es) \in Seq(Entry)
         /\ \A k \in DOMAIN TrimHistory(es) : \E i \in DOMAIN es : TrimHistory(es)[k] = es[i]
         /\ \A i \in Waiting(es) : \E k \in DOMAIN TrimHistory(es) : TrimHistory(es)[k] = es[i]
         /\ (\A i, j \in DOMAIN es : es[i].num = es[j].num => i = j)
              => \A k, l \in DOMAIN TrimHistory(es) :
                   TrimHistory(es)[k].num = TrimHistory(es)[l].num => k = l
         /\ Cardinality(Decided(TrimHistory(es))) <= HistoryCapacity
<1> DEFINE R == Decided(es)
           excess == Cardinality(R) - HistoryCapacity
           K == {i \in DOMAIN es : ~(es[i].status # "Pending" /\ Rank(R, i) <= excess)}
           T == TrimHistory(es)
           D == {i \in K : es[i].status # "Pending"}
<1>1. HistoryCapacity \in Nat /\ Len(es) \in Nat /\ DOMAIN es = 1 .. Len(es)
    BY TuiAssumption
<1>2. Len(Resolved(es)) = Cardinality(R) /\ Cardinality(R) \in Nat
    BY PendingIs
<1>3. T = Filtered(es, K)
  <2>1. \A i \in DOMAIN es : Len(Resolved(SubSeq(es, 1, i))) = Rank(R, i)
    BY PrefixIs
  <2>2. K = {i \in DOMAIN es : ~(es[i].status # "Pending"
                              /\ Len(Resolved(SubSeq(es, 1, i))) <= excess)}
    BY <2>1
  <2> HIDE DEF K
  <2> QED
    BY <1>2, <2>2 DEF TrimHistory
<1>4. K \in SUBSET DOMAIN es /\ R \in SUBSET (1 .. Len(es)) /\ D \in SUBSET (1 .. Len(es))
    BY <1>1 DEF Decided
<1>5. \A i \in Waiting(es) : i \in K
    BY DEF Waiting
<1>6. D = {i \in R : ~(Rank(R, i) <= excess)}
    BY DEF Decided
<1>7. /\ Cardinality(K) \in Nat /\ DOMAIN T = 1 .. Cardinality(K) /\ T \in Seq(Entry)
      /\ \A i \in K : Rank(K, i) \in 1 .. Cardinality(K) /\ T[Rank(K, i)] = es[i]
      /\ \A k \in 1 .. Cardinality(K) : \E i \in K : Rank(K, i) = k /\ T[k] = es[i]
  <2> HIDE DEF K, T
  <2> QED
    BY <1>3, <1>4, FilteredIs
<1>8. \A i, j \in K : Rank(K, i) = Rank(K, j) => i = j
  <2> HIDE DEF K
  <2> QED
    BY <1>1, <1>4, Ranks
<1>9. \A i \in K : i \in D <=> es[i].status # "Pending"
    OBVIOUS
<1>10. D \subseteq K
    OBVIOUS
<1>11. IsFiniteSet(D) /\ Cardinality(D) \in Nat
  <2> HIDE DEF D
  <2> QED
    BY <1>1, <1>4, Ranks
<1>12. Cardinality(D) <= HistoryCapacity
  <2> HIDE DEF D
  <2>1. CASE Cardinality(R) <= HistoryCapacity
    <3>1. D \in SUBSET R /\ IsFiniteSet(R)
      BY <1>1, <1>4, <1>6, Ranks
    <3>2. Cardinality(D) <= Cardinality(R)
      BY <3>1, FS_Subset
    <3> QED
      BY <1>1, <1>2, <1>11, <2>1, <3>2
  <2>2. CASE Cardinality(R) > HistoryCapacity
    <3> DEFINE f == [i \in D |-> Rank(R, i)]
               N == excess + 1 .. Cardinality(R)
    <3>1. \A i \in R : Rank(R, i) \in 1 .. Cardinality(R)
      BY <1>1, <1>4, Ranks
    <3>2. \A i, j \in R : Rank(R, i) = Rank(R, j) => i = j
      BY <1>1, <1>4, Ranks
    <3>3. excess \in Nat
      BY <1>1, <1>2, <2>2
    <3>4. \A i \in D : i \in R /\ Rank(R, i) \in N
      <4> TAKE i \in D
      <4>1. i \in R /\ ~(Rank(R, i) <= excess)
        BY <1>6
      <4> QED
        BY <1>2, <3>1, <3>3, <4>1
    <3>5. f \in Injection(D, N)
      BY <3>2, <3>4 DEF Injection, IsInjective
    <3>6. IsFiniteSet(N) /\ Cardinality(N) = HistoryCapacity
      <4>1. PICK h \in Nat : h = HistoryCapacity
        BY <1>1
      <4>2. PICK c \in Nat : c = Cardinality(R)
        BY <1>2
      <4>3. N = (c - h + 1 .. c)
        BY <4>1, <4>2
      <4>4. c - h + 1 \in Int /\ c \in Int
        OBVIOUS
      <4>5. c - (c - h + 1) + 1 = h
        OBVIOUS
      <4>6. c - h + 1 > c => h = 0
        OBVIOUS
      <4>7. IsFiniteSet(c - h + 1 .. c) /\ Cardinality(c - h + 1 .. c) = h
        BY <4>4, <4>5, <4>6, FS_Interval
      <4> QED
        BY <4>1, <4>3, <4>7
    <3> HIDE DEF f, N
    <3> QED
      BY <3>5, <3>6, FS_Injection
  <2> QED
    BY <1>1, <1>2, <2>1, <2>2
<1> HIDE DEF R, K, T, D
<1>13. Cardinality(Decided(T)) <= HistoryCapacity
  <2> DEFINE f == [i \in D |-> Rank(K, i)]
             DT == Decided(T)
  <2>1. \A i \in D : Rank(K, i) \in DT
    BY <1>7, <1>9, <1>10 DEF Decided
  <2>2. \A k \in DT : \E i \in D : Rank(K, i) = k
    BY <1>7, <1>9 DEF Decided
  <2> HIDE DEF DT
  <2>3. f \in Surjection(D, DT)
    BY <2>1, <2>2 DEF Surjection
  <2> HIDE DEF f
  <2>4. IsFiniteSet(DT) /\ Cardinality(DT) <= Cardinality(D)
    BY <1>11, <2>3, FS_Surjection
  <2>5. Cardinality(DT) \in Nat
    BY <2>4, FS_CardinalityType
  <2> QED
    BY <1>1, <1>11, <1>12, <2>4, <2>5 DEF DT
<1>14. \A k \in DOMAIN T : \E i \in DOMAIN es : T[k] = es[i]
    BY <1>4, <1>7
<1>15. \A i \in Waiting(es) : \E k \in DOMAIN T : T[k] = es[i]
    BY <1>5, <1>7
<1>16. ASSUME \A i, j \in DOMAIN es : es[i].num = es[j].num => i = j,
              NEW k \in DOMAIN T, NEW l \in DOMAIN T, T[k].num = T[l].num
       PROVE  k = l
  <2>1. PICK i \in K : Rank(K, i) = k /\ T[k] = es[i]
    BY <1>7
  <2>2. PICK j \in K : Rank(K, j) = l /\ T[l] = es[j]
    BY <1>7
  <2>3. i = j
    BY <1>4, <1>16, <2>1, <2>2
  <2> QED
    BY <2>1, <2>2, <2>3
<1> QED
    BY <1>7, <1>13, <1>14, <1>15, <1>16 DEF T
-----------------------------------------------------------------------------
(* The queue, the decisions and the frame.                                 *)

Decision == [num : 1 .. MaxEntries, verdict : {"Approved", "Denied"}]

TypeOK ==
  /\ entries \in Seq(Entry)
  /\ submissions \in 0 .. MaxEntries
  /\ decisions \in Seq(Decision)

\* Every entry has a number of its own, of those that were given.
Numbered ==
  /\ \A i, j \in DOMAIN entries : entries[i].num = entries[j].num => i = j
  /\ \A i \in DOMAIN entries : entries[i].num <= submissions
  /\ \A k \in DOMAIN decisions : decisions[k].num <= submissions

\* What was submitted and not decided waits, and nothing else does.
UndecidedWait ==
  \A n \in 1 .. submissions :
    (\A k \in DOMAIN decisions : decisions[k].num # n)
      <=> \E i \in Waiting(entries) : entries[i].num = n

\* A decided entry shows what was decided.
VerdictsShown ==
  \A i \in Decided(entries) :
    \E k \in DOMAIN decisions :
      decisions[k].num = entries[i].num /\ decisions[k].verdict = entries[i].status

Trimmed == Cardinality(Decided(entries)) <= HistoryCapacity

QueueInv == TypeOK /\ Numbered /\ UndecidedWait /\ VerdictsShown /\ Trimmed

\* While a key is awaited the tab is as it was drawn.
FrameIsCurrent ==
  pc = "key" => /\ tab = "Diagnostics" => frame = DiagnosticsFrame
                /\ tab = "Arbiter" => frame = ArbiterFrame

LEMMA InitQueue == Init => QueueInv
<1> SUFFICES ASSUME Init PROVE QueueInv
    OBVIOUS
<1>1. entries = <<>> /\ decisions = <<>> /\ submissions = 0 /\ MaxEntries \in Nat
    BY TuiAssumption DEF Init
<1>2. HistoryCapacity \in Nat /\ Decided(entries) = {} /\ Waiting(entries) = {}
    BY <1>1, TuiAssumption DEF Decided, Waiting
<1>3. TypeOK
    BY <1>1 DEF TypeOK
<1>4. Numbered /\ UndecidedWait /\ VerdictsShown
    BY <1>1, <1>2 DEF Numbered, UndecidedWait, VerdictsShown
<1>5. Trimmed
    BY <1>2, FS_EmptySet DEF Trimmed
<1> QED
    BY <1>3, <1>4, <1>5 DEF QueueInv

\* Enter adds a waiting entry with the next number.
LEMMA ExecuteKeeps == QueueInv /\ DiagExecute => QueueInv'
<1> SUFFICES ASSUME QueueInv, DiagExecute PROVE QueueInv'
    OBVIOUS
<1> USE DEF QueueInv
<1>1. PICK d \in Executable : entries' = Submit(d)
    BY DEF DiagExecute
<1> DEFINE e == [num |-> submissions + 1, diag |-> d, status |-> "Pending"]
<1>2. /\ entries' = Append(entries, e) /\ submissions' = submissions + 1
      /\ decisions' = decisions /\ submissions < MaxEntries
    BY <1>1 DEF DiagExecute, Submit
<1>3. /\ MaxEntries \in Nat /\ submissions \in Nat /\ entries \in Seq(Entry)
      /\ \A k \in DOMAIN decisions : decisions[k].num \in Nat
  <2>1. \A k \in DOMAIN decisions : decisions[k] \in Decision
    BY DEF TypeOK
  <2>2. \A k \in DOMAIN decisions : decisions[k].num \in 1 .. MaxEntries
    BY <2>1 DEF Decision
  <2> QED
    BY <2>2, TuiAssumption DEF TypeOK
<1>4. e \in Entry /\ e.num = submissions + 1 /\ e.status = "Pending"
    BY <1>2, <1>3, TuiAssumption DEF Entry
<1> HIDE DEF e
<1>5. /\ Len(entries) \in Nat /\ DOMAIN entries = 1 .. Len(entries)
      /\ DOMAIN entries' = 1 .. Len(entries) + 1 /\ entries' \in Seq(Entry)
      /\ \A i \in 1 .. Len(entries) : entries'[i] = entries[i]
      /\ entries'[Len(entries) + 1] = e
    BY <1>2, <1>3, <1>4
<1>6. \A i \in DOMAIN entries : entries[i].num \in Nat /\ entries[i].num <= submissions
  <2>1. \A i \in DOMAIN entries : entries[i] \in Entry
    BY <1>3
  <2> QED
    BY <2>1, TuiAssumption DEF Entry, Numbered
<1>7. Decided(entries)' = Decided(entries)
    BY <1>4, <1>5 DEF Decided
<1>8. Waiting(entries)' = Waiting(entries) \cup {Len(entries) + 1}
    BY <1>4, <1>5 DEF Waiting
<1>9. TypeOK'
    BY <1>2, <1>3, <1>5 DEF TypeOK
<1>10. Numbered'
  <2>1. \A i \in DOMAIN entries' : entries'[i].num <= submissions'
    <3> TAKE i \in DOMAIN entries'
    <3>1. i \in 1 .. Len(entries) \/ i = Len(entries) + 1
      BY <1>5
    <3> QED
      BY <1>2, <1>3, <1>4, <1>5, <1>6, <3>1
  <2>2. ASSUME NEW i \in DOMAIN entries', NEW j \in DOMAIN entries', entries'[i].num = entries'[j].num
        PROVE  i = j
    <3>1. (i \in 1 .. Len(entries) \/ i = Len(entries) + 1)
          /\ (j \in 1 .. Len(entries) \/ j = Len(entries) + 1)
      BY <1>5
    <3>2. \A k \in 1 .. Len(entries) : entries'[k].num = entries[k].num /\ entries[k].num # e.num
      BY <1>3, <1>4, <1>5, <1>6
    <3> QED
      BY <1>5, <2>2, <3>1, <3>2 DEF Numbered
  <2>3. \A k \in DOMAIN decisions' : decisions'[k].num <= submissions'
    BY <1>2, <1>3 DEF Numbered
  <2> QED
    BY <2>1, <2>2, <2>3 DEF Numbered
<1>11. UndecidedWait'
  <2> SUFFICES ASSUME NEW n \in 1 .. submissions'
               PROVE  (\A k \in DOMAIN decisions : decisions[k].num # n)
                        <=> \E i \in Waiting(entries)' : entries'[i].num = n
      BY <1>2 DEF UndecidedWait
  <2>1. CASE n = submissions + 1
    <3>1. \A k \in DOMAIN decisions : decisions[k].num # n
      BY <1>3, <2>1 DEF Numbered
    <3> QED
      BY <1>4, <1>5, <1>8, <2>1, <3>1
  <2>2. CASE n \in 1 .. submissions
    <3>1. \A i \in Waiting(entries) : entries'[i] = entries[i]
      BY <1>5 DEF Waiting
    <3>2. e.num # n
      BY <1>3, <1>4, <2>2
    <3> QED
      BY <1>5, <1>8, <2>2, <3>1, <3>2 DEF UndecidedWait
  <2>3. n = submissions + 1 \/ n \in 1 .. submissions
    BY <1>2, <1>3
  <2> QED
    BY <2>1, <2>2, <2>3
<1>12. VerdictsShown'
  <2>1. \A i \in Decided(entries) : entries'[i] = entries[i]
    BY <1>5 DEF Decided
  <2> QED
    BY <1>2, <1>7, <2>1 DEF VerdictsShown
<1>13. Trimmed'
    BY <1>7 DEF Trimmed
<1> QED
    BY <1>9, <1>10, <1>11, <1>12, <1>13

\* y and n decide the entry that is selected, and trim the history.
LEMMA DecideKeeps == ASSUME QueueInv, NEW v \in {"Approved", "Denied"}, Decide(v) PROVE QueueInv'
<1> USE DEF QueueInv
<1>1. PICK i \in DOMAIN entries :
        /\ entries[i].status = "Pending"
        /\ entries' = Judged(i, v)
        /\ decisions' = Append(decisions, [num |-> entries[i].num, verdict |-> v])
    BY DEF Decide
<1> DEFINE es == [entries EXCEPT ![i].status = v]
           d == [num |-> entries[i].num, verdict |-> v]
<1>2. entries' = TrimHistory(es) /\ decisions' = Append(decisions, d) /\ submissions' = submissions
    BY <1>1 DEF Judged, Decide
<1>3. /\ MaxEntries \in Nat /\ submissions \in Nat /\ entries \in Seq(Entry)
      /\ decisions \in Seq(Decision) /\ entries[i] \in Entry
    BY TuiAssumption DEF TypeOK
<1>4. /\ es \in Seq(Entry) /\ DOMAIN es = DOMAIN entries
      /\ \A j \in DOMAIN entries : j # i => es[j] = entries[j]
      /\ es[i].num = entries[i].num /\ es[i].status = v
  <2> DEFINE e == [entries[i] EXCEPT !.status = v]
  <2>1. e \in Entry /\ e.num = entries[i].num /\ e.status = v
    BY <1>3 DEF Entry
  <2>2. es = [entries EXCEPT ![i] = e]
    OBVIOUS
  <2> HIDE DEF e, es
  <2> QED
    BY <1>3, <2>1, <2>2
<1>5. d \in Decision /\ d.num = entries[i].num /\ d.verdict = v
    BY <1>3 DEF Entry, Decision
<1> HIDE DEF es, d
<1>6. /\ Len(decisions) \in Nat /\ DOMAIN decisions = 1 .. Len(decisions)
      /\ DOMAIN decisions' = 1 .. Len(decisions) + 1 /\ decisions' \in Seq(Decision)
      /\ \A k \in 1 .. Len(decisions) : decisions'[k] = decisions[k]
      /\ decisions'[Len(decisions) + 1] = d
    BY <1>2, <1>3, <1>5
<1>7. \A j \in DOMAIN entries : es[j].num = entries[j].num
    BY <1>4
<1>8. /\ entries' \in Seq(Entry)
      /\ \A k \in DOMAIN entries' : \E j \in DOMAIN es : entries'[k] = es[j]
      /\ \A j \in Waiting(es) : \E k \in DOMAIN entries' : entries'[k] = es[j]
      /\ (\A j, k \in DOMAIN es : es[j].num = es[k].num => j = k)
           => \A k, l \in DOMAIN entries' : entries'[k].num = entries'[l].num => k = l
      /\ Cardinality(Decided(entries')) <= HistoryCapacity
  <2> DEFINE T == TrimHistory(es)
  <2>1. /\ T \in Seq(Entry)
        /\ \A k \in DOMAIN T : \E j \in DOMAIN es : T[k] = es[j]
        /\ \A j \in Waiting(es) : \E k \in DOMAIN T : T[k] = es[j]
        /\ (\A j, k \in DOMAIN es : es[j].num = es[k].num => j = k)
             => \A k, l \in DOMAIN T : T[k].num = T[l].num => k = l
        /\ Cardinality(Decided(T)) <= HistoryCapacity
    BY <1>4, TrimHistoryIs
  <2>2. entries' = T
    BY <1>2
  <2> HIDE DEF T
  <2> QED
    BY <2>1, <2>2
<1>9. TypeOK'
    BY <1>2, <1>6, <1>8 DEF TypeOK
<1>10. Numbered'
  <2>1. \A j, k \in DOMAIN es : es[j].num = es[k].num => j = k
    <3>1. DOMAIN es = DOMAIN entries /\ \A j \in DOMAIN es : es[j].num = entries[j].num
      BY <1>4, <1>7, Zenon
    <3>2. \A j, k \in DOMAIN entries : entries[j].num = entries[k].num => j = k
      BY DEF Numbered
    <3> TAKE j, k \in DOMAIN es
    <3>3. /\ j \in DOMAIN entries /\ es[j].num = entries[j].num
          /\ k \in DOMAIN entries /\ es[k].num = entries[k].num
      BY <3>1, Zenon
    <3> QED
      BY <3>2, <3>3
  <2>2. ASSUME NEW k \in DOMAIN entries' PROVE entries'[k].num <= submissions'
    <3>a. PICK j \in DOMAIN es : entries'[k] = es[j]
      BY <1>8
    <3>1. j \in DOMAIN entries /\ entries'[k] = es[j]
      BY <1>4, <3>a, Zenon
    <3>2. es[j].num = entries[j].num /\ entries[j].num <= submissions
      BY <1>7, <3>1 DEF Numbered
    <3> QED
      BY <1>2, <3>1, <3>2, Zenon
  <2>3. \A k \in DOMAIN decisions' : decisions'[k].num <= submissions'
    <3> TAKE k \in DOMAIN decisions'
    <3>1. k \in 1 .. Len(decisions) \/ k = Len(decisions) + 1
      BY <1>6
    <3> QED
      BY <1>2, <1>5, <1>6, <3>1 DEF Numbered
  <2> QED
    BY <1>8, <2>1, <2>2, <2>3 DEF Numbered
<1>11. UndecidedWait'
  <2> SUFFICES ASSUME NEW n \in 1 .. submissions
               PROVE  (\A k \in DOMAIN decisions' : decisions'[k].num # n)
                        <=> \E k \in Waiting(entries') : entries'[k].num = n
      BY <1>2 DEF UndecidedWait
  <2>1. (\A k \in DOMAIN decisions' : decisions'[k].num # n)
          <=> (\A k \in DOMAIN decisions : decisions[k].num # n) /\ entries[i].num # n
    BY <1>5, <1>6
  <2>2. \A j : j \in Waiting(es) <=> j \in Waiting(entries) /\ j # i
    BY <1>1, <1>4 DEF Waiting
  <2>3. (\E k \in Waiting(entries') : entries'[k].num = n) <=> \E j \in Waiting(es) : es[j].num = n
    BY <1>8 DEF Waiting
  <2>4. (\E j \in Waiting(es) : es[j].num = n)
          <=> (\E j \in Waiting(entries) : entries[j].num = n) /\ entries[i].num # n
    <3>1. \A j \in Waiting(entries) : j \in DOMAIN entries
      BY DEF Waiting
    <3>2. \A j \in DOMAIN entries : entries[j].num = entries[i].num => j = i
      BY DEF Numbered
    <3> QED
      BY <1>7, <2>2, <3>1, <3>2
  <2>5. (\A k \in DOMAIN decisions : decisions[k].num # n)
          <=> \E j \in Waiting(entries) : entries[j].num = n
    BY DEF UndecidedWait
  <2> QED
    BY <2>1, <2>3, <2>4, <2>5
<1>12. VerdictsShown'
  <2> SUFFICES ASSUME NEW k \in Decided(entries')
               PROVE  \E l \in DOMAIN decisions' : decisions'[l].num = entries'[k].num
                                                /\ decisions'[l].verdict = entries'[k].status
      BY DEF VerdictsShown
  <2>1. PICK j \in DOMAIN entries : entries'[k] = es[j] /\ es[j].status # "Pending"
    BY <1>4, <1>8 DEF Decided
  <2>2. CASE j = i
    BY <1>4, <1>5, <1>6, <2>1, <2>2
  <2>3. CASE j # i
    <3>1. j \in Decided(entries) /\ entries'[k] = entries[j]
      BY <1>4, <2>1, <2>3 DEF Decided
    <3>2. PICK l \in DOMAIN decisions :
            decisions[l].num = entries[j].num /\ decisions[l].verdict = entries[j].status
      BY <3>1 DEF VerdictsShown
    <3>3. l \in DOMAIN decisions' /\ decisions'[l] = decisions[l]
      BY <1>6, <3>2
    <3> QED
      BY <3>1, <3>2, <3>3
  <2> QED
    BY <2>2, <2>3
<1>13. Trimmed'
    BY <1>8 DEF Trimmed
<1> QED
    BY <1>9, <1>10, <1>11, <1>12, <1>13

\* The other keys, and the rest of the turn, leave the queue alone.
LEMMA NextQueue == QueueInv /\ [Next]_vars => QueueInv'
<1> SUFFICES ASSUME QueueInv, [Next]_vars PROVE QueueInv'
    OBVIOUS
<1>1. ASSUME UNCHANGED <<entries, submissions, decisions>> PROVE QueueInv'
    BY <1>1 DEF QueueInv, TypeOK, Numbered, UndecidedWait, VerdictsShown, Trimmed, Waiting, Decided
<1>2. CASE SourceChanges \/ Sample \/ Draw
    BY <1>1, <1>2 DEF SourceChanges, Sample, Draw
<1>3. CASE NoKey \/ SwitchTab \/ DiagMove \/ DiagDismiss
    BY <1>1, <1>3 DEF NoKey, SwitchTab, DiagMove, DiagDismiss
<1>4. CASE ArbMove \/ ArbInspect
    BY <1>1, <1>4 DEF ArbMove, ArbInspect
<1>5. CASE DiagExecute
    BY <1>5, ExecuteKeeps
<1>6. ASSUME NEW v \in {"Approved", "Denied"}, Decide(v) PROVE QueueInv'
    BY <1>6, DecideKeeps
<1>7. CASE UNCHANGED vars
    BY <1>1, <1>7 DEF vars
<1> QED
    BY <1>2, <1>3, <1>4, <1>5, <1>6, <1>7 DEF Next, KeyTurn

LEMMA QueueAlways == Spec => []QueueInv
<1> QED
    BY InitQueue, NextQueue, PTL DEF Spec

\* For every capacity of the history and any number of decisions: what was
\* submitted and not decided is in the queue, at most HISTORY_CAPACITY decided
\* entries are, and each shows the verdict it was given.
THEOREM HistoryIsTrimmedSafely == Spec => []HistoryTrimmedSafely
<1>1. QueueInv => HistoryTrimmedSafely
  <2> SUFFICES ASSUME QueueInv PROVE HistoryTrimmedSafely
      OBVIOUS
  <2> USE DEF QueueInv
  <2>1. /\ entries \in Seq(Entry) /\ submissions \in 0 .. MaxEntries
        /\ decisions \in Seq(Decision) /\ MaxEntries \in Nat
    BY TuiAssumption DEF TypeOK
  <2>2. /\ ToSet(Pending(entries)) = {entries[i] : i \in Waiting(entries)}
        /\ ToSet(Resolved(entries)) = {entries[i] : i \in Decided(entries)}
        /\ Len(Resolved(entries)) = Cardinality(Decided(entries))
    BY <2>1, PendingIs
  <2>3. \A i \in Waiting(entries) : entries[i].num \in 1 .. submissions
    <3> TAKE i \in Waiting(entries)
    <3>1. entries[i] \in Entry /\ entries[i].num <= submissions
      BY <2>1 DEF Waiting, Numbered
    <3> QED
      BY <2>1, <3>1 DEF Entry
  <2>4. {e.num : e \in ToSet(Pending(entries))} = {entries[i].num : i \in Waiting(entries)}
    BY <2>2
  <2>5. {d.num : d \in ToSet(decisions)} = {decisions[k].num : k \in DOMAIN decisions}
    BY DEF ToSet
  <2>6. {e.num : e \in ToSet(Pending(entries))}
          = (1 .. submissions) \ {d.num : d \in ToSet(decisions)}
    <3> DEFINE A == {e.num : e \in ToSet(Pending(entries))}
               B == {d.num : d \in ToSet(decisions)}
    <3>1. \A n : n \in A <=> \E i \in Waiting(entries) : entries[i].num = n
      BY <2>4
    <3>2. \A n : n \in B <=> \E k \in DOMAIN decisions : decisions[k].num = n
      BY <2>5
    <3> HIDE DEF A, B
    <3>3. \A n \in A : n \in 1 .. submissions
      BY <2>3, <3>1
    <3>4. \A n \in 1 .. submissions : n \in A <=> n \notin B
      BY <3>1, <3>2 DEF UndecidedWait
    <3>5. A = (1 .. submissions) \ B
      BY <3>3, <3>4
    <3> QED
      BY <3>5 DEF A, B
  <2>7. \A e \in ToSet(Resolved(entries)) :
          \E d \in ToSet(decisions) : d.num = e.num /\ d.verdict = e.status
    BY <2>2 DEF VerdictsShown, ToSet
  <2> QED
    BY <2>2, <2>6, <2>7 DEF HistoryTrimmedSafely, Trimmed
<1> QED
    BY <1>1, QueueAlways, PTL
-----------------------------------------------------------------------------
\* Nothing but a key changes what is selected once a frame is drawn.
LEMMA NextFrame == FrameIsCurrent /\ [Next]_vars => FrameIsCurrent'
<1> SUFFICES ASSUME FrameIsCurrent, [Next]_vars PROVE FrameIsCurrent'
    OBVIOUS
<1> USE DEF FrameIsCurrent
<1>1. CASE SourceChanges \/ UNCHANGED vars
    BY <1>1 DEF SourceChanges, vars, DiagnosticsFrame, ArbiterFrame
<1>2. CASE Sample
    BY <1>2 DEF Sample
<1>3. CASE Draw
    BY <1>3 DEF Draw, DiagnosticsFrame, ArbiterFrame
<1>4. CASE KeyTurn
  <2>1. pc' = "sample"
    BY <1>4 DEF KeyTurn, NoKey, SwitchTab, DiagMove, DiagExecute, DiagDismiss, ArbMove,
                ArbInspect, Decide, Key
  <2> QED
    BY <2>1
<1> QED
    BY <1>1, <1>2, <1>3, <1>4 DEF Next

\* The selected action is the one that is decided.
LEMMA SelectedIsDecided ==
  ASSUME QueueInv, NEW i \in DOMAIN entries, entries[i].status = "Pending",
         Len(Pending(SubSeq(entries, 1, i))) = arbSelected
  PROVE  RowAt(Pending(entries), arbSelected) = {entries[i]}
<1>1. entries \in Seq(Entry) /\ i \in Waiting(entries) /\ Waiting(entries) \in SUBSET DOMAIN entries
    BY DEF QueueInv, TypeOK, Waiting
<1>2. arbSelected = Rank(Waiting(entries), i)
    BY <1>1, PrefixIs
<1>3. Pending(entries) = Filtered(entries, Waiting(entries))
    BY DEF Pending, Waiting
<1>4. arbSelected \in DOMAIN Pending(entries) /\ Pending(entries)[arbSelected] = entries[i]
    BY <1>1, <1>2, <1>3, FilteredIs
<1> QED
    BY <1>4 DEF RowAt

\* For every list of diagnostics, however it changes after it was sampled:
\* Enter submits what the last frame showed as selected, and y or n decides it.
THEOREM KeysActOnTheFrame == Spec => KeyActsOnFrame
<1>1. Init => FrameIsCurrent
    BY DEF Init, FrameIsCurrent
<1>2. Spec => []FrameIsCurrent
    BY <1>1, NextFrame, PTL DEF Spec
<1> DEFINE Acts == /\ submissions' # submissions => Last(entries').diag \in frame.diag
                   /\ decisions' # decisions => Last(decisions').num \in frame.entry
<1>3. QueueInv /\ FrameIsCurrent /\ [Next]_vars => [Acts]_vars
  <2> SUFFICES ASSUME QueueInv, FrameIsCurrent, Next PROVE Acts
      OBVIOUS
  <2>1. ASSUME UNCHANGED <<submissions, decisions>> PROVE Acts
    BY <2>1
  <2>2. CASE SourceChanges \/ Sample \/ Draw
    BY <2>1, <2>2 DEF SourceChanges, Sample, Draw
  <2>3. CASE NoKey \/ SwitchTab \/ DiagMove \/ DiagDismiss
    BY <2>1, <2>3 DEF NoKey, SwitchTab, DiagMove, DiagDismiss
  <2>4. CASE ArbMove \/ ArbInspect
    BY <2>1, <2>4 DEF ArbMove, ArbInspect
  <2>5. CASE DiagExecute
    <3>1. /\ tab = "Diagnostics" /\ pc = "key" /\ decisions' = decisions
          /\ \E d \in RowAt(diagnostics, diagSelected) : entries' = Submit(d)
      BY <2>5 DEF DiagExecute, Key
    <3>2. PICK d \in RowAt(diagnostics, diagSelected) : entries' = Submit(d)
      BY <3>1
    <3>3. frame.diag = RowAt(diagnostics, diagSelected)
      BY <3>1 DEF FrameIsCurrent, DiagnosticsFrame
    <3>4. Last(entries').diag = d
      <4>1. entries \in Seq(Entry)
        BY DEF QueueInv, TypeOK
      <4> DEFINE e == [num |-> submissions + 1, diag |-> d, status |-> "Pending"]
      <4>2. entries' = Append(entries, e) /\ e.diag = d
        BY <3>2 DEF Submit
      <4> HIDE DEF e
      <4>3. Last(entries') = e
        BY <4>1, <4>2 DEF Last
      <4> QED
        BY <4>2, <4>3
    <3> QED
      BY <3>1, <3>3, <3>4
  <2>6. ASSUME NEW v \in {"Approved", "Denied"}, Decide(v) PROVE Acts
    <3>1. /\ tab = "Arbiter" /\ pc = "key" /\ submissions' = submissions
      BY <2>6 DEF Decide, Key
    <3>2. PICK i \in DOMAIN entries :
            /\ entries[i].status = "Pending"
            /\ Len(Pending(SubSeq(entries, 1, i))) = arbSelected
            /\ decisions' = Append(decisions, [num |-> entries[i].num, verdict |-> v])
      BY <2>6 DEF Decide
    <3>3. entries[i].num \in frame.entry
      <4>1. frame.entry = {e.num : e \in RowAt(Pending(entries), arbSelected)}
        BY <3>1 DEF FrameIsCurrent, ArbiterFrame
      <4>2. RowAt(Pending(entries), arbSelected) = {entries[i]}
        BY <3>2, SelectedIsDecided
      <4> QED
        BY <4>1, <4>2
    <3>4. Last(decisions').num = entries[i].num
      <4>1. decisions \in Seq(Decision)
        BY DEF QueueInv, TypeOK
      <4> DEFINE d == [num |-> entries[i].num, verdict |-> v]
      <4>2. decisions' = Append(decisions, d) /\ d.num = entries[i].num
        BY <3>2
      <4> HIDE DEF d
      <4>3. Last(decisions') = d
        BY <4>1, <4>2 DEF Last
      <4> QED
        BY <4>2, <4>3
    <3> QED
      BY <3>1, <3>3, <3>4
  <2> QED
    BY <2>2, <2>3, <2>4, <2>5, <2>6 DEF Next, KeyTurn
<1> QED
    BY <1>2, <1>3, QueueAlways, PTL DEF Spec, KeyActsOnFrame
-----------------------------------------------------------------------------
(* What the prediction engine sees and what the screen shows of it: the    *)
(* last of what there was, which Append and the dropping of the first keep.*)

LEMMA GreaterOf ==
  ASSUME NEW a \in Int, NEW b \in Int
  PROVE  Max({a, b}) = IF a >= b THEN a ELSE b
<1> DEFINE m == IF a >= b THEN a ELSE b
<1>1. m \in {a, b} /\ \A y \in {a, b} : m >= y
    OBVIOUS
<1>2. ASSUME NEW x \in {a, b}, \A y \in {a, b} : x >= y PROVE x = m
    BY <1>2
<1> QED
    BY <1>1, <1>2 DEF Max

LEMMA LengthAfter ==
  ASSUME NEW k \in Nat, NEW z \in Nat, k <= z
  PROVE  /\ (IF k + 1 <= z THEN z - (k + 1) + 1 ELSE 0) = z - k /\ z - (k + 1) + 1 = z - k
         /\ \A i \in 1 .. z - k : (k + 1) + i - 1 = k + i
OBVIOUS

\* How many of the first of len elements are more than n.
Cut(len, n) == IF len <= n THEN 0 ELSE len - n

\* LastOf leaves out as many of the first as are too many.
LEMMA LastIs ==
  ASSUME NEW S, NEW s \in Seq(S), NEW n \in Nat \ {0}
  PROVE  /\ LastOf(s, n) \in Seq(S) /\ Len(LastOf(s, n)) = Len(s) - Cut(Len(s), n)
         /\ \A i \in 1 .. Len(s) - Cut(Len(s), n) : LastOf(s, n)[i] = s[Cut(Len(s), n) + i]
<1> DEFINE z == Len(s)
           k == Cut(z, n)
           a == k + 1
           c == SubSeq(s, a, z)
<1>1. z \in Nat /\ \A i \in 1 .. z : s[i] \in S
    OBVIOUS
<1>2. k \in Nat /\ k <= z
    BY <1>1 DEF Cut
<1>3. LastOf(s, n) = c
  <2>1. Max({1, z - n + 1}) = a
    BY <1>1, GreaterOf DEF Cut
  <2> QED
    BY <2>1 DEF LastOf
<1> HIDE DEF z, k, c
<1>4. (IF a <= z THEN z - a + 1 ELSE 0) = z - k /\ z - a + 1 = z - k
    BY <1>1, <1>2, LengthAfter
<1>5. \A i \in 1 .. z - k : a + i - 1 = k + i
    BY <1>1, <1>2, LengthAfter
<1>6. a \in Int /\ z \in Int /\ a \in Nat /\ 1 <= a
    BY <1>1, <1>2
<1> HIDE DEF a
<1>7. \A i \in a .. z : s[i] \in S
    BY <1>1, <1>6
<1>8. /\ c \in Seq(S)
      /\ Len(c) = IF a <= z THEN z - a + 1 ELSE 0
      /\ \A i \in 1 .. z - a + 1 : c[i] = s[a + i - 1]
    BY <1>6, <1>7, SubSeqProperties DEF c
<1>9. Len(c) = z - k
    BY <1>4, <1>8
<1>10. ASSUME NEW i \in 1 .. z - k PROVE c[i] = s[k + i]
  <2>1. c[i] = s[a + i - 1]
    BY <1>4, <1>8
  <2> QED
    BY <1>5, <2>1
<1> QED
    BY <1>3, <1>8, <1>9, <1>10 DEF z, k

LEMMA LastOfShort ==
  ASSUME NEW S, NEW s \in Seq(S), NEW n \in Nat \ {0}, Len(s) <= n
  PROVE  LastOf(s, n) = s
<1> DEFINE l == LastOf(s, n)
           z == Len(s)
<1>1. z \in Nat /\ Cut(z, n) = 0
    BY DEF Cut
<1>2. /\ l \in Seq(S) /\ Len(l) = z - Cut(z, n)
      /\ \A i \in 1 .. z - Cut(z, n) : l[i] = s[Cut(z, n) + i]
    BY LastIs
<1> HIDE DEF l
<1>3. Len(l) = z
    BY <1>1, <1>2
<1>4. ASSUME NEW i \in 1 .. z PROVE l[i] = s[i]
  <2>1. l[i] = s[0 + i]
    BY <1>1, <1>2
  <2> QED
    BY <2>1
<1> QED
    BY <1>2, <1>3, <1>4, SeqEqual DEF l

\* The first is dropped from what is full: what Append and LastOf leave does not
\* depend on what LastOf had left out before.
LEMMA LastOfMore ==
  ASSUME NEW S, NEW s \in Seq(S), NEW x \in S, NEW n \in Nat \ {0}
  PROVE  /\ LastOf(Append(s, x), n) =
              Append(IF Len(LastOf(s, n)) = n THEN Tail(LastOf(s, n)) ELSE LastOf(s, n), x)
         /\ LastOf(Append(LastOf(s, n), x), n) = LastOf(Append(s, x), n)
<1> DEFINE k == Cut(Len(s), n)
           l == LastOf(s, n)
           t == Append(s, x)
           j == Cut(Len(t), n)
           r == LastOf(t, n)
           cut == IF Len(l) = n THEN Tail(l) ELSE l
           pushed == Append(cut, x)
           u == Append(l, x)
           h == Cut(Len(u), n)
           v == LastOf(u, n)
<1>1. /\ t \in Seq(S) /\ Len(t) = Len(s) + 1
      /\ \A i \in 1 .. Len(s) : t[i] = s[i]
      /\ t[Len(s) + 1] = x
    BY AppendProperties
<1>2. Len(s) \in Nat /\ k \in Nat
    BY DEF Cut
<1> HIDE DEF t
<1>3. j \in Nat
    BY <1>1, <1>2 DEF Cut
<1>4. l \in Seq(S) /\ Len(l) = Len(s) - k /\ \A i \in 1 .. Len(s) - k : l[i] = s[k + i]
    BY LastIs
<1>5. r \in Seq(S) /\ Len(r) = Len(t) - j /\ \A i \in 1 .. Len(t) - j : r[i] = t[j + i]
  <2>1. t \in Seq(S) /\ n \in Nat \ {0}
    BY <1>1
  <2> QED
    BY ONLY <2>1, LastIs
<1> HIDE DEF l, k, j
<1>6. /\ u \in Seq(S) /\ Len(u) = Len(l) + 1
      /\ \A i \in 1 .. Len(l) : u[i] = l[i]
      /\ u[Len(l) + 1] = x
    BY <1>4, AppendProperties
<1> HIDE DEF u
<1>7. h \in Nat
    BY <1>6 DEF Cut
<1>8. v \in Seq(S) /\ Len(v) = Len(u) - h /\ \A i \in 1 .. Len(u) - h : v[i] = u[h + i]
  <2>1. u \in Seq(S) /\ n \in Nat \ {0}
    BY <1>6
  <2> QED
    BY ONLY <2>1, LastIs
<1> HIDE DEF h, r, v
<1>9. /\ Len(l) = n => Len(l) # 0 /\ h = 1
      /\ Len(l) # n => h = 0
      /\ Len(t) - j = Len(u) - h /\ Len(u) - h = (Len(l) - h) + 1 /\ Len(l) - h \in Nat
      /\ \A i \in 1 .. Len(u) - h :
           \/ /\ i \in 1 .. Len(l) - h /\ h + i \in 1 .. Len(l)
              /\ j + i = k + (h + i) /\ j + i \in 1 .. Len(s)
           \/ i = (Len(l) - h) + 1 /\ h + i = Len(l) + 1 /\ j + i = Len(s) + 1
  <2>1. Len(t) = Len(s) + 1 /\ Len(l) = Len(s) - k /\ Len(u) = (Len(s) - k) + 1
    BY <1>1, <1>4, <1>6, Zenon
  <2> DEFINE z == Len(s)
  <2>2. z \in Nat /\ k \in Nat /\ j \in Nat /\ h \in Nat
    BY <1>2, <1>3, <1>7, Zenon
  <2>3. k = Cut(z, n) /\ j = Cut(z + 1, n) /\ h = Cut((z - k) + 1, n)
    BY <2>1 DEF k, j, h
  <2> HIDE DEF z
  <2>4. /\ z - k = n => z - k # 0 /\ h = 1
        /\ z - k # n => h = 0
        /\ (z + 1) - j = ((z - k) + 1) - h /\ ((z - k) + 1) - h = ((z - k) - h) + 1
        /\ (z - k) - h \in Nat
        /\ \A i \in 1 .. ((z - k) + 1) - h :
             \/ /\ i \in 1 .. (z - k) - h /\ h + i \in 1 .. z - k
                /\ j + i = k + (h + i) /\ j + i \in 1 .. z
             \/ i = ((z - k) - h) + 1 /\ h + i = (z - k) + 1 /\ j + i = z + 1
    BY ONLY n \in Nat \ {0}, <2>2, <2>3 DEF Cut
  <2> QED
    BY <2>1, <2>4, Zenon DEF z
<1>10. /\ cut \in Seq(S) /\ Len(cut) = Len(l) - h
       /\ \A i \in 1 .. Len(l) - h : cut[i] = l[h + i]
  <2>1. CASE Len(l) = n
    <3>1. l # <<>> /\ h = 1 /\ cut = Tail(l)
      BY <1>9, <2>1
    <3>2. /\ Tail(l) \in Seq(S) /\ Len(Tail(l)) = Len(l) - 1
          /\ \A i \in 1 .. Len(Tail(l)) : Tail(l)[i] = l[i + 1]
      BY <1>4, <3>1, HeadTailProperties
    <3> HIDE DEF cut
    <3>3. \A i \in 1 .. Len(l) - 1 : i + 1 = h + i
      BY <3>1
    <3> QED
      BY <3>1, <3>2, <3>3
  <2>2. CASE Len(l) # n
    <3>1. h = 0 /\ cut = l
      BY <1>9, <2>2
    <3> HIDE DEF cut
    <3>2. Len(l) \in Nat
      BY <1>4, LenProperties
    <3>3. Len(l) - 0 = Len(l) /\ \A i \in 1 .. Len(l) : 0 + i = i
      BY <3>2
    <3> QED
      BY <1>4, <3>1, <3>3
  <2> QED
    BY <2>1, <2>2
<1> HIDE DEF cut
<1>11. /\ pushed \in Seq(S) /\ Len(pushed) = Len(cut) + 1
       /\ \A i \in 1 .. Len(cut) : pushed[i] = cut[i]
       /\ pushed[Len(cut) + 1] = x
    BY <1>10, AppendProperties
<1> HIDE DEF pushed
<1>12. v = pushed
  <2>1. Len(v) = Len(pushed)
    BY <1>8, <1>9, <1>10, <1>11, Zenon
  <2>2. ASSUME NEW i \in 1 .. Len(v) PROVE v[i] = pushed[i]
    <3>1. i \in 1 .. Len(u) - h /\ v[i] = u[h + i]
      BY <1>8, Zenon
    <3>2. CASE i \in 1 .. Len(l) - h /\ h + i \in 1 .. Len(l)
      <4>1. u[h + i] = l[h + i] /\ cut[i] = l[h + i] /\ i \in 1 .. Len(cut)
        BY <1>6, <1>10, <3>2, Zenon
      <4>2. pushed[i] = cut[i]
        BY <1>11, <4>1, Zenon
      <4> QED
        BY <3>1, <4>1, <4>2, Zenon
    <3>3. CASE i = (Len(l) - h) + 1 /\ h + i = Len(l) + 1
      <4>1. u[h + i] = x /\ i = Len(cut) + 1
        BY <1>6, <1>10, <3>3, Zenon
      <4> QED
        BY <1>11, <3>1, <4>1, Zenon
    <3> QED
      BY <1>9, <3>1, <3>2, <3>3, Zenon
  <2> QED
    BY <1>8, <1>11, <2>1, <2>2, SeqEqual
<1>13. v = r
  <2>1. Len(v) = Len(r)
    BY <1>5, <1>8, <1>9, Zenon
  <2>2. ASSUME NEW i \in 1 .. Len(v) PROVE v[i] = r[i]
    <3>1. i \in 1 .. Len(u) - h /\ i \in 1 .. Len(t) - j
      BY <1>8, <1>9, Zenon
    <3>2. v[i] = u[h + i] /\ r[i] = t[j + i]
      BY <1>5, <1>8, <3>1, Zenon
    <3>3. CASE /\ h + i \in 1 .. Len(l) /\ j + i = k + (h + i) /\ j + i \in 1 .. Len(s)
      BY <1>1, <1>4, <1>6, <3>2, <3>3, Zenon
    <3>4. CASE h + i = Len(l) + 1 /\ j + i = Len(s) + 1
      BY <1>1, <1>6, <3>2, <3>4, Zenon
    <3> QED
      BY <1>9, <3>1, <3>3, <3>4, Zenon
  <2> QED
    BY <1>5, <1>8, <2>1, <2>2, SeqEqual
<1> QED
    BY <1>12, <1>13 DEF l, t, r, u, v, pushed, cut
-----------------------------------------------------------------------------
(* The windows.                                                            *)

WindowInv ==
  /\ \A p \in DOMAIN trail : \E S : trail[p] \in Seq(S)
  /\ WindowIsRecentHistory

LEMMA WindowStep == WindowInv /\ [PredictNext]_predictVars => WindowInv'
<1> SUFFICES ASSUME WindowInv, [PredictNext]_predictVars PROVE WindowInv'
    OBVIOUS
<1>1. CASE Tick
  <2> DEFINE old(p) == OrEmpty(trail, p)
             fv(p) == Features[p]
  <2>1. /\ trail' = [p \in DOMAIN procs |-> Append(old(p), fv(p))]
        /\ windows' = [p \in DOMAIN procs |-> Push(OrEmpty(windows, p), fv(p))]
    <3> DEFINE ws == [p \in DOMAIN windows \cup DOMAIN procs |->
                        IF p \in DOMAIN procs THEN Push(OrEmpty(windows, p), Features[p])
                        ELSE windows[p]]
    <3>1. windows' = [p \in DOMAIN ws \cap DOMAIN procs |-> ws[p]] /\ DOMAIN ws \cap DOMAIN procs = DOMAIN procs
      BY <1>1 DEF Tick, Cleanup
    <3>2. windows' = [p \in DOMAIN procs |-> ws[p]]
      BY <3>1
    <3>3. \A p \in DOMAIN procs : ws[p] = Push(OrEmpty(windows, p), fv(p))
      OBVIOUS
    <3> QED
      BY <1>1, <3>2, <3>3 DEF Tick
  <2>2. ASSUME NEW p \in DOMAIN procs
        PROVE  /\ \E S : trail'[p] \in Seq(S)
               /\ windows'[p] = LastOf(trail'[p], WindowSize)
    <3>1. \E S : old(p) \in Seq(S)
      <4>1. CASE p \in DOMAIN trail
        BY <4>1 DEF WindowInv, OrEmpty
      <4>2. CASE p \notin DOMAIN trail
        <5>1. old(p) \in Seq({})
          BY <4>2 DEF OrEmpty
        <5> QED
          BY <5>1
      <4> QED
        BY <4>1, <4>2
    <3>2. PICK T : old(p) \in Seq(T)
      BY <3>1
    <3> DEFINE S == T \cup {fv(p)}
               s == old(p)
    <3>3. s \in Seq(S) /\ fv(p) \in S
      BY <3>2
    <3>4. WindowSize \in Nat \ {0}
      BY PredictionAssumption
    <3>5. OrEmpty(windows, p) = LastOf(s, WindowSize)
      <4>1. CASE p \in DOMAIN trail
        BY <4>1 DEF WindowInv, WindowIsRecentHistory, OrEmpty
      <4>2. CASE p \notin DOMAIN trail
        <5>1. OrEmpty(windows, p) = <<>> /\ s = <<>> /\ Len(s) <= WindowSize
          BY <3>4, <4>2 DEF WindowInv, WindowIsRecentHistory, OrEmpty
        <5> HIDE DEF s, S
        <5> QED
          BY <3>3, <3>4, <5>1, LastOfShort
      <4> QED
        BY <4>1, <4>2
    <3> HIDE DEF s, S, fv
    <3>6. Append(s, fv(p)) \in Seq(S)
      BY <3>3
    <3>7. LastOf(Append(s, fv(p)), WindowSize) = Push(OrEmpty(windows, p), fv(p))
      BY <3>3, <3>4, <3>5, LastOfMore DEF Push
    <3> QED
      BY <2>1, <3>6, <3>7 DEF s
  <2>3. DOMAIN trail' = DOMAIN procs /\ DOMAIN windows' = DOMAIN procs
    BY <2>1
  <2> QED
    BY <2>2, <2>3 DEF WindowInv, WindowIsRecentHistory
<1>2. CASE \/ SnapshotTaken \/ EmptyTick \/ Skip \/ Predict \/ Collect \/ Show
           \/ UNCHANGED predictVars
  <2>1. UNCHANGED <<trail, windows>>
    BY <1>2 DEF SnapshotTaken, EmptyTick, Skip, Predict, Collect, Show, predictVars, engine
  <2> QED
    BY <2>1 DEF WindowInv, WindowIsRecentHistory
<1> QED
    BY <1>1, <1>2 DEF PredictNext
-----------------------------------------------------------------------------
(* The way to the screen.  What was emitted is what the collector has      *)
(* taken, followed by what is in the channel.                              *)

OnTheWayFrom(taken, S) ==
  /\ taken \in Seq(S) /\ channel \in Seq(S)
  /\ emitted = taken \o channel
  /\ predictions = LastOf(taken, Cap)
  /\ \E n \in 0 .. Len(taken) : shown = LastOf(SubSeq(taken, 1, n), Cap)

ScreenInv == \E S : \E taken \in Seq(S) : OnTheWayFrom(taken, S)

LEMMA Before ==
  ASSUME NEW S, NEW s \in Seq(S), NEW t \in Seq(S)
  PROVE  /\ SubSeq(s \o t, 1, Len(s \o t) - Len(t)) = s
         /\ Len(s \o t) - Len(t) = Len(s)
         /\ \A n \in 0 .. Len(s) : SubSeq(s \o t, 1, n) = SubSeq(s, 1, n)
<1> DEFINE w == s \o t
<1>1. /\ w \in Seq(S) /\ Len(s) \in Nat /\ Len(t) \in Nat /\ Len(w) = Len(s) + Len(t)
      /\ \A i \in 1 .. Len(s) : w[i] = s[i]
    OBVIOUS
<1> HIDE DEF w
<1>2. ASSUME NEW n \in 0 .. Len(s) PROVE SubSeq(w, 1, n) = SubSeq(s, 1, n)
  <2>1. /\ SubSeq(w, 1, n) \in Seq(S) /\ Len(SubSeq(w, 1, n)) = n
        /\ \A i \in 1 .. n : SubSeq(w, 1, n)[i] = w[i]
    BY <1>1
  <2>2. /\ SubSeq(s, 1, n) \in Seq(S) /\ Len(SubSeq(s, 1, n)) = n
        /\ \A i \in 1 .. n : SubSeq(s, 1, n)[i] = s[i]
    BY <1>1
  <2>3. \A i \in 1 .. n : SubSeq(w, 1, n)[i] = SubSeq(s, 1, n)[i]
    BY <1>1, <2>1, <2>2
  <2> QED
    BY <2>1, <2>2, <2>3, SeqEqual
<1>3. SubSeq(s, 1, Len(s)) = s
  <2>1. /\ SubSeq(s, 1, Len(s)) \in Seq(S) /\ Len(SubSeq(s, 1, Len(s))) = Len(s)
        /\ \A i \in 1 .. Len(s) : SubSeq(s, 1, Len(s))[i] = s[i]
    BY <1>1
  <2> QED
    BY <2>1, SeqEqual
<1> QED
    BY <1>1, <1>2, <1>3 DEF w

LEMMA ScreenShows == ScreenInv => ShowsTheNewest
<1> SUFFICES ASSUME NEW S, NEW taken \in Seq(S), OnTheWayFrom(taken, S)
             PROVE  ShowsTheNewest
    BY DEF ScreenInv
<1>1. channel \in Seq(S) /\ emitted = taken \o channel
    BY DEF OnTheWayFrom
<1>2. /\ SubSeq(emitted, 1, Len(emitted) - Len(channel)) = taken
      /\ Len(emitted) - Len(channel) = Len(taken)
      /\ \A n \in 0 .. Len(taken) : SubSeq(emitted, 1, n) = SubSeq(taken, 1, n)
    BY <1>1, Before
<1>3. PICK n \in 0 .. Len(taken) : shown = LastOf(SubSeq(taken, 1, n), Cap)
    BY DEF OnTheWayFrom
<1> QED
    BY <1>2, <1>3 DEF OnTheWayFrom, ShowsTheNewest

LEMMA WiderSequence ==
  ASSUME NEW S, NEW T, S \subseteq T, NEW s \in Seq(S)
  PROVE  s \in Seq(T)
OBVIOUS

LEMMA TakeFirst ==
  ASSUME NEW S, NEW s \in Seq(S), NEW t \in Seq(S), t # <<>>
  PROVE  /\ s \o t = Append(s, Head(t)) \o Tail(t)
         /\ Append(s, Head(t)) \in Seq(S) /\ Tail(t) \in Seq(S) /\ Head(t) \in S
OBVIOUS

LEMMA ScreenStep == ScreenInv /\ [PredictNext]_predictVars => ScreenInv'
<1> SUFFICES ASSUME NEW S, NEW taken \in Seq(S), OnTheWayFrom(taken, S),
                    [PredictNext]_predictVars
             PROVE  ScreenInv'
    BY DEF ScreenInv
<1>1. channel \in Seq(S) /\ emitted = taken \o channel /\ predictions = LastOf(taken, Cap)
    BY DEF OnTheWayFrom
<1>2. PICK n \in 0 .. Len(taken) : shown = LastOf(SubSeq(taken, 1, n), Cap)
    BY DEF OnTheWayFrom
<1>3. CASE Predict
  <2>1. PICK anomaly : channel' = Append(channel, anomaly) /\ emitted' = Append(emitted, anomaly)
    BY <1>3 DEF Predict
  <2> DEFINE T == S \cup {anomaly}
  <2>2. taken \in Seq(T) /\ channel \in Seq(T) /\ anomaly \in T
    BY <1>1, WiderSequence
  <2> HIDE DEF T
  <2>3. Append(taken \o channel, anomaly) = taken \o Append(channel, anomaly)
        /\ Append(channel, anomaly) \in Seq(T)
    <3>1. Append(channel, anomaly) \in Seq(T)
      BY <2>2, AppendProperties
    <3>2. Append(taken \o channel, anomaly) = taken \o Append(channel, anomaly)
      <4>1. taken \o channel \in Seq(T) /\ <<anomaly>> \in Seq(T)
        BY <2>2
      <4>2. Append(taken \o channel, anomaly) = (taken \o channel) \o <<anomaly>>
        BY <2>2, <4>1, AppendIsConcat
      <4>3. Append(channel, anomaly) = channel \o <<anomaly>>
        BY <2>2, AppendIsConcat
      <4> QED
        BY <2>2, <4>1, <4>2, <4>3, ConcatAssociative, SMTT(30)
    <3> QED
      BY <3>1, <3>2
  <2>4. predictions' = predictions /\ shown' = shown
    BY <1>3 DEF Predict
  <2> QED
    BY <1>1, <1>2, <2>1, <2>2, <2>3, <2>4, Zenon DEF ScreenInv, OnTheWayFrom
<1>4. CASE Collect
  <2> DEFINE t == Append(taken, Head(channel))
  <2>1. /\ channel # <<>> /\ channel' = Tail(channel) /\ emitted' = emitted /\ shown' = shown
        /\ predictions' = LastOf(Append(predictions, Head(channel)), Cap)
    BY <1>4 DEF Collect, KeepLatest
  <2>2. /\ emitted' = t \o channel' /\ t \in Seq(S) /\ channel' \in Seq(S) /\ Head(channel) \in S
    BY <1>1, <2>1, TakeFirst, SMTT(30)
  <2>3. predictions' = LastOf(t, Cap)
    BY <1>1, <2>1, <2>2, LastOfMore, PredictionAssumption
  <2>4. /\ n \in 0 .. Len(t) /\ SubSeq(t, 1, n) = SubSeq(taken, 1, n)
    <3>1. t = taken \o <<Head(channel)>> /\ <<Head(channel)>> \in Seq(S)
      BY <2>2
    <3>2. Len(t) = Len(taken) + 1 /\ Len(taken) \in Nat
      OBVIOUS
    <3> QED
      BY <3>1, <3>2, Before
  <2> HIDE DEF t
  <2> QED
    BY <1>2, <2>1, <2>2, <2>3, <2>4 DEF ScreenInv, OnTheWayFrom
<1>5. CASE Show
  <2>1. shown' = predictions /\ UNCHANGED <<channel, predictions, emitted>>
    BY <1>5 DEF Show
  <2>2. Len(taken) \in 0 .. Len(taken) /\ SubSeq(taken, 1, Len(taken)) = taken
    <3>1. Len(taken) \in Nat
      OBVIOUS
    <3>2. <<>> \in Seq(S) /\ taken \o <<>> = taken
      OBVIOUS
    <3>3. SubSeq(taken, 1, Len(taken)) = taken
      <4>1. Len(<<>>) = 0 /\ Len(taken) - 0 = Len(taken)
        BY <3>1
      <4> QED
        BY <3>2, <4>1, Before
    <3> QED
      BY <3>1, <3>3
  <2> QED
    BY <1>1, <2>1, <2>2 DEF ScreenInv, OnTheWayFrom
<1>6. CASE \/ SnapshotTaken \/ EmptyTick \/ Tick \/ Skip \/ UNCHANGED predictVars
  <2>1. UNCHANGED <<channel, predictions, shown, emitted>>
    BY <1>6 DEF SnapshotTaken, EmptyTick, Tick, Skip, predictVars
  <2> QED
    BY <1>1, <1>2, <2>1 DEF ScreenInv, OnTheWayFrom
<1> QED
    BY <1>3, <1>4, <1>5, <1>6 DEF PredictNext

LEMMA InitPredictions == PredictInit => WindowInv /\ ScreenInv
<1> SUFFICES ASSUME PredictInit PROVE WindowInv /\ ScreenInv
    OBVIOUS
<1>1. WindowInv
  <2>1. DOMAIN trail = {} /\ DOMAIN windows = {}
    BY DEF PredictInit
  <2> QED
    BY <2>1 DEF WindowInv, WindowIsRecentHistory
<1>2. ScreenInv
  <2> DEFINE nothing == <<>>
  <2>1. /\ channel = nothing /\ emitted = nothing /\ predictions = nothing /\ shown = nothing
    BY DEF PredictInit
  <2>2. /\ nothing \in Seq({}) /\ Len(nothing) = 0 /\ nothing \o nothing = nothing
        /\ SubSeq(nothing, 1, 0) = nothing
    OBVIOUS
  <2> HIDE DEF nothing
  <2>3. Cap \in Nat \ {0}
    BY PredictionAssumption
  <2>4. Len(nothing) <= Cap /\ 0 \in 0 .. Len(nothing)
    BY <2>2, <2>3
  <2>5. LastOf(nothing, Cap) = nothing
    BY <2>2, <2>3, <2>4, LastOfShort, Zenon
  <2> QED
    BY <2>1, <2>2, <2>4, <2>5, Zenon DEF ScreenInv, OnTheWayFrom
<1> QED
    BY <1>1, <1>2

\* For windows, a channel and a list of any size, any number of processes and a
\* model that says anything: it sees the last samples of a process since its pid
\* came and none of another, and the screen shows the last predictions in their
\* order without a gap, but for what is still on the way.
THEOREM PredictionsStayRecent == PredictSpec => []PredictionsAreRecent
<1>1. WindowInv /\ ScreenInv => PredictionsAreRecent
    BY ScreenShows DEF WindowInv, PredictionsAreRecent
<1>2. WindowInv /\ ScreenInv /\ [PredictNext]_predictVars => WindowInv' /\ ScreenInv'
    BY WindowStep, ScreenStep
<1> QED
    BY <1>1, <1>2, InitPredictions, PTL DEF PredictSpec
-----------------------------------------------------------------------------
(* The browsing tabs.  One thing at most waits for the next key, and       *)
(* between a frame and a key nothing but the world changes.                *)

OneWaits ==
  /\ help \in BOOLEAN /\ sortPending \in BOOLEAN
  /\ ~(help /\ sortPending)
  /\ help \/ sortPending => mode = "Normal"

ViewFields ==
  /\ DOMAIN view3d = {"order", "selected", "index"}
  /\ DOMAIN overview = {"row", "column", "ascending", "detail"}

PanelIsSelected ==
  turn = "key" /\ currentTab = "World3D" /\ view3d.selected # NoPid => panel = view3d.selected

ViewsInv == OneWaits /\ ViewFields /\ PanelIsSelected

ViewStep == ViewsInv' /\ EditsTextOnly /\ OpensWhatIsDrawn

LEMMA InitViews == ViewsInit => ViewsInv
<1> SUFFICES ASSUME ViewsInit PROVE ViewsInv
    OBVIOUS
<1>1. /\ help = FALSE /\ sortPending = FALSE /\ turn = "draw"
      /\ view3d = [order |-> <<>>, selected |-> NoPid, index |-> 0]
      /\ overview = [row |-> 0, column |-> "Cpu", ascending |-> FALSE, detail |-> NoPid]
    BY DEF ViewsInit
<1> QED
    BY <1>1 DEF ViewsInv, OneWaits, ViewFields, PanelIsSelected

\* A frame of the 3D view shows the selected process, which it has just looked for
\* among those in view.
LEMMA DrawViewKeeps == ViewsInv /\ DrawView => ViewStep
<1> SUFFICES ASSUME ViewsInv, DrawView PROVE ViewStep
    OBVIOUS
<1>1. /\ turn = "draw" /\ turn' = "key" /\ currentTab' = currentTab
      /\ UNCHANGED <<world, mode, help, sortPending, overview>>
    BY DEF DrawView, input
<1>2. CASE DrawOverview \/ DrawOther
  <2>1. currentTab # "World3D" /\ view3d' = view3d
    BY <1>2 DEF DrawOverview, DrawOther
  <2> QED
    BY <1>1, <2>1
       DEF ViewsInv, OneWaits, ViewFields, PanelIsSelected, ViewStep, EditsTextOnly, OpensWhatIsDrawn
<1>3. CASE Draw3D
  <2>1. PICK order \in InView :
          view3d' = IF view3d.selected = NoPid THEN [view3d EXCEPT !.order = order]
                    ELSE DropSelection([view3d EXCEPT !.order = order])
    BY <1>3 DEF Draw3D
  <2>2. panel' = IF view3d'.selected \in ToSet(world) THEN view3d'.selected ELSE NoPid
    BY <1>3 DEF Draw3D, InfoPanel
  <2>3. ToSet(order) \subseteq ToSet(world)
    BY <2>1 DEF InView
  <2> DEFINE v == [view3d EXCEPT !.order = order]
             dropped == [v EXCEPT !.selected = NoPid, !.index = 0]
  <2>4. DOMAIN v = {"order", "selected", "index"} /\ v.selected = view3d.selected /\ v.order = order
    BY DEF ViewsInv, ViewFields
  <2> HIDE DEF v
  <2>5. DOMAIN dropped = {"order", "selected", "index"} /\ dropped.selected = NoPid
    BY <2>4
  <2> HIDE DEF dropped
  <2>6. view3d' \in {v, dropped} /\ (view3d'.selected # NoPid => view3d'.selected \in ToSet(world))
    <3>1. CASE view3d.selected = NoPid
      BY <2>1, <2>4, <3>1 DEF v
    <3>2. CASE view3d.selected # NoPid
      <4>1. view3d' = IF v.selected \in ToSet(v.order) THEN v ELSE dropped
        BY <2>1, <3>2 DEF v, dropped, DropSelection
      <4> QED
        BY <2>3, <2>4, <2>5, <4>1
    <3> QED
      BY <3>1, <3>2
  <2>7. ViewFields' /\ PanelIsSelected'
    BY <1>1, <2>2, <2>4, <2>5, <2>6 DEF ViewsInv, ViewFields, PanelIsSelected
  <2> QED
    BY <1>1, <2>7 DEF ViewsInv, OneWaits, ViewStep, EditsTextOnly, OpensWhatIsDrawn
<1> QED
    BY <1>2, <1>3 DEF DrawView

\* What the tabs keep of their selection stays a record.
LEMMA SelectsFields == ASSUME NEW k, ViewFields, World3DSelects(k) PROVE DOMAIN view3d' = DOMAIN view3d
BY DEF World3DSelects

\* A key that closes the help, chooses a column or goes to a tab: no text is open.
LEMMA InterceptedKeeps ==
  ASSUME ViewsInv, NEW k \in Keys,
         HelpKey(k) \/ SortChoice(k) \/ World3DKey(k) \/ World3DInspect(k) \/ RulesKey(k)
  PROVE  ViewStep
<1>1. turn = "key" /\ turn' = "draw" /\ mode = "Normal" /\ mode' = "Normal"
    BY DEF HelpKey, SortChoice, SortTakes, World3DKey, World3DInspect, RulesKey, TabTakes, Press,
           Passes, Continue, input, ViewsInv, OneWaits
<1>2. OneWaits'
    BY <1>1 DEF HelpKey, SortChoice, World3DKey, World3DInspect, RulesKey, Passes, Press,
                ViewsInv, OneWaits
<1>3. ViewFields'
  <2>1. CASE HelpKey(k) \/ RulesKey(k)
    BY <2>1 DEF HelpKey, RulesKey, tabs, ViewsInv, ViewFields
  <2>2. CASE SortChoice(k)
    BY <2>2 DEF SortChoice, ViewsInv, ViewFields
  <2>3. CASE World3DKey(k)
    BY <2>3, SelectsFields DEF World3DKey, ViewsInv, ViewFields
  <2>4. CASE World3DInspect(k)
    BY <2>4 DEF World3DInspect, ViewsInv, ViewFields
  <2> QED
    BY <2>1, <2>2, <2>3, <2>4
<1>4. PanelIsSelected'
    BY <1>1 DEF PanelIsSelected
<1>5. EditsTextOnly
    BY <1>1, <1>2 DEF EditsTextOnly, OneWaits
<1>6. OpensWhatIsDrawn
  <2>1. CASE World3DInspect(k)
    <3>1. /\ currentTab = "World3D" /\ view3d.selected # NoPid
          /\ overview' = [overview EXCEPT !.detail = view3d.selected]
      BY <2>1 DEF World3DInspect, TabTakes
    <3>2. overview'.detail = view3d.selected
      BY <3>1 DEF ViewsInv, ViewFields
    <3> QED
      BY <1>1, <3>1, <3>2 DEF ViewsInv, PanelIsSelected, OpensWhatIsDrawn
  <2>2. CASE HelpKey(k) \/ SortChoice(k) \/ World3DKey(k) \/ RulesKey(k)
    BY <2>2 DEF HelpKey, SortChoice, World3DKey, RulesKey, OpensWhatIsDrawn
  <2> QED
    BY <2>1, <2>2
<1> QED
    BY <1>2, <1>3, <1>4, <1>5, <1>6 DEF ViewsInv, ViewStep

\* A key that opens a mode, or moves in a list.
LEMMA NormalKeyKeeps ==
  ASSUME ViewsInv, NEW k \in Keys, NormalKey(k)
  PROVE  ViewStep
<1>1. turn = "key" /\ turn' # "key" /\ mode = "Normal"
    BY DEF NormalKey, Handled, Passes, Press, Quit, Continue
<1>2. OneWaits'
  <2>1. help' = (k = "?") /\ sortPending' = (k = "s" /\ currentTab = "Overview")
    BY DEF NormalKey
  <2>2. k = "?" \/ k = "s" => mode' = "Normal"
    BY DEF NormalKey
  <2>3. help' \in BOOLEAN /\ sortPending' \in BOOLEAN
    BY <2>1
  <2>4. (help' => k = "?") /\ (sortPending' => k = "s")
    BY <2>1
  <2> QED
    BY <2>2, <2>3, <2>4 DEF OneWaits
<1>3. ViewFields'
    BY DEF NormalKey, ViewsInv, ViewFields
<1>4. OpensWhatIsDrawn
    BY DEF NormalKey, OpensWhatIsDrawn
<1> QED
    BY <1>1, <1>2, <1>3, <1>4 DEF ViewsInv, OneWaits, PanelIsSelected, ViewStep, EditsTextOnly

\* A key that edits a text, or closes it.
LEMMA TextKeeps ==
  ASSUME ViewsInv, NEW k \in Keys,
         TypeKey(k) \/ CancelKey(k) \/ EraseKey(k) \/ EnterKey(k)
  PROVE  ViewStep
<1>1. /\ turn = "key" /\ turn' # "key" /\ mode # "Normal" /\ sortPending' = FALSE
      /\ UNCHANGED <<currentTab, help, overview, view3d>>
    BY DEF TypeKey, CancelKey, EraseKey, EnterKey, InText, Handled, Passes, Press, Quit, Continue,
           tabs
<1>2. mode' # mode \/ UNCHANGED tabs
    BY <1>1 DEF TypeKey, CancelKey, EraseKey, EnterKey
<1> QED
    BY <1>1, <1>2 DEF ViewsInv, OneWaits, ViewFields, PanelIsSelected, ViewStep, EditsTextOnly,
                      OpensWhatIsDrawn

LEMMA ViewsStep == ViewsInv /\ [ViewsNext]_viewVars => ViewStep
<1> SUFFICES ASSUME ViewsInv, [ViewsNext]_viewVars PROVE ViewStep
    OBVIOUS
<1>1. CASE WorldChanges \/ StartupFrame \/ UNCHANGED viewVars
  <2>1. UNCHANGED <<currentTab, turn, mode, help, sortPending, tabs, panel>>
    BY <1>1 DEF WorldChanges, StartupFrame, viewVars, input
  <2> QED
    BY <2>1 DEF tabs, ViewsInv, OneWaits, ViewFields, PanelIsSelected, ViewStep, EditsTextOnly,
                OpensWhatIsDrawn
<1>2. CASE NoKeyPress
  <2>1. turn' = "draw" /\ UNCHANGED <<currentTab, mode, help, sortPending, tabs>>
    BY <1>2 DEF NoKeyPress, Continue, input
  <2> QED
    BY <2>1 DEF tabs, ViewsInv, OneWaits, ViewFields, PanelIsSelected, ViewStep, EditsTextOnly,
                OpensWhatIsDrawn
<1>3. ASSUME NEW k \in Keys,
             HelpKey(k) \/ SortChoice(k) \/ World3DKey(k) \/ World3DInspect(k) \/ RulesKey(k)
      PROVE  ViewStep
    BY <1>3, InterceptedKeeps
<1>4. ASSUME NEW k \in Keys, NormalKey(k) PROVE ViewStep
    BY <1>4, NormalKeyKeeps
<1>5. ASSUME NEW k \in Keys, TypeKey(k) \/ CancelKey(k) \/ EraseKey(k) \/ EnterKey(k)
      PROVE  ViewStep
    BY <1>5, TextKeeps
<1> QED
    BY <1>1, <1>2, <1>3, <1>4, <1>5, DrawViewKeeps DEF ViewsNext, KeyPress

LEMMA ViewsAlways == ViewsSpec => [](ViewsInv) /\ [][EditsTextOnly /\ OpensWhatIsDrawn]_viewVars
<1>1. ViewsInv /\ [ViewsNext]_viewVars => ViewsInv' /\ [EditsTextOnly /\ OpensWhatIsDrawn]_viewVars
    BY ViewsStep DEF ViewStep
<1> QED
    BY <1>1, InitViews, PTL DEF ViewsSpec

\* Whatever the keys, the tabs and the processes: while a text is typed a key edits
\* it and nothing else, and only one thing waits for the next key (App::handle_key).
THEOREM TextIsOnlyEdited == ViewsSpec => TextStaysText
<1>1. [EditsTextOnly /\ OpensWhatIsDrawn]_viewVars => [EditsTextOnly]_viewVars
    OBVIOUS
<1> QED
    BY <1>1, ViewsAlways, PTL DEF TextStaysText

\* 'i' in the 3D view opens the process that the last frame showed as selected,
\* however many processes come, go and move in between.
THEOREM WhatIsDrawnIsInspected == ViewsSpec => InspectsWhatIsDrawn
<1>1. [EditsTextOnly /\ OpensWhatIsDrawn]_viewVars => [OpensWhatIsDrawn]_viewVars
    OBVIOUS
<1> QED
    BY <1>1, ViewsAlways, PTL DEF InspectsWhatIsDrawn

-----------------------------------------------------------------------------
(* Loops: induction up to a number, with a set for the predicate, and that *)
(* what a loop computes exists.                                            *)

LEMMA UpTo ==
  ASSUME NEW N \in Nat, NEW S, 0 \in S,
         \A n \in Nat : n < N /\ n \in S => n + 1 \in S
  PROVE  0 .. N \subseteq S
<1> SUFFICES ASSUME 0 .. N \ S # {} PROVE FALSE
    OBVIOUS
<1> DEFINE R == OpToRel(<, Nat)
<1>2. IsWellFoundedOn(R, Nat)
    BY NatLessThanWellFounded
<1> HIDE DEF R
<1>3. PICK x \in 0 .. N \ S : \A y \in 0 .. N \ S : ~ (<<y, x>> \in R)
  <2>1. 0 .. N \ S \subseteq Nat
    OBVIOUS
  <2> QED
    BY <1>2, <2>1, WFMin
<1>4. x # 0 /\ x - 1 \in Nat /\ x - 1 < N /\ x - 1 \in 0 .. N
    OBVIOUS
<1>5. <<x - 1, x>> \in R
    BY <1>4 DEF R, OpToRel
<1>6. x - 1 \in S
    BY <1>3, <1>4, <1>5
<1>7. x - 1 + 1 \in S
    BY <1>4, <1>6
<1> QED
    BY <1>3, <1>7

\* m holds what a loop of N rounds has computed before and after each round.
Loop(m, start, Step, N) ==
  /\ m[0] = start
  /\ \A k \in 1 .. N : m[k] = Step[<<m[k - 1], k>>]

LEMMA LoopExists ==
  ASSUME NEW Q, NEW start \in Q, NEW N \in Nat, NEW Step \in [Q \X (1 .. N) -> Q]
  PROVE  \E m \in [0 .. N -> Q] : Loop(m, start, Step, N)
<1> DEFINE S == {n \in Nat : n <= N => \E m \in [0 .. n -> Q] : Loop(m, start, Step, n)}
<1>1. 0 \in S
  <2> DEFINE m == [k \in 0 .. 0 |-> start]
  <2>1. m \in [0 .. 0 -> Q] /\ Loop(m, start, Step, 0)
    BY DEF Loop
  <2> QED
    BY <2>1
<1>2. ASSUME NEW n \in Nat, n < N, n \in S PROVE n + 1 \in S
  <2>1. PICK m \in [0 .. n -> Q] : Loop(m, start, Step, n)
    BY <1>2
  <2> DEFINE next == Step[<<m[n], n + 1>>]
             l == [k \in 0 .. n + 1 |-> IF k = n + 1 THEN next ELSE m[k]]
  <2>2. next \in Q
    BY <1>2, <2>1
  <2>3. l \in [0 .. n + 1 -> Q]
    BY <2>1, <2>2
  <2>4. l[0] = start /\ l[n] = m[n] /\ l[n + 1] = next /\ \A k \in 0 .. n : l[k] = m[k]
    BY <2>1 DEF Loop
  <2>5. next = Step[<<m[n], n + 1>>]
    OBVIOUS
  <2> HIDE DEF l, next
  <2>6. ASSUME NEW k \in 1 .. n + 1 PROVE l[k] = Step[<<l[k - 1], k>>]
    <3>1. CASE k = n + 1
      <4>1. k - 1 = n
        BY <3>1
      <4> QED
        BY <2>4, <2>5, <3>1, <4>1
    <3>2. CASE k \in 1 .. n
      <4>1. k - 1 \in 0 .. n /\ k \in 0 .. n
        BY <3>2
      <4> QED
        BY <2>1, <2>4, <3>2, <4>1 DEF Loop
    <3> QED
      BY <3>1, <3>2
  <2>7. Loop(l, start, Step, n + 1)
    BY <2>4, <2>6 DEF Loop
  <2> QED
    BY <2>3, <2>7
<1> HIDE DEF S
<1>3. 0 .. N \subseteq S
    BY <1>1, <1>2, UpTo
<1> QED
    BY <1>3 DEF S
-----------------------------------------------------------------------------

Flattens(m, seqs) == m = [i \in 1 .. Len(seqs) |-> IF i = 1 THEN seqs[i] ELSE m[i - 1] \o seqs[i]]

LEMMA FlattenSeqType ==
  ASSUME NEW S, NEW seqs \in Seq(Seq(S))
  PROVE  FlattenSeq(seqs) \in Seq(S)
<1> DEFINE n == Len(seqs)
<1>1. n \in Nat /\ \A k \in 1 .. n : seqs[k] \in Seq(S)
    OBVIOUS
<1>2. CASE n = 0
  <2>1. FlattenSeq(seqs) = seqs
    BY <1>2 DEF FlattenSeq
  <2>2. seqs = <<>>
    BY <1>2
  <2> QED
    BY <2>1, <2>2
<1>3. CASE n # 0
  <2> DEFINE N == n - 1
             Q == Seq(S)
             Step == [qk \in Q \X (1 .. N) |-> qk[1] \o seqs[qk[2] + 1]]
  <2>1. N \in Nat /\ \A k \in 1 .. N : k + 1 \in 1 .. n
    BY <1>1, <1>3
  <2>2. \A q \in Q, k \in 1 .. N : q \o seqs[k + 1] \in Q
    BY <1>1, <2>1
  <2>3. Step \in [Q \X (1 .. N) -> Q]
    BY <2>2
  <2>4. \A q \in Q, k \in 1 .. N : Step[<<q, k>>] = q \o seqs[k + 1]
    OBVIOUS
  <2>5. 1 \in 1 .. n /\ seqs[1] \in Q
    BY <1>1, <1>3
  <2> HIDE DEF Step, Q, N
  <2>6. PICK l \in [0 .. N -> Q] : Loop(l, seqs[1], Step, N)
    BY <2>1, <2>3, <2>5, LoopExists
  <2> DEFINE m0 == [i \in 1 .. n |-> l[i - 1]]
  <2>7. ASSUME NEW i \in 1 .. n PROVE m0[i] = IF i = 1 THEN seqs[i] ELSE m0[i - 1] \o seqs[i]
    <3>1. CASE i = 1
      BY <2>6, <3>1 DEF Loop
    <3>2. CASE i # 1
      <4>1. i - 1 \in 1 .. N /\ i - 1 \in 1 .. n /\ i - 1 - 1 \in 0 .. N /\ i - 1 + 1 = i
        BY <1>1, <3>2 DEF N
      <4>2. m0[i] = l[i - 1] /\ m0[i - 1] = l[i - 1 - 1]
        BY <4>1
      <4>3. l[i - 1] = Step[<<l[i - 1 - 1], i - 1>>]
        BY <2>6, <4>1 DEF Loop
      <4>4. l[i - 1 - 1] \in Q
        BY <2>6, <4>1
      <4>5. l[i - 1] = l[i - 1 - 1] \o seqs[i]
        BY <2>4, <4>1, <4>3, <4>4
      <4> QED
        BY <3>2, <4>2, <4>5
    <3> QED
      BY <3>1, <3>2
  <2>8. Flattens(m0, seqs)
    BY <2>7 DEF Flattens
  <2> HIDE DEF m0
  <2>9. FlattenSeq(seqs) = (CHOOSE m : Flattens(m, seqs))[n]
    BY <1>3 DEF FlattenSeq, Flattens
  <2>10. PICK m : Flattens(m, seqs) /\ FlattenSeq(seqs) = m[n]
    BY <2>8, <2>9
  <2>11. \A i \in 1 .. n : m[i] = IF i = 1 THEN seqs[i] ELSE m[i - 1] \o seqs[i]
    <3>1. m = [i \in 1 .. n |-> IF i = 1 THEN seqs[i] ELSE m[i - 1] \o seqs[i]]
      BY <2>10 DEF Flattens
    <3> HIDE DEF n
    <3> QED
      BY <3>1, Zenon
  <2> DEFINE P == {k \in Nat : k <= N => m[k + 1] \in Q}
  <2>12. 0 \in P
    BY <2>5, <2>11
  <2>13. ASSUME NEW k \in Nat, k < N, k \in P PROVE k + 1 \in P
    <3>1. m[k + 1] \in Q /\ k + 1 + 1 \in 1 .. n /\ k + 1 + 1 # 1 /\ k + 1 + 1 - 1 = k + 1 /\ k + 1 \in 1 .. N
         /\ k + 1 \in Nat
      BY <1>1, <2>1, <2>13 DEF N
    <3>2. m[k + 1 + 1] = m[k + 1] \o seqs[k + 1 + 1]
      <4> DEFINE i == k + 1 + 1
      <4>1. i \in 1 .. n /\ i # 1 /\ i - 1 = k + 1
        BY <3>1
      <4> HIDE DEF i
      <4>2. m[i] = m[i - 1] \o seqs[i]
        BY <2>11, <4>1, Zenon
      <4> QED
        BY <4>1, <4>2 DEF i
    <3>3. m[k + 1] \o seqs[k + 1 + 1] \in Q
      BY <2>2, <3>1
    <3> QED
      BY <3>1, <3>2, <3>3
  <2> HIDE DEF P
  <2>14. 0 .. N \subseteq P
    BY <2>1, <2>12, <2>13, UpTo
  <2>15. N \in P /\ N + 1 = n
    <3>1. N \in 0 .. N /\ N + 1 = n
      BY <1>1, <2>1 DEF N
    <3> HIDE DEF N
    <3> QED
      BY <2>14, <3>1
  <2>16. m[n] \in Q
    BY <2>1, <2>15 DEF P
  <2> QED
    BY <2>10, <2>16 DEF Q
<1> QED
    BY <1>2, <1>3
-----------------------------------------------------------------------------
(* A finite set in some order.                                             *)

LEMMA OrderOf ==
  ASSUME NEW S, IsFiniteSet(S)
  PROVE  SetToSeq(S) \in Seq(S) /\ (S # {} => Len(SetToSeq(S)) \in Nat \ {0})
<1> DEFINE n == Cardinality(S)
<1>1. n \in Nat /\ ExistsBijection(1 .. n, S)
  BY FS_CardinalityType
<1>2. PICK f \in [1 .. n -> S] : IsInjective(f)
  <2>1. PICK f \in Bijection(1 .. n, S) : TRUE
    BY <1>1 DEF ExistsBijection
  <2>2. f \in [1 .. n -> S] /\ \A a, b \in 1 .. n : f[a] = f[b] => a = b
    BY <2>1 DEF Bijection, Injection, IsInjective
  <2>3. IsInjective(f)
    BY <2>2 DEF IsInjective
  <2> QED
    BY <2>2, <2>3
<1>3. SetToSeq(S) \in [1 .. n -> S]
  BY <1>2 DEF SetToSeq
<1>4. S # {} => n # 0
  BY FS_EmptySet
<1> HIDE DEF n
<1>5. SetToSeq(S) \in Seq(S) /\ Len(SetToSeq(S)) = n
  BY <1>1, <1>3
<1> QED
  BY <1>1, <1>4, <1>5

LEMMA OrdersOf ==
  ASSUME NEW S, IsFiniteSet(S), NEW q \in SetToSeqs(S)
  PROVE  q \in Seq(S) /\ {q[j] : j \in 1 .. Len(q)} = S
<1> DEFINE n == Cardinality(S)
<1>1. n \in Nat
  BY FS_CardinalityType
<1>2. q \in [1 .. n -> S] /\ \A a, b \in 1 .. n : a # b => q[a] # q[b]
  BY DEF SetToSeqs
<1>3. IsFiniteSet(1 .. n) /\ Cardinality(1 .. n) = n
  BY <1>1, FS_Interval
<1>4. q \in Injection(1 .. n, S)
  BY <1>2 DEF Injection, IsInjective
<1>5. q \in Surjection(1 .. n, S)
  BY <1>3, <1>4, FS_Injection
<1> HIDE DEF n
<1>6. Len(q) = n /\ q \in Seq(S)
  BY <1>1, <1>2
<1>7. \A x \in S : \E j \in 1 .. n : q[j] = x
  BY <1>5 DEF Surjection
<1> QED
  BY <1>2, <1>6, <1>7

-----------------------------------------------------------------------------
(* The layout: after it was brought up to date it has a place for every    *)
(* process of the graph, and for no other.                                 *)

Points == Int \X Int
ScenePids == UNION {DOMAIN g : g \in Worlds}

LEMMA GraphIs ==
  ASSUME graph \in Worlds
  PROVE  /\ IsFiniteSet(DOMAIN graph) /\ DOMAIN graph \subseteq ScenePids
         /\ \A p \in DOMAIN graph : /\ IsFiniteSet(DOMAIN graph[p].to)
                                    /\ \A q \in DOMAIN graph[p].to : graph[p].to[q] \in Nat
<1>1. \A p \in DOMAIN graph :
        IsFiniteSet(DOMAIN graph[p].to) /\ graph[p].to \in [DOMAIN graph[p].to -> Nat]
  BY SceneAssumption DEF SceneAssumption
<1>2. ASSUME NEW p \in DOMAIN graph, NEW q \in DOMAIN graph[p].to
      PROVE  graph[p].to[q] \in Nat
  BY <1>1
<1>3. IsFiniteSet(DOMAIN graph)
  BY SceneAssumption DEF SceneAssumption
<1> QED
  BY <1>1, <1>2, <1>3 DEF ScenePids

LEMMA PlaceNextType ==
  ASSUME NEW D, NEW places \in [D -> Points], NEW new
  PROVE  PlaceNext(places, new) \in [D \cup {new} -> Points]
<1> DEFINE parent == graph[new].parent
           place == IF parent \in DOMAIN places THEN places[parent] ELSE Origin
<1>1. Origin \in Points
  BY SceneAssumption DEF SceneAssumption, Points
<1>2. place \in Points
  BY <1>1
<1>3. PlaceNext(places, new) = [p \in D \cup {new} |-> IF p = new THEN place ELSE places[p]]
  BY DEF PlaceNext
<1> HIDE DEF place
<1> QED
  BY <1>2, <1>3

PlacesAll(m, places, new) ==
  m = [k \in 0 .. Len(new) |-> IF k = 0 THEN places ELSE PlaceNext(m[k - 1], new[k])]

With(D, new) == D \cup {new[j] : j \in 1 .. Len(new)}

LEMMA PlaceAllType ==
  ASSUME NEW S, NEW D, NEW places \in [D -> Points], NEW new \in Seq(S)
  PROVE  PlaceAll(places, new) \in [With(D, new) -> Points]
<1> DEFINE N == Len(new)
           E(k) == D \cup {new[j] : j \in 1 .. k}
           Q == UNION {[d -> Points] : d \in SUBSET (D \cup S)}
           Step == [qk \in Q \X (1 .. N) |-> PlaceNext(qk[1], new[qk[2]])]
<1>1. N \in Nat /\ \A k \in 1 .. N : new[k] \in S
  OBVIOUS
<1>2. ASSUME NEW q \in Q, NEW k \in 1 .. N PROVE PlaceNext(q, new[k]) \in Q
  <2>1. PICK d \in SUBSET (D \cup S) : q \in [d -> Points]
    OBVIOUS
  <2>2. PlaceNext(q, new[k]) \in [d \cup {new[k]} -> Points]
    BY <2>1, PlaceNextType
  <2>3. d \cup {new[k]} \in SUBSET (D \cup S)
    BY <1>1, <2>1
  <2> QED
    BY <2>2, <2>3
<1>3. Step \in [Q \X (1 .. N) -> Q]
  BY <1>2
<1>4. \A q \in Q, k \in 1 .. N : Step[<<q, k>>] = PlaceNext(q, new[k])
  OBVIOUS
<1>5. places \in Q
  <2>1. D \in SUBSET (D \cup S)
    OBVIOUS
  <2> QED
    BY <2>1
<1> HIDE DEF Step, Q
<1>6. PICK l \in [0 .. N -> Q] : Loop(l, places, Step, N)
  BY <1>1, <1>3, <1>5, LoopExists
<1>7. ASSUME NEW k \in 0 .. N
      PROVE  l[k] = IF k = 0 THEN places ELSE PlaceNext(l[k - 1], new[k])
  <2>1. CASE k = 0
    BY <1>6, <2>1 DEF Loop
  <2>2. CASE k \in 1 .. N
    <3>1. l[k - 1] \in Q /\ l[k] = Step[<<l[k - 1], k>>]
      BY <1>6, <2>2 DEF Loop
    <3> QED
      BY <1>4, <2>2, <3>1
  <2> QED
    BY <1>1, <2>1, <2>2
<1> DEFINE m0 == [k \in 0 .. N |-> l[k]]
<1>8. \A k \in 0 .. N : m0[k] = IF k = 0 THEN places ELSE PlaceNext(m0[k - 1], new[k])
  <2>1. \A k \in 0 .. N : k # 0 => k - 1 \in 0 .. N
    BY <1>1
  <2>2. \A k \in 0 .. N : m0[k] = l[k]
    OBVIOUS
  <2> HIDE DEF m0
  <2> QED
    BY <1>7, <2>1, <2>2
<1>9. PlacesAll(m0, places, new)
  BY <1>8 DEF PlacesAll
<1> HIDE DEF m0
<1>10. PICK m : PlacesAll(m, places, new) /\ PlaceAll(places, new) = m[N]
  BY <1>9 DEF PlaceAll, PlacesAll
<1>11. \A k \in 0 .. N : m[k] = IF k = 0 THEN places ELSE PlaceNext(m[k - 1], new[k])
  <2>1. m = [k \in 0 .. N |-> IF k = 0 THEN places ELSE PlaceNext(m[k - 1], new[k])]
    BY <1>10 DEF PlacesAll
  <2> HIDE DEF N
  <2> QED
    BY <2>1, Zenon
<1> DEFINE P == {k \in Nat : k <= N => m[k] \in [E(k) -> Points]}
<1>12. 0 \in P
  <2>1. m[0] = places /\ E(0) = D
    BY <1>1, <1>11
  <2> QED
    BY <2>1
<1>13. ASSUME NEW k \in Nat, k < N, k \in P PROVE k + 1 \in P
  <2>1. k + 1 \in 0 .. N /\ k + 1 # 0 /\ k + 1 - 1 = k /\ k <= N /\ k + 1 \in Nat
    BY <1>1, <1>13
  <2>2. m[k + 1] = PlaceNext(m[k], new[k + 1])
    BY <1>11, <2>1
  <2>3. m[k] \in [E(k) -> Points]
    BY <1>13, <2>1
  <2>4. E(k) \cup {new[k + 1]} = E(k + 1)
    <3>1. 1 .. k + 1 = (1 .. k) \cup {k + 1}
      BY <1>13
    <3> QED
      BY <3>1
  <2> HIDE DEF E
  <2>5. PlaceNext(m[k], new[k + 1]) \in [E(k) \cup {new[k + 1]} -> Points]
    BY <2>3, PlaceNextType, Zenon
  <2>6. m[k + 1] \in [E(k + 1) -> Points]
    BY <2>2, <2>4, <2>5, Zenon
  <2> QED
    BY <2>1, <2>6
<1> HIDE DEF P
<1>14. 0 .. N \subseteq P
  BY <1>1, <1>12, <1>13, UpTo
<1>15. N \in P
  <2>1. N \in 0 .. N
    BY <1>1
  <2> HIDE DEF N
  <2> QED
    BY <1>14, <2>1
<1>16. m[N] \in [E(N) -> Points]
  <2> HIDE DEF E, N
  <2> QED
    BY <1>1, <1>15 DEF P
<1>17. E(N) = With(D, new)
  BY DEF With
<1> QED
  BY <1>10, <1>16, <1>17

LEMMA SyncedPlaces ==
  ASSUME graph \in Worlds, NEW places, NEW D, places \in [D -> Points], IsFiniteSet(D),
         NEW synced \in SyncWithGraph(places)
  PROVE  synced \in [DOMAIN graph -> Points]
<1>1. IsFiniteSet(DOMAIN graph) /\ DOMAIN places = D
  BY GraphIs
<1> DEFINE both == D \cap DOMAIN graph
           kept == Restrict(places, both)
           newcomers == DOMAIN graph \ D
<1>2. PICK new \in SetToSeqs(newcomers) : synced = PlaceAll(kept, new)
  BY <1>1 DEF SyncWithGraph
<1>3. IsFiniteSet(newcomers)
  BY <1>1, FS_Subset
<1>4. kept \in [both -> Points]
  BY DEF Restrict
<1>5. both \cup newcomers = DOMAIN graph
  OBVIOUS
<1> HIDE DEF both, kept, newcomers
<1>6. new \in Seq(newcomers) /\ {new[j] : j \in 1 .. Len(new)} = newcomers
  BY <1>3, OrdersOf
<1>7. PlaceAll(kept, new) \in [With(both, new) -> Points]
  <2>1. new \in Seq(newcomers)
    BY <1>6
  <2> QED
    BY <1>4, <2>1, PlaceAllType
<1>8. With(both, new) = both \cup newcomers
  BY <1>6 DEF With
<1> QED
  BY <1>2, <1>5, <1>7, <1>8, Zenon

LEMMA SteppedPlaces ==
  ASSUME NEW D, NEW places \in [D -> Points], NEW moved \in LayoutStep(places)
  PROVE  moved \in [D -> Points]
<1>1. Places \subseteq Points
  BY SceneAssumption DEF SceneAssumption, Points
<1>2. CASE Cardinality(DOMAIN places) < 2
  BY <1>2 DEF LayoutStep
<1>3. CASE ~(Cardinality(DOMAIN places) < 2)
  <2>1. moved \in [DOMAIN places -> Places]
    BY <1>3 DEF LayoutStep
  <2> QED
    BY <1>1, <2>1
<1> QED
  BY <1>2, <1>3
-----------------------------------------------------------------------------
(* The canvas: what is left of painting one shape after another is the     *)
(* nearest of them.                                                        *)

Colours == {"edge", "data", "prediction", "bloom", "healthy", "warning", "critical", "dying"}
Sized == UNION {[D -> Int] : D \in SUBSET Int}
Shape == [pid : ScenePids, colour : Colours, depth : Sized]

LEMMA DepthIsInt ==
  ASSUME NEW s \in Shape, NEW x \in DOMAIN s.depth
  PROVE  s.depth[x] \in Int
<1>1. PICK D \in SUBSET Int : s.depth \in [D -> Int]
  BY DEF Shape, Sized
<1> QED
  BY <1>1

DotOf(s, x) == [pid |-> s.pid, colour |-> s.colour, depth |-> s.depth[x]]

LEMMA PaintKeepsNearest ==
  ASSUME NEW x, NEW dot, NEW shapes \in SUBSET Shape, DotIsNearest(x, dot, shapes), NEW s \in Shape
  PROVE  DotIsNearest(x, Paint(x, dot, s), shapes \cup {s})
<1> DEFINE here == {t \in shapes : x \in DOMAIN t.depth}
           more == {t \in shapes \cup {s} : x \in DOMAIN t.depth}
<1>1. /\ here = {} => dot = Blank
      /\ here # {} => \E t \in here : dot = DotOf(t, x) /\ \A u \in here : t.depth[x] <= u.depth[x]
  BY DEF DotIsNearest, DotOf
<1>2. \A t \in more : t \in Shape /\ t.depth[x] \in Int
  BY DepthIsInt
<1>3. \A t \in here : t \in more
  OBVIOUS
<1>4. SUFFICES /\ more = {} => Paint(x, dot, s) = Blank
               /\ more # {} => \E t \in more : /\ Paint(x, dot, s) = DotOf(t, x)
                                              /\ \A u \in more : t.depth[x] <= u.depth[x]
  BY DEF DotIsNearest, DotOf
<1>5. \A t \in Shape : DotOf(t, x) # Blank /\ DotOf(t, x).depth = t.depth[x]
  <2>1. \A t \in Shape : t.colour # "none"
    BY DEF Shape, Colours
  <2> QED
    BY <2>1 DEF DotOf, Blank
<1>6. CASE x \notin DOMAIN s.depth
  <2>1. more = here /\ Paint(x, dot, s) = dot
    BY <1>6 DEF Paint
  <2> HIDE DEF more, here
  <2> QED
    BY <1>1, <2>1
<1>7. CASE x \in DOMAIN s.depth
  <2>1. s \in more /\ more = here \cup {s} /\ here \subseteq shapes
    BY <1>7
  <2> HIDE DEF more, here
  <2>2. CASE dot = Blank
    <3>1. here = {}
      BY <1>1, <1>5, <2>1, <2>2
    <3>2. Paint(x, dot, s) = DotOf(s, x)
      BY <1>7, <2>2 DEF Paint, DotOf
    <3>3. s.depth[x] \in Int
      BY <1>2, <2>1
    <3>4. \A u \in more : s.depth[x] <= u.depth[x]
      BY <2>1, <3>1, <3>3
    <3> QED
      BY <2>1, <3>2, <3>4
  <2>3. CASE dot # Blank
    <3>1. PICK t \in here : dot = DotOf(t, x) /\ \A u \in here : t.depth[x] <= u.depth[x]
      BY <1>1, <2>3
    <3>2. t \in more /\ dot.depth = t.depth[x] /\ t.depth[x] \in Int /\ s.depth[x] \in Int
      BY <1>2, <1>3, <1>5, <2>1, <3>1
    <3>3. CASE s.depth[x] < t.depth[x]
      <4>1. Paint(x, dot, s) = DotOf(s, x)
        BY <1>7, <3>2, <3>3 DEF Paint, DotOf
      <4>2. \A u \in more : s.depth[x] <= u.depth[x]
        <5> SUFFICES ASSUME NEW u \in more PROVE s.depth[x] <= u.depth[x]
          OBVIOUS
        <5>1. u.depth[x] \in Int
          BY <1>2
        <5>2. u = s \/ t.depth[x] <= u.depth[x]
          BY <2>1, <3>1
        <5> QED
          BY <3>2, <3>3, <5>1, <5>2
      <4> QED
        BY <2>1, <4>1, <4>2
    <3>4. CASE ~(s.depth[x] < t.depth[x])
      <4>1. Paint(x, dot, s) = dot
        BY <2>3, <3>2, <3>4 DEF Paint
      <4>2. t.depth[x] <= s.depth[x]
        BY <3>2, <3>4
      <4>3. \A u \in more : t.depth[x] <= u.depth[x]
        BY <2>1, <3>1, <4>2
      <4> QED
        BY <3>1, <3>2, <4>1, <4>3
    <3> QED
      BY <3>3, <3>4
  <2> QED
    BY <2>2, <2>3
<1> QED
  BY <1>6, <1>7

PaintsInTurn(m, x, shapes) ==
  m = [k \in 0 .. Len(shapes) |-> IF k = 0 THEN Blank ELSE Paint(x, m[k - 1], shapes[k])]

LEMMA NearestIsPainted ==
  ASSUME NEW x, NEW shapes \in Seq(Shape)
  PROVE  DotIsNearest(x, Dot(x, shapes), ToSet(shapes))
<1> DEFINE N == Len(shapes)
           E(k) == {shapes[j] : j \in 1 .. k}
           Q == {Blank} \cup {DotOf(s, x) : s \in Shape}
           Step == [qk \in Q \X (1 .. N) |-> Paint(x, qk[1], shapes[qk[2]])]
<1>1. N \in Nat /\ \A k \in 1 .. N : shapes[k] \in Shape
  OBVIOUS
<1>2. ASSUME NEW q \in Q, NEW k \in 1 .. N PROVE Paint(x, q, shapes[k]) \in Q
  BY <1>1 DEF Paint, DotOf
<1>3. Step \in [Q \X (1 .. N) -> Q]
  BY <1>2
<1>4. \A q \in Q, k \in 1 .. N : Step[<<q, k>>] = Paint(x, q, shapes[k])
  OBVIOUS
<1>5. Blank \in Q
  OBVIOUS
<1> HIDE DEF Step, Q
<1>6. PICK l \in [0 .. N -> Q] : Loop(l, Blank, Step, N)
  BY <1>1, <1>3, <1>5, LoopExists
<1>7. ASSUME NEW k \in 0 .. N
      PROVE  l[k] = IF k = 0 THEN Blank ELSE Paint(x, l[k - 1], shapes[k])
  <2>1. CASE k = 0
    BY <1>6, <2>1 DEF Loop
  <2>2. CASE k \in 1 .. N
    <3>1. l[k - 1] \in Q /\ l[k] = Step[<<l[k - 1], k>>]
      BY <1>6, <2>2 DEF Loop
    <3> QED
      BY <1>4, <2>2, <3>1
  <2> QED
    BY <1>1, <2>1, <2>2
<1> DEFINE m0 == [k \in 0 .. N |-> l[k]]
<1>8. \A k \in 0 .. N : m0[k] = IF k = 0 THEN Blank ELSE Paint(x, m0[k - 1], shapes[k])
  <2>1. \A k \in 0 .. N : k # 0 => k - 1 \in 0 .. N
    BY <1>1
  <2>2. \A k \in 0 .. N : m0[k] = l[k]
    OBVIOUS
  <2> HIDE DEF m0
  <2> QED
    BY <1>7, <2>1, <2>2
<1>9. PaintsInTurn(m0, x, shapes)
  BY <1>8 DEF PaintsInTurn
<1> HIDE DEF m0
<1>10. PICK m : PaintsInTurn(m, x, shapes) /\ Dot(x, shapes) = m[N]
  BY <1>9 DEF Dot, PaintsInTurn
<1>11. \A k \in 0 .. N : m[k] = IF k = 0 THEN Blank ELSE Paint(x, m[k - 1], shapes[k])
  <2>1. m = [k \in 0 .. N |-> IF k = 0 THEN Blank ELSE Paint(x, m[k - 1], shapes[k])]
    BY <1>10 DEF PaintsInTurn
  <2> HIDE DEF N
  <2> QED
    BY <2>1, Zenon
<1> DEFINE P == {k \in Nat : k <= N => DotIsNearest(x, m[k], E(k))}
<1>12. 0 \in P
  <2>1. m[0] = Blank /\ E(0) = {}
    BY <1>1, <1>11
  <2> QED
    BY <2>1 DEF DotIsNearest
<1>13. ASSUME NEW k \in Nat, k < N, k \in P PROVE k + 1 \in P
  <2>1. k + 1 \in 0 .. N /\ k + 1 \in 1 .. N /\ k + 1 # 0 /\ k + 1 - 1 = k /\ k <= N /\ k + 1 \in Nat
    BY <1>1, <1>13
  <2>2. m[k + 1] = Paint(x, m[k], shapes[k + 1])
    BY <1>11, <2>1
  <2>3. DotIsNearest(x, m[k], E(k))
    BY <1>13, <2>1
  <2>4. E(k) \cup {shapes[k + 1]} = E(k + 1)
    <3>1. 1 .. k + 1 = (1 .. k) \cup {k + 1}
      BY <1>13
    <3> QED
      BY <3>1
  <2>5. E(k) \in SUBSET Shape
    BY <1>1, <2>1
  <2>6. shapes[k + 1] \in Shape
    BY <1>1, <2>1
  <2> HIDE DEF E
  <2>7. DotIsNearest(x, Paint(x, m[k], shapes[k + 1]), E(k) \cup {shapes[k + 1]})
    BY <2>3, <2>5, <2>6, PaintKeepsNearest
  <2>8. DotIsNearest(x, m[k + 1], E(k + 1))
    BY <2>2, <2>4, <2>7, Zenon
  <2> QED
    BY <2>1, <2>8
<1> HIDE DEF P
<1>14. 0 .. N \subseteq P
  BY <1>1, <1>12, <1>13, UpTo
<1>15. N \in P
  <2>1. N \in 0 .. N
    BY <1>1
  <2> HIDE DEF N
  <2> QED
    BY <1>14, <2>1
<1>16. DotIsNearest(x, m[N], E(N))
  <2> HIDE DEF E, N
  <2> QED
    BY <1>1, <1>15 DEF P
<1>17. ToSet(shapes) = E(N)
  BY DEF ToSet
<1> HIDE DEF E, N
<1> QED
  BY <1>10, <1>16, <1>17, Zenon
-----------------------------------------------------------------------------
(* What is painted: every shape has a colour and depths that compare.      *)

Viewed == graph \in Worlds /\ clock \in Int /\ camera \in [centre : Points, distance : Int]

LEMMA DepthType ==
  ASSUME Viewed, NEW place \in Points
  PROVE  Depth(place) \in Int
BY DEF Viewed, Depth, Points

LEMMA ColumnType ==
  ASSUME Viewed, NEW place \in Points, InFront(place), NEW width \in Nat
  PROVE  Column(place, width) \in Int
<1> DEFINE d == Depth(place)
           a == 2 * (place[1] - camera.centre[1])
<1>1. d \in Int /\ d > 0
  BY DepthType DEF InFront
<1>2. a \in Int
  BY DEF Viewed, Points
<1>3. Column(place, width) = width + a \div d
  BY DEF Column
<1> HIDE DEF d, a
<1>4. a \div d \in Int
  BY <1>1, <1>2
<1> QED
  BY <1>3, <1>4

LEMMA SizedBy ==
  ASSUME NEW D \in SUBSET Int, NEW f \in [D -> Int]
  PROVE  f \in Sized
BY DEF Sized

LEMMA DiscIsShape ==
  ASSUME Viewed, NEW p \in ScenePids, NEW colour \in Colours, NEW place \in Points, InFront(place),
         NEW radius \in Int, NEW width \in Nat
  PROVE  Disc(p, colour, place, radius, width) \in Shape
<1> DEFINE centre == Column(place, width)
           d == Depth(place)
           f == [c \in centre - radius .. centre + radius |-> d]
<1>1. centre \in Int /\ d \in Int
  BY DepthType, ColumnType
<1>2. Disc(p, colour, place, radius, width) = [pid |-> p, colour |-> colour, depth |-> f]
  BY DEF Disc
<1> HIDE DEF centre, d
<1>3. f \in Sized
  <2>1. centre - radius .. centre + radius \in SUBSET Int
    BY <1>1
  <2>2. f \in [centre - radius .. centre + radius -> Int]
    BY <1>1
  <2> QED
    BY <2>1, <2>2, SizedBy
<1> HIDE DEF f
<1> QED
  BY <1>2, <1>3 DEF Shape

LEMMA NodeShapesType ==
  ASSUME Viewed, NEW D \in SUBSET ScenePids, NEW places \in [D -> Points], NEW p \in D,
         NEW lit \in BOOLEAN, NEW width \in Nat
  PROVE  NodeShapes(p, places, lit, width) \in Seq(Shape)
<1> DEFINE place == places[p]
           radius == Radius(Depth(place))
           a == Disc(p, "prediction", place, radius + 1, width)
           b == Disc(p, "bloom", place, radius + 1, width)
           c == Disc(p, ColourForHp(graph[p].hp), place, radius, width)
<1>1. place \in Points /\ p \in ScenePids /\ radius \in Int
  BY DEF Radius
<1>2. ColourForHp(graph[p].hp) \in Colours /\ "prediction" \in Colours /\ "bloom" \in Colours
  BY DEF ColourForHp, Colours
<1>3. CASE ~InFront(place) \/ (graph[p].zombie /\ ~lit)
  <2>1. NodeShapes(p, places, lit, width) = <<>>
    BY <1>3 DEF NodeShapes
  <2> QED
    BY <2>1
<1>4. CASE ~(~InFront(place) \/ (graph[p].zombie /\ ~lit))
  <2>1. NodeShapes(p, places, lit, width) =
          (IF p \in Predicted THEN <<a>> ELSE <<>>) \o (IF graph[p].hp < 20 THEN <<b>> ELSE <<>>) \o <<c>>
    BY <1>4 DEF NodeShapes
  <2>2. InFront(place) /\ radius + 1 \in Int
    BY <1>1, <1>4
  <2> HIDE DEF place, radius
  <2>3. a \in Shape /\ b \in Shape /\ c \in Shape
    BY <1>1, <1>2, <2>2, DiscIsShape
  <2> HIDE DEF a, b, c
  <2>4. <<a>> \in Seq(Shape) /\ <<b>> \in Seq(Shape) /\ <<c>> \in Seq(Shape) /\ <<>> \in Seq(Shape)
    BY <2>3
  <2> QED
    BY <2>1, <2>4
<1> QED
  BY <1>3, <1>4

LEMMA LineIsShape ==
  ASSUME Viewed, NEW D \in SUBSET ScenePids, NEW places \in [D -> Points], NEW p \in D, NEW q \in D,
         InFront(places[p]), InFront(places[q]), NEW width \in Nat
  PROVE  Line(p, q, places, width) \in Shape
<1> DEFINE from == Column(places[p], width)
           to == Column(places[q], width)
           steps == Greater(from, to) - Lesser(from, to)
           Done(c) == IF from < to THEN c - from ELSE from - c
           I == Lesser(from, to) .. Greater(from, to)
           near == Depth(places[p])
           far == Depth(places[q])
           f == [c \in I |-> IF steps = 0 THEN near ELSE near + ((far - near) * Done(c)) \div steps]
<1>1. from \in Int /\ to \in Int /\ near \in Int /\ far \in Int
  BY DepthType, ColumnType
<1>2. Line(p, q, places, width) = [pid |-> p, colour |-> "edge", depth |-> f]
  BY DEF Line
<1> HIDE DEF from, to, near, far
<1>3. I \in SUBSET Int /\ steps \in Nat
  BY <1>1 DEF Greater, Lesser
<1>4. \A c \in I : Done(c) \in Int
  BY <1>1, <1>3
<1> HIDE DEF I, steps, Done
<1>5. ASSUME NEW c \in I PROVE (IF steps = 0 THEN near ELSE near + ((far - near) * Done(c)) \div steps) \in Int
  <2> DEFINE product == (far - near) * Done(c)
  <2>1. product \in Int
    BY <1>1, <1>4
  <2> HIDE DEF product
  <2>2. steps # 0 => product \div steps \in Int
    BY <1>3, <2>1
  <2>3. (IF steps = 0 THEN near ELSE near + product \div steps) \in Int
    BY <1>1, <2>2
  <2> QED
    BY <2>3 DEF product
<1>6. f \in [I -> Int]
  BY <1>5
<1>7. f \in Sized
  BY <1>3, <1>6, SizedBy
<1> HIDE DEF f
<1>8. p \in ScenePids /\ "edge" \in Colours
  BY DEF Colours
<1> QED
  BY <1>2, <1>7, <1>8 DEF Shape

LEMMA FlowDotsType ==
  ASSUME Viewed, NEW D \in SUBSET ScenePids, NEW places \in [D -> Points], NEW p \in D \cap DOMAIN graph,
         NEW q \in D \cap DOMAIN graph[p].to, InFront(places[p]), InFront(places[q]),
         NEW phase \in Int, NEW width \in Nat
  PROVE  FlowDots(p, q, places, phase, width) \in Seq(Shape)
<1> DEFINE from == Column(places[p], width)
           to == Column(places[q], width)
           near == Depth(places[p])
           far == Depth(places[q])
           n == graph[p].to[q]
           sixth(i) == (phase + 2 * i) % 6
           Along(a, b, i) == a + ((b - a) * sixth(i)) \div 6
           column(i) == Greater(0, Along(from, to, i))
           depth(i) == [c \in {column(i)} |-> Along(near, far, i)]
<1>1. from \in Int /\ to \in Int /\ near \in Int /\ far \in Int
  BY DepthType, ColumnType
<1>2. FlowDots(p, q, places, phase, width) =
        [i \in 1 .. n |-> [pid |-> p, colour |-> "data", depth |-> depth(i)]]
  BY DEF FlowDots
<1>3. n \in Nat
  BY GraphIs DEF Viewed
<1> HIDE DEF from, to, near, far, n
<1>4. ASSUME NEW i \in 1 .. n PROVE sixth(i) \in Int
  BY <1>3
<1> HIDE DEF sixth
<1>5. ASSUME NEW a \in Int, NEW b \in Int, NEW i \in 1 .. n PROVE Along(a, b, i) \in Int
  <2> DEFINE product == (b - a) * sixth(i)
  <2>1. product \in Int
    BY <1>4
  <2> HIDE DEF product
  <2>2. a + product \div 6 \in Int
    BY <2>1
  <2> QED
    BY <2>2 DEF product
<1> HIDE DEF Along
<1>6. ASSUME NEW i \in 1 .. n PROVE depth(i) \in Sized
  <2>1. Along(from, to, i) \in Int /\ Along(near, far, i) \in Int
    BY <1>1, <1>5
  <2>2. {column(i)} \in SUBSET Int
    BY <2>1 DEF Greater
  <2> HIDE DEF column
  <2>3. depth(i) \in [{column(i)} -> Int]
    BY <2>1
  <2> HIDE DEF depth
  <2> QED
    BY <2>2, <2>3, SizedBy
<1> HIDE DEF depth
<1>7. p \in ScenePids /\ "data" \in Colours
  BY DEF Colours
<1>8. \A i \in 1 .. n : [pid |-> p, colour |-> "data", depth |-> depth(i)] \in Shape
  BY <1>6, <1>7 DEF Shape
<1> QED
  BY <1>2, <1>3, <1>8
LEMMA EdgeShapesType ==
  ASSUME Viewed, NEW places \in [DOMAIN graph -> Points], NEW p \in DOMAIN graph,
         NEW phase \in Int, NEW width \in Nat
  PROVE  EdgeShapes(p, places, phase, width) \in Seq(Shape)
<1> DEFINE D == DOMAIN graph
           T == {q \in DOMAIN graph[p].to \cap DOMAIN places : InFront(places[p]) /\ InFront(places[q])}
           ends == SetToSeq(T)
           part(q) == <<Line(p, q, places, width)>> \o FlowDots(p, q, places, phase, width)
           parts == [i \in DOMAIN ends |-> part(ends[i])]
<1>1. D \in SUBSET ScenePids /\ IsFiniteSet(DOMAIN graph[p].to) /\ DOMAIN places = D
  BY GraphIs DEF Viewed
<1>2. T \in SUBSET (DOMAIN graph[p].to)
  OBVIOUS
<1>3. ASSUME NEW q \in T PROVE part(q) \in Seq(Shape)
  <2>1. q \in D /\ q \in D \cap DOMAIN graph[p].to /\ InFront(places[p]) /\ InFront(places[q])
    BY <1>1
  <2>2. Line(p, q, places, width) \in Shape
    BY <1>1, <2>1, LineIsShape
  <2>3. FlowDots(p, q, places, phase, width) \in Seq(Shape)
    BY <1>1, <2>1, FlowDotsType
  <2> QED
    BY <2>2, <2>3
<1>4. EdgeShapes(p, places, phase, width) = FlattenSeq(parts)
  BY DEF EdgeShapes
<1> HIDE DEF T, part
<1>5. IsFiniteSet(T)
  BY <1>1, <1>2, FS_Subset
<1>6. ends \in Seq(T)
  BY <1>5, OrderOf
<1> HIDE DEF ends
<1>7. parts \in Seq(Seq(Shape))
  BY <1>3, <1>6
<1> HIDE DEF parts
<1> QED
  BY <1>4, <1>7, FlattenSeqType

Ghosts == UNION {[D -> [place : Points, since : Int]] : D \in SUBSET ScenePids}

LEMMA GhostShapesType ==
  ASSUME Viewed, NEW dying \in Ghosts, NEW p \in DOMAIN dying, NEW width \in Nat
  PROVE  GhostShapes(p, dying, width) \in Seq(Shape)
<1> DEFINE place == dying[p].place
           age == clock - dying[p].since
           r == Radius(Depth(place))
           radius == (r * (Lasts - age)) \div Lasts
           whole == Disc(p, "dying", place, radius, width)
           left == {c \in DOMAIN whole.depth : c \notin DOMAIN Grain \/ age < Grain[c]}
           ghost == [whole EXCEPT !.depth = Restrict(whole.depth, left)]
<1>1. place \in Points /\ age \in Int /\ p \in ScenePids
  BY DEF Ghosts, Viewed
<1>2. radius \in Int
  <2> DEFINE product == r * (Lasts - age)
  <2>1. r \in Int /\ Lasts \in Int /\ Lasts > 0
    BY SceneAssumption DEF SceneAssumption, Radius
  <2> HIDE DEF r, age
  <2>2. product \in Int
    BY <1>1, <2>1
  <2> HIDE DEF product
  <2>3. product \div Lasts \in Int
    BY <2>1, <2>2
  <2> QED
    BY <2>3 DEF product
<1>3. CASE ~InFront(place)
  <2>1. GhostShapes(p, dying, width) = <<>>
    BY <1>3 DEF GhostShapes
  <2> QED
    BY <2>1
<1>4. CASE InFront(place)
  <2>1. GhostShapes(p, dying, width) = <<ghost>>
    BY <1>4 DEF GhostShapes
  <2>2. "dying" \in Colours
    BY DEF Colours
  <2> HIDE DEF place, radius, age
  <2>3. whole \in Shape
    BY <1>1, <1>2, <1>4, <2>2, DiscIsShape
  <2> HIDE DEF whole
  <2>4. PICK D \in SUBSET Int : whole.depth \in [D -> Int]
    BY <2>3 DEF Shape, Sized
  <2>5. left \in SUBSET Int /\ left \subseteq D
    BY <2>4
  <2> HIDE DEF left
  <2>6. Restrict(whole.depth, left) \in [left -> Int]
    BY <2>4, <2>5 DEF Restrict
  <2>7. Restrict(whole.depth, left) \in Sized
    BY <2>5, <2>6, SizedBy
  <2>8. ghost \in Shape
    BY <2>3, <2>7 DEF Shape
  <2> QED
    BY <2>1, <2>8
<1> QED
  BY <1>3, <1>4

LEMMA FunctionIsSeq ==
  ASSUME NEW S, NEW n \in Nat, NEW f \in [1 .. n -> S]
  PROVE  f \in Seq(S)
OBVIOUS

LEMMA ShapesType ==
  ASSUME Viewed, NEW places \in [DOMAIN graph -> Points], NEW dying \in Ghosts, IsFiniteSet(DOMAIN dying),
         NEW width \in Nat, NEW shapes \in Frames(places, dying, width)
  PROVE  shapes \in Seq(Shape)
<1>1. PICK lit \in BOOLEAN, phase \in Phases : shapes = Shapes(places, dying, lit, phase, width)
  BY DEF Frames
<1>2. phase \in Int /\ IsFiniteSet(DOMAIN graph) /\ DOMAIN graph \in SUBSET ScenePids
  BY SceneAssumption, GraphIs DEF SceneAssumption, Viewed
<1> DEFINE living == SetToSeq(DOMAIN graph)
           gone == SetToSeq(DOMAIN dying)
           edges == [i \in DOMAIN living |-> EdgeShapes(living[i], places, phase, width)]
           nodes == [i \in DOMAIN living |-> NodeShapes(living[i], places, lit, width)]
           dead == [i \in DOMAIN gone |-> GhostShapes(gone[i], dying, width)]
<1>3. shapes = FlattenSeq(edges) \o FlattenSeq(nodes) \o FlattenSeq(dead)
  BY <1>1 DEF Shapes
<1>4. living \in Seq(DOMAIN graph) /\ gone \in Seq(DOMAIN dying)
  BY <1>2, OrderOf
<1> HIDE DEF living, gone
<1>5. \A p \in DOMAIN graph : /\ EdgeShapes(p, places, phase, width) \in Seq(Shape)
                              /\ NodeShapes(p, places, lit, width) \in Seq(Shape)
  BY <1>2, EdgeShapesType, NodeShapesType
<1>6. \A p \in DOMAIN dying : GhostShapes(p, dying, width) \in Seq(Shape)
  BY GhostShapesType
<1>7. edges \in Seq(Seq(Shape)) /\ nodes \in Seq(Seq(Shape)) /\ dead \in Seq(Seq(Shape))
  <2>1. \A i \in DOMAIN living : living[i] \in DOMAIN graph
    BY <1>4
  <2>2. \A i \in DOMAIN gone : gone[i] \in DOMAIN dying
    BY <1>4
  <2>3. edges \in [DOMAIN living -> Seq(Shape)] /\ nodes \in [DOMAIN living -> Seq(Shape)]
    BY <1>5, <2>1
  <2>4. dead \in [DOMAIN gone -> Seq(Shape)]
    BY <1>6, <2>2
  <2>5. DOMAIN living = 1 .. Len(living) /\ DOMAIN gone = 1 .. Len(gone) /\ Len(living) \in Nat /\ Len(gone) \in Nat
    BY <1>4
  <2> HIDE DEF edges, nodes, dead
  <2>6. edges \in Seq(Seq(Shape)) /\ nodes \in Seq(Seq(Shape))
    BY <2>3, <2>5, FunctionIsSeq
  <2>7. dead \in Seq(Seq(Shape))
    BY <2>4, <2>5, FunctionIsSeq
  <2> QED
    BY <2>6, <2>7
<1> HIDE DEF edges, nodes, dead
<1>8. FlattenSeq(edges) \in Seq(Shape) /\ FlattenSeq(nodes) \in Seq(Shape) /\ FlattenSeq(dead) \in Seq(Shape)
  BY <1>7, FlattenSeqType
<1> QED
  BY <1>3, <1>8
-----------------------------------------------------------------------------
(* The scene.                                                              *)

SceneInv ==
  /\ Viewed
  /\ layout \in [DOMAIN layout -> Points] /\ IsFiniteSet(DOMAIN layout) /\ DOMAIN layout \subseteq ScenePids
  /\ ghosts \in Ghosts /\ IsFiniteSet(DOMAIN ghosts)
  /\ \A e \in exits : e.at \in Int /\ ExitIsShown(e)

SceneStep == SceneInv' /\ ShowsTheWorld

LEMMA InitScene == SceneInit => SceneInv
<1> SUFFICES ASSUME SceneInit PROVE SceneInv
  OBVIOUS
<1>1. Origin \in Points /\ NearLimit \in Int
  BY SceneAssumption DEF SceneAssumption, Points
<1>2. Viewed
  BY <1>1 DEF SceneInit, Viewed, DefaultCamera
<1>3. Empty \in [{} -> Points] /\ DOMAIN Empty = {}
  BY DEF Empty
<1>4. Empty \in [{} -> [place : Points, since : Int]]
  BY DEF Empty
<1>5. {} \in SUBSET ScenePids /\ IsFiniteSet({})
  BY FS_EmptySet
<1>6. Empty \in Ghosts
  BY <1>4, <1>5 DEF Ghosts
<1> QED
  BY <1>2, <1>3, <1>5, <1>6 DEF SceneInit, SceneInv

\* The others leave the canvas and the dying alone; a later clock only ends a death.
LEMMA LeavesTheCanvas ==
  ASSUME SceneInv, Viewed', UNCHANGED <<layout, ghosts, canvas, exits>>, clock' >= clock
  PROVE  SceneStep
<1>1. clock \in Int /\ clock' \in Int /\ Lasts \in Int
  BY SceneAssumption DEF SceneInv, Viewed, SceneAssumption
<1>2. ASSUME NEW e \in exits' PROVE e.at \in Int /\ ExitIsShown(e)'
  <2>1. e.at \in Int /\ ExitIsShown(e)
    BY <1>2 DEF SceneInv
  <2>2. clock' < e.at + Lasts => clock < e.at + Lasts
    BY <1>1, <2>1
  <2> QED
    BY <2>1, <2>2 DEF ExitIsShown
<1> QED
  BY <1>2 DEF SceneStep, SceneInv, ShowsTheWorld

LEMMA AverageType ==
  ASSUME SceneInv, DOMAIN layout # {}, NEW i \in {1, 2}
  PROVE  Average(i) \in Int
<1> DEFINE pids == SetToSeq(DOMAIN layout)
           N == Len(pids)
           at(k) == layout[pids[k]][i]
           Round(m, k) == IF k = 0 THEN 0 ELSE m[k - 1] + at(k)
           Step == [qk \in Int \X (1 .. N) |-> qk[1] + at(qk[2])]
           Adds(m) == m = [k \in 0 .. N |-> IF k = 0 THEN 0 ELSE m[k - 1] + layout[pids[k]][i]]
<1>1. pids \in Seq(DOMAIN layout) /\ N \in Nat \ {0}
  BY OrderOf DEF SceneInv
<1>2. \A k \in 1 .. N : at(k) \in Int
  <2>1. \A k \in 1 .. N : pids[k] \in DOMAIN layout
    BY <1>1
  <2>2. \A p \in DOMAIN layout : layout[p] \in Points
    BY DEF SceneInv
  <2> QED
    BY <2>1, <2>2 DEF Points
<1>3. Average(i) = (CHOOSE m : Adds(m))[N] \div N
  BY DEF Average
<1> HIDE DEF N
<1>4. Step \in [Int \X (1 .. N) -> Int]
  <2> HIDE DEF at
  <2> QED
    BY <1>2
<1>5. \A q \in Int, k \in 1 .. N : Step[<<q, k>>] = q + at(k)
  OBVIOUS
<1> HIDE DEF Step, at
<1>6. PICK l \in [0 .. N -> Int] : Loop(l, 0, Step, N)
  <2>1. N \in Nat /\ 0 \in Int
    BY <1>1
  <2> QED
    BY <1>4, <2>1, LoopExists
<1>7. ASSUME NEW k \in 0 .. N PROVE l[k] = Round(l, k)
  <2>1. CASE k = 0
    BY <1>6, <2>1 DEF Loop
  <2>2. CASE k \in 1 .. N
    <3>1. l[k - 1] \in Int /\ l[k] = Step[<<l[k - 1], k>>]
      BY <1>1, <1>6, <2>2 DEF Loop
    <3> QED
      BY <1>5, <2>2, <3>1
  <2> QED
    BY <1>1, <2>1, <2>2
<1> DEFINE m0 == [k \in 0 .. N |-> l[k]]
<1>8. \A k \in 0 .. N : m0[k] = Round(m0, k)
  <2>1. \A k \in 0 .. N : k # 0 => k - 1 \in 0 .. N
    BY <1>1
  <2>2. \A k \in 0 .. N : m0[k] = l[k]
    OBVIOUS
  <2> HIDE DEF m0
  <2> QED
    BY <1>7, <2>1, <2>2
<1>9. Adds(m0)
  BY <1>8 DEF at
<1> HIDE DEF m0
<1>10. PICK m : Adds(m) /\ Average(i) = m[N] \div N
  <2> HIDE DEF Adds
  <2> QED
    BY <1>3, <1>9
<1>11. \A k \in 0 .. N : m[k] = Round(m, k)
  <2>1. m = [k \in 0 .. N |-> Round(m, k)]
    BY <1>10 DEF at
  <2> HIDE DEF Round
  <2> QED
    BY <2>1, Zenon
<1> DEFINE P == {k \in Nat : k <= N => m[k] \in Int}
<1>12. 0 \in P
  BY <1>1, <1>11
<1>13. ASSUME NEW k \in Nat, k < N, k \in P PROVE k + 1 \in P
  <2>1. k + 1 \in 0 .. N /\ k + 1 \in 1 .. N /\ k + 1 # 0 /\ k + 1 - 1 = k /\ k <= N /\ k + 1 \in Nat
    BY <1>1, <1>13
  <2>2. m[k + 1] = m[k] + at(k + 1)
    BY <1>11, <2>1
  <2>3. m[k] \in Int /\ at(k + 1) \in Int
    BY <1>2, <1>13, <2>1
  <2> QED
    BY <2>1, <2>2, <2>3
<1> HIDE DEF P
<1>14. 0 .. N \subseteq P
  BY <1>1, <1>12, <1>13, UpTo
<1>15. N \in P
  BY <1>1, <1>14
<1>16. m[N] \in Int
  BY <1>1, <1>15 DEF P
<1> QED
  BY <1>1, <1>10, <1>16

\* The dying that are kept: those of the ghosts and of the dead whose time is not over.
LEMMA DyingIs ==
  ASSUME SceneInv
  PROVE  /\ Dying \in Ghosts /\ IsFiniteSet(DOMAIN Dying)
         /\ \A p \in DOMAIN ghosts :
              clock - ghosts[p].since < Lasts => p \in DOMAIN Dying /\ Dying[p] = ghosts[p]
         /\ \A p \in DOMAIN layout \ (DOMAIN graph \cup DOMAIN ghosts) :
              p \in DOMAIN Dying /\ Dying[p] = [place |-> layout[p], since |-> clock]
<1> DEFINE dead == DOMAIN layout \ DOMAIN graph
           marked == MarkDying(dead)
           kept == {p \in DOMAIN marked : clock - marked[p].since < Lasts}
           Fresh(p) == [place |-> layout[p], since |-> clock]
<1>1. PICK D \in SUBSET ScenePids : ghosts \in [D -> [place : Points, since : Int]]
  BY DEF SceneInv, Ghosts
<1>2. /\ layout \in [DOMAIN layout -> Points] /\ DOMAIN layout \subseteq ScenePids /\ clock \in Int
      /\ IsFiniteSet(DOMAIN layout) /\ IsFiniteSet(DOMAIN ghosts) /\ DOMAIN ghosts = D
  BY <1>1 DEF SceneInv, Viewed
<1>3. marked = [p \in D \cup dead |-> IF p \in D THEN ghosts[p] ELSE Fresh(p)]
  BY <1>2 DEF MarkDying
<1>4. \A p \in dead : Fresh(p) \in [place : Points, since : Int]
  BY <1>2
<1>5. Dying = Restrict(marked, kept)
  BY DEF Dying
<1>6. dead \subseteq ScenePids /\ IsFiniteSet(dead) /\ dead \subseteq DOMAIN layout
  BY <1>2, FS_Subset
<1>7. IsFiniteSet(D \cup dead)
  BY <1>2, <1>6, FS_Union
<1>8. marked \in [D \cup dead -> [place : Points, since : Int]]
  <2> HIDE DEF dead, Fresh, marked
  <2> QED
    BY <1>1, <1>3, <1>4
<1>9. kept \subseteq D \cup dead
  <2> HIDE DEF marked
  <2> QED
    BY <1>8
<1>10. Dying \in [kept -> [place : Points, since : Int]]
  <2> HIDE DEF marked, kept
  <2> QED
    BY <1>5, <1>8, <1>9 DEF Restrict
<1>11. kept \in SUBSET ScenePids /\ IsFiniteSet(kept)
  <2> HIDE DEF kept, dead
  <2> QED
    BY <1>6, <1>7, <1>9, FS_Subset
<1>12. Dying \in Ghosts /\ IsFiniteSet(DOMAIN Dying)
  <2> HIDE DEF kept
  <2> QED
    BY <1>10, <1>11 DEF Ghosts
<1>13. ASSUME NEW p \in D, clock - ghosts[p].since < Lasts
       PROVE  p \in DOMAIN Dying /\ Dying[p] = ghosts[p]
  <2>1. p \in DOMAIN marked /\ marked[p] = ghosts[p]
    BY <1>3
  <2>2. p \in kept
    BY <1>13, <2>1
  <2> HIDE DEF marked, kept
  <2> QED
    BY <1>5, <2>1, <2>2 DEF Restrict
<1>14. ASSUME NEW p \in dead \ D
       PROVE  p \in DOMAIN Dying /\ Dying[p] = Fresh(p)
  <2>1. p \in DOMAIN marked /\ marked[p] = Fresh(p)
    BY <1>3
  <2>2. clock - clock < Lasts
    BY <1>2, SceneAssumption DEF SceneAssumption
  <2>3. p \in kept
    <3>1. marked[p].since = clock
      BY <2>1
    <3> HIDE DEF marked
    <3> QED
      BY <2>1, <2>2, <3>1
  <2> HIDE DEF marked, kept
  <2> QED
    BY <1>5, <2>1, <2>3 DEF Restrict
<1>15. \A p \in DOMAIN layout \ (DOMAIN graph \cup DOMAIN ghosts) : p \in dead \ D
  BY <1>2
<1> QED
  BY <1>2, <1>12, <1>13, <1>14, <1>15

LEMMA RenderIs ==
  ASSUME SceneInv, NEW width \in Widths, Render(width)
  PROVE  SceneStep
<1>1. /\ width \in Nat /\ width >= 2 /\ ghosts' = Dying
      /\ exits' = {e \in exits : clock < e.at + Lasts} \cup Found
      /\ UNCHANGED <<graph, clock, camera>>
  BY SceneAssumption DEF Render, SceneAssumption
<1>2. PICK places \in UNION {LayoutStep(synced) : synced \in SyncWithGraph(layout)} :
        \E shapes \in Frames(places, Dying, width) :
          layout' = places /\ canvas' = Painted(width, shapes)
  BY DEF Render
<1>3. PICK shapes \in Frames(places, Dying, width) : layout' = places /\ canvas' = Painted(width, shapes)
  BY <1>2
<1>4. PICK synced \in SyncWithGraph(layout) : places \in LayoutStep(synced)
  BY <1>2
<1>5. Viewed /\ graph \in Worlds /\ clock \in Int
  BY DEF SceneInv, Viewed
<1>6. synced \in [DOMAIN graph -> Points]
  BY <1>4, <1>5, SyncedPlaces DEF SceneInv
<1>7. places \in [DOMAIN graph -> Points]
  BY <1>4, <1>6, SteppedPlaces
<1>8. Dying \in Ghosts /\ IsFiniteSet(DOMAIN Dying)
  BY DyingIs
<1>9. shapes \in Seq(Shape)
  BY <1>1, <1>3, <1>5, <1>7, <1>8, ShapesType
<1>10. canvas' = [x \in Columns(width) |-> Dot(x, shapes)]
  BY <1>3 DEF Painted
<1>11. Cardinality(DOMAIN canvas') \div 2 = width
  <2>1. DOMAIN canvas' = 0 .. 2 * width - 1
    BY <1>10 DEF Columns
  <2>2. Cardinality(0 .. 2 * width - 1) = 2 * width
    <3>1. 2 * width - 1 \in Int /\ 0 <= 2 * width - 1 /\ 2 * width - 1 - 0 + 1 = 2 * width
      BY <1>1
    <3> QED
      BY <3>1, FS_Interval
  <2>3. (2 * width) \div 2 = width
    BY <1>1
  <2> QED
    BY <2>1, <2>2, <2>3
<1>12. FrameIsNearest(canvas', places, Dying)
  <2>1. ToSet(shapes) \in {ToSet(s) : s \in Frames(places, Dying, Cardinality(DOMAIN canvas') \div 2)}
    BY <1>3, <1>11
  <2>2. \A x \in DOMAIN canvas' : DotIsNearest(x, canvas'[x], ToSet(shapes))
    BY <1>9, <1>10, NearestIsPainted
  <2> QED
    BY <2>1, <2>2 DEF FrameIsNearest
<1>13. ASSUME NEW e \in exits' PROVE e.at \in Int /\ ExitIsShown(e)'
  <2>1. ExitIsShown(e)' <=> (~e.again /\ clock < e.at + Lasts =>
                               e.pid \in DOMAIN Dying /\ Dying[e.pid] = [place |-> e.place, since |-> e.at])
    BY <1>1 DEF ExitIsShown
  <2>2. CASE e \in exits
    <3>1. e.at \in Int /\ ExitIsShown(e)
      BY <2>2 DEF SceneInv
    <3>2. ASSUME ~e.again, clock < e.at + Lasts
          PROVE  e.pid \in DOMAIN Dying /\ Dying[e.pid] = [place |-> e.place, since |-> e.at]
      <4>1. e.pid \in DOMAIN ghosts /\ ghosts[e.pid] = [place |-> e.place, since |-> e.at]
        BY <3>1, <3>2 DEF ExitIsShown
      <4>2. clock - ghosts[e.pid].since < Lasts
        <5>1. ghosts[e.pid].since = e.at
          BY <4>1
        <5>2. Lasts \in Int
          BY SceneAssumption DEF SceneAssumption
        <5> QED
          BY <1>5, <3>1, <3>2, <5>1, <5>2
      <4> QED
        BY <4>1, <4>2, DyingIs
    <3> QED
      BY <2>1, <3>1, <3>2
  <2>3. CASE e \in Found
    <3>1. PICK p \in DOMAIN layout \ DOMAIN graph :
            e = [pid |-> p, place |-> layout[p], at |-> clock, again |-> p \in DOMAIN ghosts]
      BY <2>3 DEF Found
    <3>2. e.pid = p /\ e.place = layout[p] /\ e.at = clock /\ (e.again <=> p \in DOMAIN ghosts)
      BY <3>1
    <3>3. p \notin DOMAIN ghosts => p \in DOMAIN Dying /\ Dying[p] = [place |-> layout[p], since |-> clock]
      BY DyingIs
    <3> QED
      BY <1>5, <2>1, <3>2, <3>3
  <2> QED
    BY <1>1, <2>2, <2>3
<1>14. SceneInv'
  <2>1. Viewed'
    BY <1>1, <1>5 DEF Viewed
  <2>2. IsFiniteSet(DOMAIN graph) /\ DOMAIN graph \subseteq ScenePids
    BY <1>5, GraphIs
  <2>3. /\ layout' \in [DOMAIN layout' -> Points] /\ IsFiniteSet(DOMAIN layout')
        /\ DOMAIN layout' \subseteq ScenePids
    BY <1>3, <1>7, <2>2
  <2> QED
    BY <1>1, <1>8, <1>13, <2>1, <2>3 DEF SceneInv
<1> QED
  BY <1>1, <1>3, <1>12, <1>13, <1>14 DEF SceneStep, ShowsTheWorld

LEMMA StepScene == SceneInv /\ [SceneNext]_sceneVars => SceneStep
<1> SUFFICES ASSUME SceneInv, [SceneNext]_sceneVars PROVE SceneStep
  OBVIOUS
<1>1. /\ graph \in Worlds /\ clock \in Int /\ camera.centre \in Points /\ camera.distance \in Int
      /\ camera \in [centre : Points, distance : Int]
  BY DEF SceneInv, Viewed
<1>2. Origin \in Points /\ NearLimit \in Int /\ FarLimit \in Int
  BY SceneAssumption DEF SceneAssumption, Points
<1>3. CASE GraphChanges
  <2>1. Viewed'
    BY <1>1, <1>3 DEF GraphChanges, Viewed
  <2> QED
    BY <1>1, <1>3, <2>1, LeavesTheCanvas DEF GraphChanges
<1>4. CASE TimePasses
  <2>1. Viewed' /\ clock' >= clock
    BY <1>1, <1>4 DEF TimePasses, Viewed
  <2> QED
    BY <1>4, <2>1, LeavesTheCanvas DEF TimePasses
<1>5. ASSUME NEW width \in Widths, Render(width) PROVE SceneStep
  BY <1>5, RenderIs
<1>6. CASE Zoom
  <2>1. PICK delta \in {-1, 1} :
          camera' = [camera EXCEPT !.distance = Greater(NearLimit, Lesser(FarLimit, @ + delta))]
    BY <1>6 DEF Zoom
  <2>2. Greater(NearLimit, Lesser(FarLimit, camera.distance + delta)) \in Int
    BY <1>1, <1>2 DEF Greater, Lesser
  <2>3. camera' \in [centre : Points, distance : Int]
    BY <1>1, <2>1, <2>2
  <2>4. Viewed' /\ clock' >= clock
    BY <1>1, <1>6, <2>3 DEF Zoom, Viewed
  <2> QED
    BY <1>6, <2>4, LeavesTheCanvas DEF Zoom
<1>7. CASE Centre
  <2>1. ASSUME \E p \in DOMAIN layout : camera' = [camera EXCEPT !.centre = layout[p]]
        PROVE  camera' \in [centre : Points, distance : Int]
    <3>1. PICK p \in DOMAIN layout : camera' = [camera EXCEPT !.centre = layout[p]]
      BY <2>1
    <3>2. layout[p] \in Points
      BY DEF SceneInv
    <3> QED
      BY <1>1, <3>1, <3>2
  <2>2. ASSUME DOMAIN layout # {}, camera' = [camera EXCEPT !.centre = <<Average(1), Average(2)>>]
        PROVE  camera' \in [centre : Points, distance : Int]
    <3>1. <<Average(1), Average(2)>> \in Points
      BY <2>2, AverageType DEF Points
    <3> QED
      BY <1>1, <2>2, <3>1
  <2>3. camera' \in [centre : Points, distance : Int]
    BY <1>7, <2>1, <2>2 DEF Centre
  <2>4. Viewed' /\ clock' >= clock
    BY <1>1, <1>7, <2>3 DEF Centre, Viewed
  <2> QED
    BY <1>7, <2>4, LeavesTheCanvas DEF Centre
<1>8. CASE Reset
  <2>1. Viewed' /\ clock' >= clock
    BY <1>1, <1>2, <1>8 DEF Reset, Viewed, DefaultCamera
  <2> QED
    BY <1>8, <2>1, LeavesTheCanvas DEF Reset
<1>9. CASE UNCHANGED sceneVars
  <2>1. Viewed' /\ clock' >= clock
    BY <1>1, <1>9 DEF sceneVars, Viewed
  <2> QED
    BY <1>9, <2>1, LeavesTheCanvas DEF sceneVars
<1> QED
  BY <1>3, <1>4, <1>5, <1>6, <1>7, <1>8, <1>9 DEF SceneNext

\* Each dot of a frame is of the nearest thing that this frame has there, of nothing
\* that an earlier one had; and a process that is gone dies where it was last shown,
\* for its 500 ms.  The depths of whatever is painted compare, because the layout has
\* a place for every process of the graph by then.
THEOREM TheFrameIsTheWorld == SceneSpec => FrameShowsTheWorld
<1>1. SceneInv /\ [SceneNext]_sceneVars => SceneInv' /\ ShowsTheWorld
  BY StepScene DEF SceneStep
<1>2. QED
  BY <1>1, InitScene, PTL DEF SceneSpec, FrameShowsTheWorld
=============================================================================
