---------------------------- MODULE ArbiterProofs ----------------------------
(***************************************************************************)
(* Proofs about Arbiter for every set Ids of action identities.            *)
(***************************************************************************)
EXTENDS Arbiter, SequenceTheorems, TLAPS

\* enqueue and the answers: appending adds one element to the set of elements,
\* and a new one repeats nothing.
LEMMA AppendElements ==
  ASSUME NEW S, NEW s \in Seq(S), NEW x \in S
  PROVE  /\ ToSet(Append(s, x)) = ToSet(s) \cup {x}
         /\ IsInjective(s) /\ x \notin ToSet(s) => IsInjective(Append(s, x))
  BY DEF ToSet, IsInjective

\* approve and deny: removing an index of a sequence without repetitions takes
\* away that one element.
LEMMA RemoveElements ==
  ASSUME NEW S, NEW s \in Seq(S), NEW i \in DOMAIN s, IsInjective(s)
  PROVE  /\ RemoveAt(s, i) \in Seq(S)
         /\ IsInjective(RemoveAt(s, i))
         /\ ToSet(RemoveAt(s, i)) = ToSet(s) \ {s[i]}
<1> DEFINE r == RemoveAt(s, i)
<1>1. /\ r \in Seq(S)
      /\ Len(r) = Len(s) - 1
      /\ \A k \in 1 .. Len(r) : r[k] = IF k < i THEN s[k] ELSE s[k + 1]
  <2> DEFINE u == SubSeq(s, 1, i - 1)
             v == SubSeq(s, i + 1, Len(s))
  <2>1. i \in 1 .. Len(s) /\ \A k \in 1 .. Len(s) : s[k] \in S
    OBVIOUS
  <2>2. /\ u \in Seq(S) /\ Len(u) = i - 1
        /\ \A k \in 1 .. i - 1 : u[k] = s[k]
    BY <2>1, SubSeqProperties
  <2>3. /\ v \in Seq(S) /\ Len(v) = Len(s) - i
        /\ \A k \in 1 .. Len(s) - i : v[k] = s[i + k]
    BY <2>1, SubSeqProperties
  <2>4. r = u \o v
    BY DEF RemoveAt
  <2> HIDE DEF r, u, v
  <2>5. /\ u \o v \in Seq(S) /\ Len(u \o v) = Len(s) - 1
        /\ \A k \in 1 .. Len(s) - 1 :
              (u \o v)[k] = IF k <= Len(u) THEN u[k] ELSE v[k - Len(u)]
    <3>1. /\ u \o v \in Seq(S) /\ Len(u \o v) = Len(u) + Len(v)
          /\ \A k \in 1 .. Len(u) + Len(v) :
                (u \o v)[k] = IF k <= Len(u) THEN u[k] ELSE v[k - Len(u)]
      BY <2>2, <2>3, ConcatProperties, Zenon
    <3>2. Len(u) + Len(v) = Len(s) - 1
      BY <2>1, <2>2, <2>3
    <3>3. QED BY <3>1, <3>2, Zenon
  <2>6. ASSUME NEW k \in 1 .. Len(s) - 1
        PROVE  (u \o v)[k] = IF k < i THEN s[k] ELSE s[k + 1]
    <3>1. CASE k < i
      BY <2>1, <2>2, <2>5, <3>1
    <3>2. CASE ~(k < i)
      <4>1. (u \o v)[k] = v[k - Len(u)]
        BY <2>1, <2>2, <2>5, <3>2
      <4>2. k - Len(u) \in 1 .. Len(s) - i /\ i + (k - Len(u)) = k + 1
        BY <2>1, <2>2, <3>2
      <4>3. QED BY <2>3, <3>2, <4>1, <4>2
    <3>3. QED BY <3>1, <3>2
  <2>7. QED BY <2>4, <2>5, <2>6
<1>2. IsInjective(r)
  BY <1>1, SMTT(30) DEF IsInjective
<1>3. ASSUME NEW x \in ToSet(r) PROVE x \in ToSet(s) \ {s[i]}
  BY <1>1, <1>3, SMTT(30) DEF ToSet, IsInjective
<1>4. ASSUME NEW x \in ToSet(s) \ {s[i]} PROVE x \in ToSet(r)
  <2>1. PICK k \in 1 .. Len(s) : s[k] = x /\ k # i
    BY <1>4 DEF ToSet
  <2>2. CASE k < i
    BY <2>1, <2>2, <1>1 DEF ToSet
  <2>3. CASE k > i
    <3>1. k - 1 \in 1 .. Len(r) /\ r[k - 1] = x
      BY <2>1, <2>3, <1>1
    <3>2. QED BY <3>1, <1>1 DEF ToSet
  <2>4. QED BY <2>1, <2>2, <2>3
<1>5. QED BY <1>1, <1>2, <1>3, <1>4

\* The executor's next action: the tail of a sequence without repetitions has
\* all of its elements but the head.
LEMMA TailElements ==
  ASSUME NEW S, NEW s \in Seq(S), s # <<>>, IsInjective(s)
  PROVE  ToSet(Tail(s)) = ToSet(s) \ {Head(s)}
<1> DEFINE t == Tail(s)
<1>1. /\ Len(t) = Len(s) - 1 /\ t \in Seq(S) /\ Head(s) = s[1]
      /\ \A k \in 1 .. Len(t) : t[k] = s[k + 1]
  BY HeadTailProperties
<1> HIDE DEF t
<1>2. ASSUME NEW x \in ToSet(t) PROVE x \in ToSet(s) \ {s[1]}
  BY <1>1, <1>2, SMTT(30) DEF ToSet, IsInjective
<1>3. ASSUME NEW x \in ToSet(s) \ {s[1]} PROVE x \in ToSet(t)
  <2>1. PICK k \in 1 .. Len(s) : s[k] = x /\ k # 1
    BY <1>3 DEF ToSet
  <2>2. k - 1 \in 1 .. Len(t) /\ t[k - 1] = x
    BY <1>1, <2>1
  <2>3. QED BY <1>1, <2>2 DEF ToSet
<1>4. QED BY <1>1, <1>2, <1>3 DEF t

\* The elements of a concatenation are those of its parts; when it repeats
\* none, neither do the parts, and they have none in common.
LEMMA ConcatElements ==
  ASSUME NEW S, NEW s \in Seq(S), NEW t \in Seq(S)
  PROVE  /\ ToSet(s) \subseteq ToSet(s \o t)
         /\ ToSet(t) \subseteq ToSet(s \o t)
         /\ IsInjective(s \o t) => IsInjective(s)
         /\ IsInjective(s \o t) => ToSet(s) \cap ToSet(t) = {}
<1>1. \A k \in 1 .. Len(s) : k \in DOMAIN (s \o t) /\ (s \o t)[k] = s[k]
  OBVIOUS
<1>2. \A k \in 1 .. Len(t) : Len(s) + k \in DOMAIN (s \o t) /\ (s \o t)[Len(s) + k] = t[k]
  OBVIOUS
<1>3. s \o t \in Seq(S) /\ Len(s \o t) = Len(s) + Len(t)
  OBVIOUS
<1>4. ASSUME NEW x \in ToSet(s) PROVE x \in ToSet(s \o t)
  BY <1>1, <1>4 DEF ToSet
<1>5. ASSUME NEW x \in ToSet(t) PROVE x \in ToSet(s \o t)
  <2>1. PICK k \in 1 .. Len(t) : t[k] = x
    BY <1>5 DEF ToSet
  <2>2. QED BY <1>2, <2>1 DEF ToSet
<1>6. ASSUME IsInjective(s \o t) PROVE IsInjective(s)
  BY <1>1, <1>6 DEF IsInjective
<1>7. ASSUME IsInjective(s \o t), NEW j \in 1 .. Len(s), NEW k \in 1 .. Len(t)
      PROVE  s[j] # t[k]
  BY <1>1, <1>2, <1>7 DEF IsInjective
<1>8. ASSUME IsInjective(s \o t) PROVE ToSet(s) \cap ToSet(t) = {}
  BY <1>7, <1>8 DEF ToSet
<1>9. QED BY <1>4, <1>5, <1>6, <1>8

\* Appending to the second part of a concatenation appends to the whole.
LEMMA ConcatAppend ==
  ASSUME NEW S, NEW s \in Seq(S), NEW t \in Seq(S), NEW x \in S
  PROVE  s \o Append(t, x) = Append(s \o t, x)
<1> DEFINE one == <<x>>
<1>1. one \in Seq(S) /\ s \o t \in Seq(S)
  OBVIOUS
<1>2. Append(t, x) = t \o one /\ Append(s \o t, x) = (s \o t) \o one
  BY <1>1, AppendIsConcat
<1> HIDE DEF one
<1>3. (s \o t) \o one = s \o (t \o one)
  BY <1>1, ConcatAssociative, SMTT(30)
<1>4. QED BY <1>2, <1>3

\* iter().position finds the entry of an id that is pending.
LEMMA PositionInPending ==
  ASSUME NEW a \in ToSet(pending)
  PROVE  PositionOf(a) \in DOMAIN pending /\ pending[PositionOf(a)] = a
  BY DEF ToSet, PositionOf
-----------------------------------------------------------------------------
\* Every variable keeps its type: the vectors of arbiter.rs hold entries that
\* enqueue made, and so do the batch and the answers.
THEOREM TypeCorrect == Spec => []TypeOK
<1>1. Init => TypeOK
  <2>1. <<>> \in Seq(Ids)
    OBVIOUS
  <2>2. QED BY <2>1 DEF Init, TypeOK
<1>2. TypeOK /\ [Next]_vars => TypeOK'
  <2> SUFFICES ASSUME TypeOK, [Next]_vars PROVE TypeOK'
    OBVIOUS
  <2> USE DEF TypeOK, queue, replies
  <2>1. ASSUME NEW a \in Ids, Enqueue(a) PROVE TypeOK'
    BY <2>1 DEF Enqueue
  <2>2. ASSUME NEW a \in Ids, a \in ToSet(pending)
        PROVE  RemoveAt(pending, PositionOf(a)) \in Seq(Ids)
    <3>1. PositionOf(a) \in 1 .. Len(pending)
      BY <2>2, PositionInPending
    <3>2. /\ SubSeq(pending, 1, PositionOf(a) - 1) \in Seq(Ids)
          /\ SubSeq(pending, PositionOf(a) + 1, Len(pending)) \in Seq(Ids)
      BY <3>1, SMTT(30)
    <3>3. QED BY <3>2 DEF RemoveAt
  <2>3. ASSUME NEW a \in Ids, Approve(a) PROVE TypeOK'
    BY <2>2, <2>3 DEF Approve
  <2>4. ASSUME NEW a \in Ids, Deny(a) PROVE TypeOK'
    BY <2>2, <2>4 DEF Deny
  <2>5. CASE DrainApproved
    BY <2>5 DEF DrainApproved
  <2>6. CASE ExecuteAction
    BY <2>6 DEF ExecuteAction
  <2>7. CASE Cancel
    BY <2>7 DEF Cancel
  <2>8. CASE ExecutorStops
    BY <2>8 DEF ExecutorStops
  <2>9. CASE UNCHANGED vars
    BY <2>9 DEF vars
  <2>10. QED
    BY <2>1, <2>3, <2>4, <2>5, <2>6, <2>7, <2>8, <2>9 DEF Next
<1>3. QED BY <1>1, <1>2, PTL DEF Spec

\* Every approval that a human was told is Ok is run, in the executor's hands
\* or still to be drained: approve, drain_approved and the executor's loop
\* neither lose, nor repeat, nor reorder one.
THEOREM ApprovalsAreConserved == Spec => []ApprovalsConserved
<1>1. Init => ApprovalsConserved
  BY DEF Init, ApprovalsConserved
<1>2. TypeOK /\ ApprovalsConserved /\ [Next]_vars => ApprovalsConserved'
  <2> SUFFICES ASSUME TypeOK, ApprovalsConserved, [Next]_vars
               PROVE  ApprovalsConserved'
    OBVIOUS
  <2> USE DEF ApprovalsConserved, queue, replies
  <2>1. ASSUME NEW a \in Ids, Enqueue(a) PROVE ApprovalsConserved'
    BY <2>1 DEF Enqueue
  <2>2. ASSUME NEW a \in Ids, Approve(a) PROVE ApprovalsConserved'
    <3> DEFINE taken == executed \o batch
    <3>1. taken \in Seq(Ids) /\ approved \in Seq(Ids)
      BY DEF TypeOK
    <3> HIDE DEF taken
    <3>2. taken \o Append(approved, a) = Append(taken \o approved, a)
      BY <3>1, ConcatAppend
    <3>3. QED BY <2>2, <3>2 DEF Approve, taken
  <2>3. ASSUME NEW a \in Ids, Deny(a) PROVE ApprovalsConserved'
    BY <2>3 DEF Deny
  <2>4. CASE DrainApproved
    <3>1. /\ (executed \o <<>>) \o approved = executed \o approved
          /\ (executed \o approved) \o <<>> = executed \o approved
      BY ConcatEmptySeq DEF TypeOK
    <3>2. QED BY <2>4, <3>1 DEF DrainApproved
  <2>5. CASE ExecuteAction
    <3>1. Append(executed, Head(batch)) \o Tail(batch) = executed \o batch
      <4>1. /\ batch # <<>> /\ executed \in Seq(Ids) /\ batch \in Seq(Ids)
            /\ Head(batch) \in Ids /\ Tail(batch) \in Seq(Ids)
        BY <2>5 DEF ExecuteAction, TypeOK
      <4>2. batch = <<Head(batch)>> \o Tail(batch)
        BY <4>1
      <4>3. Append(executed, Head(batch)) = executed \o <<Head(batch)>>
        BY <4>1, AppendIsConcat
      <4>4. <<Head(batch)>> \in Seq(Ids)
        BY <4>1
      <4>5. (executed \o <<Head(batch)>>) \o Tail(batch)
              = executed \o (<<Head(batch)>> \o Tail(batch))
        BY <4>1, <4>4, ConcatAssociative
      <4>6. QED BY <4>2, <4>3, <4>5
    <3>2. QED BY <2>5, <3>1 DEF ExecuteAction
  <2>6. CASE Cancel
    BY <2>6 DEF Cancel
  <2>7. CASE ExecutorStops
    BY <2>7 DEF ExecutorStops
  <2>8. CASE UNCHANGED vars
    BY <2>8 DEF vars
  <2>9. QED
    BY <2>1, <2>2, <2>3, <2>4, <2>5, <2>6, <2>7, <2>8 DEF Next
<1>3. QED BY <1>1, <1>2, TypeCorrect, PTL DEF Spec
-----------------------------------------------------------------------------
\* An action gets at most one verdict, whoever races for it, and loses its
\* place among the pending actions with it: approve and deny look the id up
\* and remove the entry under one lock, and enqueue draws fresh UUIDs.
THEOREM EachActionHasOneVerdict == Spec => []OneVerdict
<1>1. Init => OneVerdict
  BY DEF Init, OneVerdict, ToSet, IsInjective
<1>2. TypeOK /\ OneVerdict /\ [Next]_vars => OneVerdict'
  <2> SUFFICES ASSUME TypeOK, OneVerdict, [Next]_vars PROVE OneVerdict'
    OBVIOUS
  <2>1. ASSUME NEW a \in Ids, Enqueue(a) PROVE OneVerdict'
    <3>1. /\ ToSet(pending') = ToSet(pending) \cup {a}
          /\ IsInjective(pending')
      BY <2>1, AppendElements DEF Enqueue, Submitted, TypeOK, OneVerdict
    <3>2. QED BY <2>1, <3>1 DEF Enqueue, Submitted, OneVerdict, replies
  <2>2. ASSUME NEW a \in Ids, a \in ToSet(pending),
               pending' = RemoveAt(pending, PositionOf(a))
        PROVE  ToSet(pending') = ToSet(pending) \ {a} /\ IsInjective(pending')
    BY <2>2, PositionInPending, RemoveElements DEF TypeOK, OneVerdict
  <2>3. ASSUME NEW a \in Ids, Approve(a) PROVE OneVerdict'
    <3>1. ToSet(okApprove') = ToSet(okApprove) \cup {a} /\ IsInjective(okApprove')
      BY <2>3, AppendElements DEF Approve, TypeOK, OneVerdict
    <3>2. QED BY <2>2, <2>3, <3>1 DEF Approve, OneVerdict
  <2>4. ASSUME NEW a \in Ids, Deny(a) PROVE OneVerdict'
    <3>1. ToSet(okDeny') = ToSet(okDeny) \cup {a} /\ IsInjective(okDeny')
      BY <2>4, AppendElements DEF Deny, TypeOK, OneVerdict
    <3>2. QED BY <2>2, <2>4, <3>1 DEF Deny, OneVerdict
  <2>5. CASE DrainApproved \/ ExecuteAction \/ Cancel \/ ExecutorStops \/ UNCHANGED vars
    <3>1. UNCHANGED <<pending, okApprove, okDeny>>
      BY <2>5 DEF DrainApproved, ExecuteAction, Cancel, ExecutorStops, vars, queue, replies
    <3>2. QED BY <3>1 DEF OneVerdict
  <2>6. QED BY <2>1, <2>3, <2>4, <2>5 DEF Next
<1>3. QED BY <1>1, <1>2, TypeCorrect, PTL DEF Spec

\* drain_approved puts back every denied entry that it met.
THEOREM DenialsAreKept == Spec => []DenialsKept
<1>1. Init => DenialsKept
  BY DEF Init, DenialsKept
<1>2. DenialsKept /\ [Next]_vars => DenialsKept'
  BY DEF DenialsKept, Next, vars, queue, replies, Enqueue, Approve, Deny,
         DrainApproved, ExecuteAction, Cancel, ExecutorStops
<1>3. QED BY <1>1, <1>2, PTL DEF Spec

\* The executor is cancelled only between two batches.
THEOREM BatchesAreNeverAbandoned == Spec => []BatchNeverAbandoned
<1>1. Init => BatchNeverAbandoned
  BY DEF Init, BatchNeverAbandoned
<1>2. BatchNeverAbandoned /\ [Next]_vars => BatchNeverAbandoned'
  BY DEF BatchNeverAbandoned, Next, vars, queue, replies, Enqueue, Approve, Deny,
         DrainApproved, ExecuteAction, Cancel, ExecutorStops
<1>3. QED BY <1>1, <1>2, PTL DEF Spec

\* The invariant that the rest follows from.
IInv ==
  /\ TypeOK /\ ApprovalsConserved /\ OneVerdict
  /\ DenialsKept /\ BatchNeverAbandoned

\* An action is in one place at a time: run, in the batch, waiting to be
\* drained, pending or denied.
LEMMA PlacesAreDisjoint ==
  ASSUME IInv
  PROVE  /\ IsInjective(executed) /\ IsInjective(batch)
         /\ ToSet(executed) \cap (ToSet(batch) \cup ToSet(approved)) = {}
         /\ ToSet(batch) \cap ToSet(approved) = {}
         /\ (ToSet(executed) \cup ToSet(batch) \cup ToSet(approved))
               \cap (ToSet(pending) \cup ToSet(denied)) = {}
         /\ ToSet(pending) \cap ToSet(denied) = {}
         /\ ToSet(executed) \cup ToSet(batch) \cup ToSet(approved) \subseteq ToSet(okApprove)
<1> DEFINE run == executed \o batch
<1>1. run \in Seq(Ids) /\ executed \in Seq(Ids) /\ batch \in Seq(Ids)
      /\ approved \in Seq(Ids)
  BY DEF IInv, TypeOK
<1>2. run \o approved = okApprove /\ IsInjective(okApprove)
  BY DEF IInv, ApprovalsConserved, OneVerdict
<1> HIDE DEF run
<1>3. /\ IsInjective(run) /\ ToSet(run) \cap ToSet(approved) = {}
      /\ ToSet(run) \subseteq ToSet(okApprove)
      /\ ToSet(approved) \subseteq ToSet(okApprove)
  BY <1>1, <1>2, ConcatElements
<1>4. /\ IsInjective(executed) /\ ToSet(executed) \cap ToSet(batch) = {}
      /\ ToSet(executed) \subseteq ToSet(run) /\ ToSet(batch) \subseteq ToSet(run)
  BY <1>1, <1>3, ConcatElements DEF run
<1>5. IsInjective(batch)
  <2>1. SUFFICES ASSUME NEW j \in 1 .. Len(batch), NEW k \in 1 .. Len(batch),
                        batch[j] = batch[k]
                 PROVE  j = k
    BY <1>1 DEF IsInjective
  <2>2. \A m \in 1 .. Len(batch) :
           Len(executed) + m \in DOMAIN run /\ run[Len(executed) + m] = batch[m]
    BY <1>1 DEF run
  <2>3. Len(executed) + j = Len(executed) + k
    BY <1>3, <2>1, <2>2 DEF IsInjective
  <2>4. QED BY <1>1, <2>3
<1>6. QED BY <1>3, <1>4, <1>5 DEF IInv, OneVerdict, DenialsKept

\* Every reachable state of the queue and its executor satisfies IInv.
LEMMA InvariantHolds == Spec => []IInv
  BY TypeCorrect, ApprovalsAreConserved, EachActionHasOneVerdict, DenialsAreKept,
     BatchesAreNeverAbandoned, PTL DEF IInv

\* No action is run that a human denied or has not looked at, and none twice.
THEOREM OnlyApprovedAreExecuted == Spec => []OnlyApprovedExecuted
<1>1. IInv => OnlyApprovedExecuted
  BY PlacesAreDisjoint DEF OnlyApprovedExecuted, IInv, DenialsKept
<1>2. QED BY <1>1, InvariantHolds, PTL
-----------------------------------------------------------------------------
\* The queue, its humans and its executor implement the promise made in
\* ActionApproval: each of their steps is a step of it or changes nothing
\* that it speaks of.
THEOREM ArbiterImplementsApproval == Spec => ImplementsApproval
<1> DEFINE st == [a \in Ids |-> StatusOf(a)]
<1>1. Init => Approval!Init
  BY DEF Init, Approval!Init, StatusOf, ToSet
<1>2. IInv /\ [Next]_vars => [Approval!Next]_(Approval!vars)
  <2> SUFFICES ASSUME IInv, [Next]_vars
               PROVE  [Approval!Next]_(Approval!vars)
    OBVIOUS
  <2> USE DEF queue, replies
  <2>1. TypeOK /\ OneVerdict /\ DenialsKept
    BY DEF IInv
  <2>2. ASSUME NEW a \in Ids, NEW to, st[a] # to,
               \A b \in Ids : StatusOf(b)' = IF b = a THEN to ELSE StatusOf(b)
        PROVE  st' = [st EXCEPT ![a] = to]
    BY <2>2
  <2>3. ASSUME NEW a \in Ids, Enqueue(a) PROVE Approval!Ask(a)
    <3>1. ToSet(pending') = ToSet(pending) \cup {a}
      BY <2>1, <2>3, AppendElements DEF Enqueue, TypeOK
    <3>2. a \notin ToSet(executed) \cup ToSet(batch) \cup ToSet(approved)
                   \cup ToSet(denied) \cup ToSet(pending)
      BY <2>1, <2>3, PlacesAreDisjoint DEF Enqueue, Submitted, DenialsKept
    <3>3. StatusOf(a) = "unknown"
      BY <3>2 DEF StatusOf
    <3>4. \A b \in Ids : StatusOf(b)' = IF b = a THEN "pending" ELSE StatusOf(b)
      BY <2>3, <3>1, <3>2 DEF Enqueue, StatusOf
    <3>5. QED BY <2>2, <2>3, <3>3, <3>4 DEF Enqueue, Approval!Ask, Approval!Move
  <2>4. ASSUME NEW a \in Ids, a \in ToSet(pending),
               pending' = RemoveAt(pending, PositionOf(a))
        PROVE  /\ ToSet(pending') = ToSet(pending) \ {a}
               /\ StatusOf(a) = "pending"
               /\ a \notin ToSet(executed) \cup ToSet(batch) \cup ToSet(approved)
                            \cup ToSet(denied)
    <3>1. ToSet(pending') = ToSet(pending) \ {a}
      BY <2>1, <2>4, PositionInPending, RemoveElements DEF TypeOK, OneVerdict
    <3>2. QED BY <2>4, <3>1, PlacesAreDisjoint DEF StatusOf
  <2>5. ASSUME NEW a \in Ids, Approve(a) PROVE Approval!Approve(a)
    <3>1. ToSet(approved') = ToSet(approved) \cup {a}
      BY <2>1, <2>5, AppendElements DEF Approve, TypeOK
    <3>2. /\ ToSet(pending') = ToSet(pending) \ {a}
          /\ StatusOf(a) = "pending"
          /\ a \notin ToSet(executed) \cup ToSet(denied)
      BY <2>4, <2>5 DEF Approve
    <3>3. \A b \in Ids : StatusOf(b)' = IF b = a THEN "approved" ELSE StatusOf(b)
      BY <2>5, <3>1, <3>2 DEF Approve, StatusOf
    <3>4. QED BY <2>2, <2>5, <3>2, <3>3 DEF Approve, Approval!Approve, Approval!Move
  <2>6. ASSUME NEW a \in Ids, Deny(a) PROVE Approval!Deny(a)
    <3>1. ToSet(denied') = ToSet(denied) \cup {a}
      BY <2>1, <2>6, AppendElements DEF Deny, TypeOK
    <3>2. /\ ToSet(pending') = ToSet(pending) \ {a}
          /\ StatusOf(a) = "pending"
          /\ a \notin ToSet(executed) \cup ToSet(batch) \cup ToSet(approved)
      BY <2>4, <2>6 DEF Deny
    <3>3. \A b \in Ids : StatusOf(b)' = IF b = a THEN "denied" ELSE StatusOf(b)
      BY <2>6, <3>1, <3>2 DEF Deny, StatusOf
    <3>4. QED BY <2>2, <2>6, <3>2, <3>3 DEF Deny, Approval!Deny, Approval!Move
  <2>7. CASE DrainApproved
    <3>1. ToSet(batch') \cup ToSet(approved') = ToSet(batch) \cup ToSet(approved)
      BY <2>7 DEF DrainApproved, ToSet
    <3>2. \A b \in Ids : StatusOf(b)' = StatusOf(b)
      BY <2>7, <3>1 DEF DrainApproved, StatusOf
    <3>3. QED BY <2>7, <3>2 DEF DrainApproved, Approval!vars
  <2>8. CASE ExecuteAction
    <3>0. Head(batch) \in Ids /\ Head(batch) \in ToSet(batch)
      BY <2>1, <2>8 DEF ExecuteAction, TypeOK, ToSet
    <3>1. PICK a \in Ids : a = Head(batch) /\ a \in ToSet(batch)
      BY <3>0
    <3>2. ToSet(executed') = ToSet(executed) \cup {a}
      BY <2>1, <2>8, <3>1, AppendElements DEF ExecuteAction, TypeOK
    <3>3. ToSet(batch) \ {a} = ToSet(batch')
      BY <2>1, <2>8, <3>1, TailElements, PlacesAreDisjoint DEF ExecuteAction, TypeOK
    <3>4. StatusOf(a) = "approved"
      BY <3>1, PlacesAreDisjoint DEF StatusOf
    <3>5. \A b \in Ids : StatusOf(b)' = IF b = a THEN "executed" ELSE StatusOf(b)
      <4>1. UNCHANGED <<pending, approved, denied>>
        BY <2>8 DEF ExecuteAction
      <4>2. StatusOf(a)' = "executed"
        <5>1. /\ a \notin ToSet(batch')
              /\ a \notin ToSet(approved) \cup ToSet(denied) \cup ToSet(pending)
          BY <3>1, <3>3, PlacesAreDisjoint
        <5>2. QED BY <3>2, <4>1, <5>1 DEF StatusOf
      <4>3. ASSUME NEW b \in Ids, b # a PROVE StatusOf(b)' = StatusOf(b)
        <5>1. /\ b \in ToSet(executed') <=> b \in ToSet(executed)
              /\ b \in ToSet(batch') <=> b \in ToSet(batch)
          BY <3>1, <3>2, <3>3, <4>3
        <5>2. QED BY <4>1, <5>1 DEF StatusOf
      <4>4. QED BY <4>2, <4>3
    <3>6. executorUp
      BY <2>8 DEF ExecuteAction, IInv, BatchNeverAbandoned
    <3>7. Approval!TakeEffect(a)
      BY <2>2, <2>8, <3>1, <3>4, <3>5, <3>6
         DEF ExecuteAction, Approval!TakeEffect, Approval!Move
    <3>8. QED BY <3>1, <3>7 DEF Approval!Next
  <2>9. CASE Cancel
    BY <2>9 DEF Cancel, Approval!vars, StatusOf
  <2>10. CASE ExecutorStops
    BY <2>1, <2>10 DEF ExecutorStops, Approval!Stop, Approval!Next, StatusOf, TypeOK
  <2>11. CASE UNCHANGED vars
    BY <2>11 DEF vars, Approval!vars, StatusOf
  <2>12. QED
    BY <2>3, <2>5, <2>6, <2>7, <2>8, <2>9, <2>10, <2>11 DEF Next, Approval!Next
<1>3. QED BY <1>1, <1>2, InvariantHolds, PTL DEF Spec, ImplementsApproval, Approval!Spec
=============================================================================
