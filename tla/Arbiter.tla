------------------------------- MODULE Arbiter -------------------------------
(***************************************************************************)
(* The shared arbiter queue (aether-core/src/arbiter.rs) and the tasks     *)
(* around it: whoever submits actions (the MCP tool, the gRPC service, the *)
(* web page's "execute diagnostic", the rule engine's forwarder), the      *)
(* humans who approve or deny them by id over REST or WebSocket, and the   *)
(* executor task of aether-terminal/src/main.rs, which every 500 ms drains *)
(* the approved actions under the queue's mutex and runs them after it has *)
(* released the mutex.                                                     *)
(*                                                                         *)
(* Every handler holds the mutex for its whole body, so it is one action   *)
(* here; the executor does not, so its drain and each of its executions    *)
(* are separate actions.  An entry of the queue is represented by its      *)
(* UUID.  The history vector is kept as its two subsequences, the approved *)
(* and the denied entries: the only production code that reads it,         *)
(* drain_approved, splits it that way and nothing reads the interleaving.  *)
(***************************************************************************)
EXTENDS Naturals, Sequences, SequencesExt

CONSTANT Ids            \* the UUIDs that enqueue can draw

VARIABLES
  pending,              \* ArbiterQueue.pending: the entries awaiting a human
  approved,             \* the entries of ArbiterQueue.history marked true
  denied,               \* the entries of ArbiterQueue.history marked false
  batch,                \* what the executor has drained and not yet run
  executorUp,           \* the executor's loop has not been left
  cancelled,            \* the root cancellation token
  executed,             \* history: the actions run, in order
  okApprove,            \* history: the ids whose approval was answered Ok
  okDeny                \* history: the ids whose denial was answered Ok

queue == <<pending, approved, denied>>
replies == <<okApprove, okDeny>>
vars == <<pending, approved, denied, batch, executorUp, cancelled,
          executed, okApprove, okDeny>>

Init ==
  /\ pending = <<>> /\ approved = <<>> /\ denied = <<>>
  /\ batch = <<>>
  /\ executorUp = TRUE
  /\ cancelled = FALSE
  /\ executed = <<>>
  /\ okApprove = <<>> /\ okDeny = <<>>
-----------------------------------------------------------------------------
(* The history variables okApprove and okDeny are the sequences of the    *)
(* answers given to the humans, in the order in which they were given.     *)

Submitted == ToSet(pending) \cup ToSet(okApprove) \cup ToSet(okDeny)

\* ArbiterQueue::enqueue, by whichever surface: a fresh UUID joins the end.
Enqueue(a) ==
  /\ a \notin Submitted
  /\ pending' = Append(pending, a)
  /\ UNCHANGED <<approved, denied, batch, executorUp, cancelled, executed, replies>>

\* A human names an id that was submitted some time ago: the page that shows
\* it may be stale, so the id need not be pending any more.  Only an id found
\* in the pending vector leaves it; otherwise the answer is "not found" and
\* nothing changes.
PositionOf(a) == CHOOSE i \in DOMAIN pending : pending[i] = a

\* Mutant: the entry is cloned into the history and left in the queue.
ApproveKeepsPending(a) ==
  /\ a \in ToSet(pending)
  /\ approved' = Append(approved, a)
  /\ okApprove' = Append(okApprove, a)
  /\ UNCHANGED <<pending, denied, batch, executorUp, cancelled, executed, okDeny>>

Approve(a) ==
  /\ a \in ToSet(pending)
  /\ pending' = RemoveAt(pending, PositionOf(a))
  /\ approved' = Append(approved, a)
  /\ okApprove' = Append(okApprove, a)
  /\ UNCHANGED <<denied, batch, executorUp, cancelled, executed, okDeny>>

Deny(a) ==
  /\ a \in ToSet(pending)
  /\ pending' = RemoveAt(pending, PositionOf(a))
  /\ denied' = Append(denied, a)
  /\ okDeny' = Append(okDeny, a)
  /\ UNCHANGED <<approved, batch, executorUp, cancelled, executed, okApprove>>

\* Mutants of the drain: the history is copied and not drained; the flag is
\* ignored.
DrainCopies ==
  /\ executorUp /\ batch = <<>> /\ approved # <<>>
  /\ batch' = approved
  /\ UNCHANGED <<queue, executorUp, cancelled, executed, replies>>

DrainTakesDenied ==
  /\ executorUp /\ batch = <<>> /\ approved # <<>>
  /\ batch' = approved \o denied
  /\ approved' = <<>> /\ denied' = <<>>
  /\ UNCHANGED <<pending, executorUp, cancelled, executed, replies>>

\* The executor's tick, with the mutex held: take every approved entry out of
\* the history and leave the denied ones.  A tick comes only when the previous
\* batch has been run to its end.
DrainApproved ==
  /\ executorUp
  /\ batch = <<>>
  /\ approved # <<>>
  /\ batch' = approved
  /\ approved' = <<>>
  /\ UNCHANGED <<pending, denied, executorUp, cancelled, executed, replies>>

\* Mutant: the task leaves the loop over the batch after the first action.
ExecuteFirstOnly ==
  /\ batch # <<>>
  /\ executed' = Append(executed, Head(batch))
  /\ batch' = <<>>
  /\ UNCHANGED <<queue, executorUp, cancelled, replies>>

\* execute_action on the next drained action, with the mutex released.
ExecuteAction ==
  /\ batch # <<>>
  /\ executed' = Append(executed, Head(batch))
  /\ batch' = Tail(batch)
  /\ UNCHANGED <<queue, executorUp, cancelled, replies>>

\* The terminal UI or the stdio transport returns and main cancels the token.
Cancel ==
  /\ ~cancelled
  /\ cancelled' = TRUE
  /\ UNCHANGED <<queue, batch, executorUp, executed, replies>>

\* select! sees the cancellation: it can do so only between two batches, for
\* the loop over a batch has no await.
ExecutorStops ==
  /\ executorUp /\ cancelled
  /\ batch = <<>>
  /\ executorUp' = FALSE
  /\ UNCHANGED <<queue, batch, cancelled, executed, replies>>

Next ==
  \/ \E a \in Ids : Enqueue(a) \/ Approve(a) \/ Deny(a)
  \/ DrainApproved \/ ExecuteAction
  \/ Cancel \/ ExecutorStops

Spec == Init /\ [][Next]_vars

\* The interval ticks for ever and the runtime polls the executor's task.
Fairness ==
  /\ WF_vars(DrainApproved)
  /\ WF_vars(ExecuteAction)
  /\ WF_vars(ExecutorStops)

FairSpec == Spec /\ Fairness
-----------------------------------------------------------------------------
TypeOK ==
  /\ pending \in Seq(Ids) /\ approved \in Seq(Ids) /\ denied \in Seq(Ids)
  /\ batch \in Seq(Ids)
  /\ executorUp \in BOOLEAN /\ cancelled \in BOOLEAN
  /\ executed \in Seq(Ids)
  /\ okApprove \in Seq(Ids) /\ okDeny \in Seq(Ids)

\* Nothing approved is lost, repeated or overtaken: what has been run, what
\* the executor has in hand and what it has still to drain are together the
\* approvals that were answered Ok, in their order.
ApprovalsConserved == executed \o batch \o approved = okApprove

\* The race of two humans over one action: at most one of their decisions is
\* answered Ok, and it is final; an undecided action has no answer at all.
OneVerdict ==
  /\ IsInjective(okApprove) /\ IsInjective(okDeny) /\ IsInjective(pending)
  /\ ToSet(okApprove) \cap ToSet(okDeny) = {}
  /\ ToSet(pending) \cap (ToSet(okApprove) \cup ToSet(okDeny)) = {}

\* An action that a human denied is never run, one that is still waiting has
\* not been run, and no action is run twice.
OnlyApprovedExecuted ==
  /\ ToSet(executed) \cap (ToSet(okDeny) \cup ToSet(pending)) = {}
  /\ IsInjective(executed)

\* drain_approved leaves the denied entries in the history, in order.
DenialsKept == denied = okDeny

\* What has been drained is out of the queue, so it would be lost if the task
\* were left before running it: the executor never stops over a batch.
BatchNeverAbandoned == batch # <<>> => executorUp

\* An approval that was answered Ok is carried out, unless the program is
\* shut down before the executor's next tick.
ApprovedIsExecuted ==
  \A a \in Ids : a \in ToSet(okApprove) ~> (a \in ToSet(executed) \/ cancelled)

\* Where an action stands, in the words of ActionApproval.
StatusOf(a) ==
  CASE a \in ToSet(executed) -> "executed"
    [] a \in ToSet(batch) \cup ToSet(approved) -> "approved"
    [] a \in ToSet(denied) -> "denied"
    [] a \in ToSet(pending) -> "pending"
    [] OTHER -> "unknown"

Approval == INSTANCE ActionApproval WITH
  status <- [a \in Ids |-> StatusOf(a)],
  effects <- executed,
  stopped <- ~executorUp

\* The queue and its tasks keep the promise of ActionApproval: asked for, then
\* decided once, then carried out in the order of the approvals.
ImplementsApproval == Approval!Spec

\* They keep it with its fairness: an approved action does not wait for ever
\* while the executor runs.
ImplementsFairApproval == Approval!FairSpec
=============================================================================
