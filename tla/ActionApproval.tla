--------------------------- MODULE ActionApproval ---------------------------
(***************************************************************************)
(* What the arbiter of Aether Terminal promises, with no queue, lock or    *)
(* task in sight: an action that somebody asks for takes effect only after *)
(* a human has approved it, at most once, in the order of the approvals,   *)
(* and a denied action never takes effect.  Once the program is asked to   *)
(* shut down, approved actions may be left undone.                         *)
(***************************************************************************)
EXTENDS Naturals, Sequences

CONSTANT Ids            \* the identities of the actions that can be asked for

VARIABLES
  status,               \* where each action stands
  effects,              \* the actions that took effect, in order
  stopped               \* the executor is gone: nothing takes effect any more

vars == <<status, effects, stopped>>

Status == {"unknown", "pending", "approved", "denied", "executed"}

TypeOK ==
  /\ status \in [Ids -> Status]
  /\ effects \in Seq(Ids)
  /\ stopped \in BOOLEAN

Init ==
  /\ status = [a \in Ids |-> "unknown"]
  /\ effects = <<>>
  /\ stopped = FALSE

Move(a, from, to) ==
  /\ status[a] = from
  /\ status' = [status EXCEPT ![a] = to]

Ask(a)     == Move(a, "unknown", "pending") /\ UNCHANGED <<effects, stopped>>
Approve(a) == Move(a, "pending", "approved") /\ UNCHANGED <<effects, stopped>>
Deny(a)    == Move(a, "pending", "denied") /\ UNCHANGED <<effects, stopped>>

TakeEffect(a) ==
  /\ ~stopped
  /\ Move(a, "approved", "executed")
  /\ effects' = Append(effects, a)
  /\ UNCHANGED stopped

Stop == ~stopped /\ stopped' = TRUE /\ UNCHANGED <<status, effects>>

Next ==
  \/ \E a \in Ids : Ask(a) \/ Approve(a) \/ Deny(a) \/ TakeEffect(a)
  \/ Stop

Spec == Init /\ [][Next]_vars

\* An approved action is not left waiting while the program runs.
FairSpec == Spec /\ \A a \in Ids : WF_vars(TakeEffect(a))
=============================================================================
