------------------------------ MODULE MCArbiter ------------------------------
(* A small instance of Arbiter: three actions, in every order of events;    *)
(* and, in behaviours of their own, an event stream and a page's web socket *)
(* over which decisions reach the arbiter.                                  *)
EXTENDS Arbiter

CONSTANTS a1, a2, a3, e1, p1

MCIds == {a1, a2, a3}

VARIABLES part, stopped, server, peer, sender, queued, body, receiver, inbox, said, decided

streamVars == <<stopped, server, peer, sender, queued, body, receiver, inbox, said, decided>>

Open == INSTANCE Streams WITH
  cancelled <- stopped, queue <- queued,
  EventClients <- {e1}, WebPages <- {p1}, Room <- 1, MaxSaid <- 2

ASSUME Open!StreamsAssumption

\* The part that is not run stays at its initial state, where none of the steps that are
\* fair is possible.
MCInit == Init /\ Open!Init /\ part \in {"queue", "streams"}

MCNext == \/ part = "queue" /\ Next /\ UNCHANGED <<part, streamVars>>
          \/ part = "streams" /\ Open!Next /\ UNCHANGED <<part, vars>>

MCFairSpec ==
  MCInit /\ [][MCNext]_<<part, vars, streamVars>> /\ Fairness /\ Open!Fairness

\* Streams!StreamsServeAndEnd: tasks end with their clients, a client that reads is
\* served, decisions sent before a page closes are made, and the server ends.
StreamsServeAndEnd == Open!StreamsServeAndEnd
=============================================================================
