------------------------------- MODULE Streams -------------------------------
(***************************************************************************)
(* Connections that stay open: the event streams of the MCP server         *)
(* (aether-mcp/src/transport/sse.rs) and the web sockets of the pages      *)
(* (aether-web/src/ws.rs), from the connection of a client to the end of   *)
(* the tasks that serve it.                                                *)
(*                                                                         *)
(* What is on its way to a client waits in one queue: the channel of an    *)
(* event stream or the buffers of a page's socket.  A client may read, or  *)
(* stall for as long as it likes; it leaves in order or is lost.           *)
(***************************************************************************)
EXTENDS Integers, Sequences, SequencesExt

CONSTANTS
  EventClients,         \* clients of /mcp/sse
  WebPages,             \* clients of /ws
  Room,                 \* what waits for a client: 32 events, or the socket's buffers
  MaxSaid               \* bound: messages of a page

StreamsAssumption ==
  Room \in Nat \ {0} /\ MaxSaid \in Nat /\ EventClients \cap WebPages = {}

VARIABLES
  cancelled, server,    \* the token, and whether the MCP server still serves
  peer,                 \* what each client does
  sender,               \* the task that sends to it
  queue,                \* how much waits for it
  body,                 \* the response of an event stream
  receiver, inbox,      \* the task that reads what a page says, and what it has not read
  said, decided         \* history: what a page said, what the arbiter was asked for

conns == <<peer, sender, queue, body, receiver, inbox, said, decided>>
vars == <<cancelled, server, conns>>

Clients == EventClients \cup WebPages
Decisions == {"approve", "deny"}
Texts == Decisions \cup {"select"}

Init ==
  /\ cancelled = FALSE /\ server = "serves"
  /\ peer = [c \in Clients |-> "away"]
  /\ sender = [c \in Clients |-> "none"]
  /\ queue = [c \in Clients |-> 0]
  /\ body = [c \in EventClients |-> "none"]
  /\ receiver = [p \in WebPages |-> "none"]
  /\ inbox = [p \in WebPages |-> <<>>] /\ said = inbox /\ decided = inbox
-----------------------------------------------------------------------------
(* The clients and the network.                                            *)

\* sse_handler, ws_handler: tasks are spawned for the client.
Connects(c) ==
  /\ ~cancelled /\ peer[c] = "away"
  /\ peer' = [peer EXCEPT ![c] = "reads"]
  /\ sender' = [sender EXCEPT ![c] = "waits"]
  /\ body' = [d \in EventClients |-> IF d = c THEN "open" ELSE body[d]]
  /\ receiver' = [p \in WebPages |-> IF p = c THEN "waits" ELSE receiver[p]]
  /\ UNCHANGED <<cancelled, server, queue, inbox, said, decided>>

StallsOrResumes(c) ==
  /\ peer[c] \in {"reads", "stalls"}
  /\ peer' = [peer EXCEPT ![c] = IF @ = "reads" THEN "stalls" ELSE "reads"]
  /\ UNCHANGED <<cancelled, server, sender, queue, body, receiver, inbox, said, decided>>

Says(p, text) ==
  /\ peer[p] \in {"reads", "stalls"} /\ Len(said[p]) < MaxSaid
  /\ inbox' = [inbox EXCEPT ![p] = Append(@, text)]
  /\ said' = [said EXCEPT ![p] = Append(@, text)]
  /\ UNCHANGED <<cancelled, server, peer, sender, queue, body, receiver, decided>>

\* A page says that it closes.
Leaves(c) ==
  /\ peer[c] \in {"reads", "stalls"}
  /\ peer' = [peer EXCEPT ![c] = "left"]
  /\ inbox' = [p \in WebPages |-> IF p = c THEN Append(inbox[p], "close") ELSE inbox[p]]
  /\ UNCHANGED <<cancelled, server, sender, queue, body, receiver, said, decided>>

\* The connection breaks, and with it goes the end of what was not read.
IsLost(c) ==
  /\ peer[c] \in {"reads", "stalls", "left"}
  /\ peer' = [peer EXCEPT ![c] = "lost"]
  /\ \E n \in 0 .. (IF c \in WebPages THEN Len(inbox[c]) ELSE 0) :
       inbox' = [p \in WebPages |-> IF p = c THEN SubSeq(inbox[p], 1, n) ELSE inbox[p]]
  /\ UNCHANGED <<cancelled, server, sender, queue, body, receiver, said, decided>>

\* What waits is written to a client that reads.
Delivered(c) ==
  /\ peer[c] = "reads" /\ queue[c] > 0
  /\ queue' = [queue EXCEPT ![c] = @ - 1]
  /\ UNCHANGED <<cancelled, server, peer, sender, body, receiver, inbox, said, decided>>

\* The connection of an event stream ends and its response is dropped.
ResponseDropped(c) ==
  /\ body[c] = "open" /\ peer[c] \in {"left", "lost"}
  /\ body' = [body EXCEPT ![c] = "dropped"]
  /\ UNCHANGED <<cancelled, server, peer, sender, queue, receiver, inbox, said, decided>>
-----------------------------------------------------------------------------
(* The tasks that send.                                                    *)

\* The receiving half of the channel is gone, or the socket reports an error; a page
\* that has left is written to until its close has been read.
SendFails(c) == IF c \in EventClients THEN body[c] = "dropped" ELSE peer[c] = "lost"

\* The tick of the interval, and what is left of a send that had to wait.
Sends(c) ==
  /\ sender[c] \in {"waits", "sends"}
  /\ sender' = [sender EXCEPT ![c] = IF SendFails(c) THEN "ended"
                                    ELSE IF queue[c] < Room THEN "waits" ELSE "sends"]
  /\ queue' = [queue EXCEPT ![c] = IF ~SendFails(c) /\ @ < Room THEN @ + 1 ELSE @]
  /\ UNCHANGED <<cancelled, server, peer, body, receiver, inbox, said, decided>>

\* Only an event stream looks at the token, and not while it sends.
CancelSeen(c) ==
  /\ sender[c] = "waits" /\ cancelled
  /\ sender' = [sender EXCEPT ![c] = "ended"]
  /\ UNCHANGED <<cancelled, server, peer, queue, body, receiver, inbox, said, decided>>

\* The sending half of the channel is gone and the channel is empty.
ResponseEnds(c) ==
  /\ body[c] = "open" /\ sender[c] = "ended" /\ queue[c] = 0
  /\ body' = [body EXCEPT ![c] = "complete"]
  /\ UNCHANGED <<cancelled, server, peer, sender, queue, receiver, inbox, said, decided>>
-----------------------------------------------------------------------------
(* The tasks of a page.                                                    *)

\* recv_task, with handle_client_message on a text; the arbiter's answer is logged.
Receives(p) ==
  /\ receiver[p] = "waits" /\ inbox[p] # <<>>
  /\ inbox' = [inbox EXCEPT ![p] = Tail(@)]
  /\ receiver' = [receiver EXCEPT ![p] = IF Head(inbox[p]) = "close" THEN "ended" ELSE @]
  /\ decided' = [decided EXCEPT ![p] =
                   IF Head(inbox[p]) \in Decisions THEN Append(@, Head(inbox[p])) ELSE @]
  /\ UNCHANGED <<cancelled, server, peer, sender, queue, body, said>>

ReceiveFails(p) ==
  /\ receiver[p] = "waits" /\ inbox[p] = <<>> /\ peer[p] = "lost"
  /\ receiver' = [receiver EXCEPT ![p] = "ended"]
  /\ UNCHANGED <<cancelled, server, peer, sender, queue, body, inbox, said, decided>>

\* Mutant: the end of the receiver is not what the handler waits for.
AbortsReceiverOnly(p) ==
  /\ sender[p] = "ended" /\ receiver[p] = "waits"
  /\ receiver' = [receiver EXCEPT ![p] = "ended"]
  /\ UNCHANGED <<cancelled, server, peer, sender, queue, body, inbox, said, decided>>

\* handle_socket: whichever of the two ends first, the other is aborted where it awaits.
AbortsTheOther(p) ==
  /\ "ended" \in {sender[p], receiver[p]} /\ sender[p] # receiver[p]
  /\ sender' = [sender EXCEPT ![p] = "ended"]
  /\ receiver' = [receiver EXCEPT ![p] = "ended"]
  /\ UNCHANGED <<cancelled, server, peer, queue, body, inbox, said, decided>>
-----------------------------------------------------------------------------
(* The end.                                                                *)

Cancel ==
  /\ ~cancelled /\ cancelled' = TRUE
  /\ UNCHANGED <<server, conns>>

\* run_sse: no connection is accepted any more and the responses that are open are
\* waited for.  The web server does not wait for its pages: an upgraded connection
\* is not its own any more.
ServerEnds ==
  /\ cancelled /\ server = "serves"
  /\ \A c \in EventClients : body[c] # "open"
  /\ server' = "ended"
  /\ UNCHANGED <<cancelled, conns>>

\* main returns without waiting for a task, and the program may be started again.
Restarts ==
  /\ cancelled /\ cancelled' = FALSE /\ server' = "serves"
  /\ peer' = [c \in Clients |-> "away"]
  /\ sender' = [c \in Clients |-> "none"]
  /\ queue' = [c \in Clients |-> 0]
  /\ body' = [c \in EventClients |-> "none"]
  /\ receiver' = [p \in WebPages |-> "none"]
  /\ inbox' = [p \in WebPages |-> <<>>] /\ said' = inbox' /\ decided' = inbox'

Next ==
  \/ \E c \in Clients : Connects(c) \/ StallsOrResumes(c) \/ Leaves(c) \/ IsLost(c)
                          \/ Delivered(c) \/ Sends(c)
  \/ \E c \in EventClients : ResponseDropped(c) \/ CancelSeen(c) \/ ResponseEnds(c)
  \/ \E p \in WebPages : Receives(p) \/ ReceiveFails(p) \/ AbortsTheOther(p)
                           \/ \E text \in Texts : Says(p, text)
  \/ Cancel \/ ServerEnds \/ Restarts

\* The runtime polls every task that can go on, and the network writes to a client
\* that reads.  The ticks of a stream are five seconds apart, and in between only the
\* token can be ready: it is seen although sends come again and again.
Fairness ==
  /\ \A c \in Clients : WF_vars(Sends(c)) /\ WF_vars(Delivered(c))
  /\ \A c \in EventClients :
       WF_vars(ResponseDropped(c)) /\ SF_vars(CancelSeen(c)) /\ WF_vars(ResponseEnds(c))
  /\ \A p \in WebPages :
       WF_vars(Receives(p)) /\ WF_vars(ReceiveFails(p)) /\ WF_vars(AbortsTheOther(p))
  /\ WF_vars(ServerEnds)
-----------------------------------------------------------------------------
(* Properties.                                                             *)

\* A task outlives no client that left or was lost, whatever it was doing, and a client that
\* goes on reading is served however the others stall; every decision that a page sent
\* before it closed was brought to the arbiter, in order; and a server that is told to end
\* does, unless a client holds it up (sse.rs sse_handler, run_sse; ws.rs handle_socket).
StreamsServeAndEnd ==
  /\ \A c \in Clients :
       /\ peer[c] \in {"left", "lost"} ~>
            \/ sender[c] \in {"none", "ended"} /\ (c \in WebPages => receiver[c] \in {"none", "ended"})
            \/ peer[c] = "away"
       /\ <>[](peer[c] = "reads" /\ ~cancelled) => []<><<Delivered(c)>>_vars
  /\ \A p \in WebPages :
       [](receiver[p] = "ended" /\ peer[p] = "left" =>
            decided[p] = SelectSeq(said[p], LAMBDA text : text \in Decisions))
  /\ <>[](cancelled /\ \A c \in EventClients : peer[c] # "stalls") => <>(server = "ended")
=============================================================================
