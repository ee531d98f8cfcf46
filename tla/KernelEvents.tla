----------------------------- MODULE KernelEvents -----------------------------
(***************************************************************************)
(* Kernel telemetry (aether-ebpf, src/bpf): the probes that are attached   *)
(* all or none, the programs that run in the kernel and write what happens *)
(* into ring buffers, and the task that reads the rings of the process     *)
(* monitor into the channel of the bridge.  The other rings have no        *)
(* reader, and the filter of the syscall monitor, which nothing fills,     *)
(* lets no call through.                                                   *)
(*                                                                         *)
(* A pid is given out once here.                                           *)
(***************************************************************************)
EXTENDS Integers, Sequences

CONSTANTS
  Programs,             \* in the order in which they are loaded
  RingSize,             \* events in a ring: 256 KB
  RawCapacity,          \* of the channel: 256
  MaxPid, MaxClock,     \* bounds
  Sockets

VARIABLES
  attached,             \* how many programs are loaded and attached
  rings,                \* kind of event -> Seq
  lastPid, living,      \* of the kernel
  open,                 \* socket -> when it was connected, 0 if it was accepted
  connStart,            \* conn_start: socket -> time of tcp_v4_connect
  clock,
  reader,               \* where the reader task is
  batch,                \* what poll has drained and is not sent yet
  rawEvents,            \* the channel
  bridge,               \* whether the other end of it is there
  polls,                \* history: how many polls there were
  accepted,             \* history: kind -> how many events its ring took
  delivered,            \* history: what the bridge took
  leaked                \* history: sockets closed while the close ring was full

monitor == <<attached, rings, accepted>>
kernel == <<lastPid, living, open, connStart, clock, leaked>>
task == <<reader, batch, rawEvents, bridge, polls, delivered>>
eventVars == <<monitor, kernel, task>>

Kinds == {"fork", "exit", "connect", "close"}
NoEvents == [k \in Kinds |-> <<>>]

\* What process_monitor.bpf.c writes.  The number of an event in its ring and the poll
\* that drains it are history.
ProcessEvent(kind, pid) == [kind |-> kind, pid |-> pid, no |-> accepted[kind] + 1, poll |-> 0]

KernelInit ==
  /\ attached = 0 /\ rings = NoEvents /\ accepted = [k \in Kinds |-> 0]
  /\ lastPid = 0 /\ living = {} /\ open = [s \in {} |-> 0] /\ connStart = open
  /\ clock = 1 /\ leaked = {}
  /\ reader = "loading" /\ batch = <<>> /\ rawEvents = <<>> /\ bridge = TRUE /\ polls = 0
  /\ delivered = <<>>
-----------------------------------------------------------------------------
(* Loading.                                                                *)

Attached(program) == \E i \in 1 .. attached : Programs[i] = program

\* load_and_attach: the file is there, the object loads, every probe attaches.
AttachNext ==
  /\ reader = "loading" /\ attached < Len(Programs)
  /\ attached' = attached + 1
  /\ UNCHANGED <<rings, accepted, kernel, task>>

Detached ==
  /\ attached' = 0 /\ rings' = NoEvents /\ connStart' = [s \in {} |-> 0]
  /\ UNCHANGED <<accepted, lastPid, living, open, clock, leaked>>

\* A step of try_init_ebpf fails: what was attached is dropped.
AttachFails ==
  /\ reader = "loading"
  /\ Detached /\ reader' = "gone"
  /\ UNCHANGED <<batch, rawEvents, bridge, polls, delivered>>

\* RingBufferReader::new, and the task is spawned.
ReaderStarts ==
  /\ reader = "loading" /\ attached = Len(Programs)
  /\ reader' = "polling"
  /\ UNCHANGED <<monitor, kernel, batch, rawEvents, bridge, polls, delivered>>
-----------------------------------------------------------------------------
(* The kernel and the programs in it.                                      *)

Room(kind) == Len(rings[kind]) < RingSize

\* bpf_ringbuf_reserve gives nothing when the ring is full.
Emit(program, kind, event) ==
  IF Attached(program) /\ Room(kind)
  THEN /\ rings' = [rings EXCEPT ![kind] = Append(@, event)]
       /\ accepted' = [accepted EXCEPT ![kind] = @ + 1]
  ELSE UNCHANGED <<rings, accepted>>

Fork ==
  /\ lastPid < MaxPid
  /\ lastPid' = lastPid + 1 /\ living' = living \cup {lastPid'}
  /\ Emit("process", "fork", ProcessEvent("fork", lastPid'))
  /\ UNCHANGED <<attached, open, connStart, clock, leaked, task>>

Exit ==
  /\ \E pid \in living :
       /\ living' = living \ {pid}
       /\ Emit("process", "exit", ProcessEvent("exit", pid))
  /\ UNCHANGED <<attached, lastPid, open, connStart, clock, leaked, task>>

With(f, k, v) == [x \in DOMAIN f \cup {k} |-> IF x = k THEN v ELSE f[x]]
Without(f, k) == [x \in DOMAIN f \ {k} |-> f[x]]

\* handle_tcp_connect: a connection that the ring has no room for has no start.
Connect ==
  /\ clock < MaxClock /\ clock' = clock + 1
  /\ \E s \in Sockets \ DOMAIN open :
       /\ open' = With(open, s, clock)
       /\ Emit("net", "connect", [kind |-> "connect", socket |-> s])
       /\ IF Attached("net") /\ Room("connect")
          THEN connStart' = With(connStart, s, clock) /\ leaked' = leaked \ {s}
          ELSE UNCHANGED <<connStart, leaked>>
  /\ UNCHANGED <<attached, lastPid, living, task>>

\* An incoming connection runs no probe.
Accept ==
  /\ \E s \in Sockets \ DOMAIN open : open' = With(open, s, 0)
  /\ UNCHANGED <<monitor, lastPid, living, connStart, clock, leaked, task>>

\* handle_tcp_close: with no room in the ring the start stays behind.
Close ==
  /\ \E s \in DOMAIN open :
       LET start == IF s \in DOMAIN connStart THEN connStart[s] ELSE 0
           event == [kind |-> "close", socket |-> s, start |-> start,
                     opened |-> open[s], leaked |-> s \in leaked]
       IN  /\ open' = Without(open, s)
           /\ Emit("net", "close", event)
           /\ connStart' = IF Attached("net") /\ Room("close") THEN Without(connStart, s)
                           ELSE connStart
           /\ leaked' = IF Attached("net") /\ Room("close") THEN leaked \ {s}
                        ELSE leaked \cup (DOMAIN connStart \cap {s})
  /\ UNCHANGED <<attached, lastPid, living, clock, task>>
-----------------------------------------------------------------------------
(* The reader.                                                             *)

Drained(kind) == [i \in DOMAIN rings[kind] |-> [rings[kind][i] EXCEPT !.poll = polls + 1]]

\* Whichever ring is readable is drained first, and the kernel goes on meanwhile.
DrainFirst ==
  /\ reader = "polling"
  /\ \E kind \in {"fork", "exit"} :
       /\ rings[kind] # <<>>
       /\ batch' = Drained(kind)
       /\ rings' = [rings EXCEPT ![kind] = <<>>]
       /\ reader' = IF kind = "fork" THEN "forks drained" ELSE "exits drained"
  /\ UNCHANGED <<attached, accepted, kernel, rawEvents, bridge, polls, delivered>>

\* Mutant: in the order in which they were drained.
AsDrained(forks, exits) == IF reader = "exits drained" THEN exits \o forks ELSE forks \o exits

\* Either way the forks come first.
ForksFirst(forks, exits) == forks \o exits

DrainSecond ==
  /\ \/ /\ reader = "forks drained"
        /\ batch' = ForksFirst(batch, Drained("exit"))
        /\ rings' = [rings EXCEPT !["exit"] = <<>>]
     \/ /\ reader = "exits drained"
        /\ batch' = ForksFirst(Drained("fork"), batch)
        /\ rings' = [rings EXCEPT !["fork"] = <<>>]
  /\ reader' = "sending" /\ polls' = polls + 1
  /\ UNCHANGED <<attached, accepted, kernel, rawEvents, bridge, delivered>>

\* Waits for room, whatever becomes of the token.
Send ==
  /\ reader = "sending" /\ batch # <<>> /\ bridge
  /\ Len(rawEvents) < RawCapacity
  /\ rawEvents' = Append(rawEvents, Head(batch)) /\ batch' = Tail(batch)
  /\ UNCHANGED <<monitor, kernel, reader, bridge, polls, delivered>>

AllSent ==
  /\ reader = "sending" /\ batch = <<>>
  /\ reader' = "polling"
  /\ UNCHANGED <<monitor, kernel, batch, rawEvents, bridge, polls, delivered>>

\* The token is cancelled or poll fails; a send finds nobody at the other end.
\* With the task the manager goes, and with it every probe.
ReaderEnds ==
  /\ reader = "polling" \/ (reader = "sending" /\ batch # <<>> /\ ~bridge)
  /\ reader' = "gone" /\ Detached
  /\ UNCHANGED <<batch, rawEvents, bridge, polls, delivered>>

BridgeTakes ==
  /\ bridge /\ rawEvents # <<>>
  /\ delivered' = Append(delivered, Head(rawEvents)) /\ rawEvents' = Tail(rawEvents)
  /\ UNCHANGED <<monitor, kernel, reader, batch, bridge, polls>>

BridgeEnds ==
  /\ bridge /\ bridge' = FALSE
  /\ UNCHANGED <<monitor, kernel, reader, batch, rawEvents, polls, delivered>>

KernelNext ==
  \/ AttachNext \/ AttachFails \/ ReaderStarts
  \/ Fork \/ Exit \/ Connect \/ Accept \/ Close
  \/ DrainFirst \/ DrainSecond \/ Send \/ AllSent \/ ReaderEnds
  \/ BridgeTakes \/ BridgeEnds

KernelSpec == KernelInit /\ [][KernelNext]_eventVars
-----------------------------------------------------------------------------
OnTheWay == delivered \o rawEvents \o batch

\* What a ring of the process monitor took arrives, once and in order; when the
\* reader is gone, all up to some event.
NoneLost(kind) ==
  LET way == OnTheWay \o rings[kind]
      own == {i \in DOMAIN way : way[i].kind = kind}
      numbers == {way[i].no : i \in own}
  IN  /\ \A i, j \in own : i < j => way[i].no < way[j].no
      /\ IF reader = "gone" THEN \E n \in 0 .. accepted[kind] : numbers = 1 .. n
         ELSE numbers = 1 .. accepted[kind]

\* The exit of a process may arrive before its fork, if that was written after
\* the forks of a poll had been drained; then it comes with the next poll.
OvertakenByOnePoll ==
  \A i, j \in DOMAIN OnTheWay :
    LET exit == OnTheWay[i]
        fork == OnTheWay[j]
    IN  i < j /\ exit.kind = "exit" /\ fork.kind = "fork" /\ exit.pid = fork.pid =>
          fork.poll = exit.poll + 1

\* A close measures from the connect of its own connection, or not at all,
\* unless the close of a former one on that socket found the ring full.
MeasuresItself ==
  \A i \in DOMAIN rings["close"] :
    LET close == rings["close"][i] IN close.start \in {0, close.opened} \/ close.leaked

KernelEventsArrive ==
  /\ NoneLost("fork") /\ NoneLost("exit")
  /\ OvertakenByOnePoll
  /\ MeasuresItself
=============================================================================
