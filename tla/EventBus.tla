------------------------------ MODULE EventBus ------------------------------
(***************************************************************************)
(* Connections, subscriptions and the event bus (whirld/events.rs,         *)
(* whirld/socket.rs: serve, handle, subscribe, read_request_line;          *)
(* whirld/state.rs: announce, subscribe, heartbeat).                       *)
(*                                                                         *)
(* An event is its number. A queue and a socket hold numbers. What a       *)
(* subscriber sends is "end" for a line that ends the stream (`close`, or  *)
(* one the framing cannot carry), or a "head" and a "tail" for a `close`   *)
(* that a poll cuts in two: each is then a line like any other. Requests   *)
(* before the subscription are answered at once and are left out.          *)
(***************************************************************************)
EXTENDS Naturals, Sequences, FiniteSets

CONSTANTS Clients,
          Subscribers,    \* the clients that ask for the stream; others send commands
          Readers,        \* the clients that go on reading until their stream ends
          Unnumbered,
          MaxConnections, \* 16
          Queue,          \* 256
          SocketRoom,     \* the events that fit into a socket nobody reads
          MaxEvents       \* bound

ASSUME BusAssumption ==
  /\ IsFiniteSet(Clients) /\ Subscribers \subseteq Clients /\ Readers \subseteq Subscribers
  /\ Unnumbered \notin Nat
  /\ MaxConnections \in Nat \ {0} /\ Queue \in Nat \ {0} /\ SocketRoom \in Nat \ {0}
  /\ MaxEvents \in Nat

VARIABLES
  seq,        \* State.seq
  quiet,      \* HEARTBEAT_QUIET has passed since quiet_since
  attached,   \* the subscribers whose sender is in the bus
  queue,      \* what their receivers hold
  conn,       \* where the thread of a connection is
  live,       \* the count of serve
  told,       \* the number `subscribed:` carried
  wire,       \* events written to the socket and not yet read by the client
  seen,       \* the last event the client has read
  request,    \* what the client has sent and the daemon has not read
  hungUp,     \* the clients that closed their end
  owed        \* observer: the quiet periods that no event has ended

bus == <<seq, quiet, attached, queue, owed>>
ends == <<told, wire, seen, request, hungUp>>
busVars == <<seq, quiet, attached, queue, conn, live, told, wire, seen, request, hungUp,
             owed>>

\* "new": not connected; "command": in handle; "drain", "poll", "beat", "emit": in the loop
\* of subscribe; "gone": the thread has returned and the socket is closed.
Conns == {"new", "command", "drain", "poll", "beat", "emit", "gone"}
Streaming == {"drain", "poll", "beat", "emit"}

BusInit ==
  /\ seq = 0 /\ quiet = FALSE /\ attached = {} /\ queue = [c \in Clients |-> <<>>]
  /\ conn = [c \in Clients |-> "new"] /\ live = 0
  /\ told = [c \in Clients |-> Unnumbered] /\ seen = [c \in Clients |-> Unnumbered]
  /\ wire = [c \in Clients |-> <<>>] /\ request = [c \in Clients |-> <<>>]
  /\ hungUp = {} /\ owed = 0

-----------------------------------------------------------------------------
\* announce and broadcast, under the state lock: the next number, and every queue with
\* room gets it; a full one loses its sender.
Announce ==
  /\ seq' = seq + 1
  /\ attached' = {c \in attached : Len(queue[c]) < Queue}
  /\ queue' = [c \in Clients |-> IF c \in attached' THEN Append(queue[c], seq') ELSE queue[c]]
  /\ quiet' = FALSE

QuietNow == IF quiet THEN 1 ELSE 0

\* Any state change of the daemon.
StateChange ==
  /\ seq < MaxEvents /\ Announce /\ owed' = owed - QuietNow
  /\ UNCHANGED <<conn, live, ends>>

\* HEARTBEAT_QUIET passes without an event. (Not while the events have run out.)
GoesQuiet ==
  /\ ~quiet /\ seq < MaxEvents /\ quiet' = TRUE /\ owed' = owed + 1
  /\ UNCHANGED <<seq, attached, queue, conn, live, ends>>

-----------------------------------------------------------------------------
\* serve

Accept(c) ==
  /\ conn[c] = "new" /\ live < MaxConnections
  /\ conn' = [conn EXCEPT ![c] = "command"] /\ live' = live + 1
  /\ UNCHANGED <<bus, ends>>

\* The count is raised, found too high and lowered again; the answer is ERR busy.
AcceptTooMany(c) ==
  /\ conn[c] = "new" /\ live >= MaxConnections
  /\ conn' = [conn EXCEPT ![c] = "gone"]
  /\ UNCHANGED <<bus, live, ends>>

\* The thread returns: its receiver is dropped with it, its sender at the next event.
Return(c) ==
  /\ conn' = [conn EXCEPT ![c] = "gone"] /\ live' = live - 1
  /\ queue' = [queue EXCEPT ![c] = <<>>] /\ attached' = attached \ {c}
  /\ UNCHANGED <<seq, quiet, owed>>

\* handle: the end of the client's side, the idle timeout, or `close`.
CommandEnds(c) == conn[c] = "command" /\ Return(c) /\ UNCHANGED ends

-----------------------------------------------------------------------------
\* subscribe

\* Mutant: the number told is that of the next event.
SubscribeNext(c) ==
  /\ conn[c] = "command" /\ c \in Subscribers
  /\ told' = [told EXCEPT ![c] = seq + 1] /\ seen' = [seen EXCEPT ![c] = seq + 1]
  /\ attached' = attached \cup {c}
  /\ conn' = [conn EXCEPT ![c] = "drain"]
  /\ UNCHANGED <<seq, quiet, queue, live, wire, request, hungUp, owed>>

\* Daemon::subscribe: the number and the queue under one lock, then the `subscribed:` line.
Subscribe(c) ==
  /\ conn[c] = "command" /\ c \in Subscribers
  /\ told' = [told EXCEPT ![c] = seq] /\ seen' = [seen EXCEPT ![c] = seq]
  /\ attached' = attached \cup {c}
  /\ conn' = [conn EXCEPT ![c] = "drain"]
  /\ UNCHANGED <<seq, quiet, queue, live, wire, request, hungUp, owed>>

\* try_recv and write_all, which waits while the socket is full.
Forward(c) ==
  /\ conn[c] = "drain" /\ queue[c] # <<>> /\ c \notin hungUp
  /\ Len(wire[c]) < SocketRoom
  /\ wire' = [wire EXCEPT ![c] = Append(@, Head(queue[c]))]
  /\ queue' = [queue EXCEPT ![c] = Tail(@)]
  /\ UNCHANGED <<seq, quiet, attached, conn, live, told, seen, request, hungUp, owed>>

\* Empty: flush, and look for a request.
Drained(c) ==
  /\ conn[c] = "drain" /\ queue[c] = <<>> /\ c \in attached
  /\ conn' = [conn EXCEPT ![c] = "poll"]
  /\ UNCHANGED <<bus, live, ends>>

\* Mutant: an empty queue without a sender is taken for an empty queue.
DroppedUnnoticed(c) ==
  /\ conn[c] = "drain" /\ queue[c] # <<>> /\ c \in hungUp
  /\ Return(c) /\ UNCHANGED ends

\* Disconnected, after what the queue still held: the bus dropped this subscriber. Or the
\* write finds that the client is gone.
StreamDropped(c) ==
  /\ conn[c] = "drain"
  /\ \/ queue[c] = <<>> /\ c \notin attached
     \/ queue[c] # <<>> /\ c \in hungUp
  /\ Return(c) /\ UNCHANGED ends

\* read_request_line within one poll. The head of a line whose rest has not come is read
\* into a buffer that is dropped with the timeout: the tail is a line of its own.
PollAnswers(c) ==
  /\ conn[c] = "poll" /\ request[c] # <<>> /\ Head(request[c]) \in {"head", "tail"}
  /\ request' = [request EXCEPT ![c] = Tail(@)]
  /\ conn' = [conn EXCEPT ![c] = "beat"]
  /\ UNCHANGED <<bus, live, told, wire, seen, hungUp>>

\* `close`, a line the framing cannot carry, or the end of the client's side.
PollEnds(c) ==
  /\ conn[c] = "poll"
  /\ \/ request[c] # <<>> /\ Head(request[c]) = "end"
     \/ request[c] = <<>> /\ c \in hungUp
  /\ Return(c) /\ UNCHANGED ends

PollTimesOut(c) ==
  /\ conn[c] = "poll" /\ request[c] = <<>> /\ c \notin hungUp
  /\ conn' = [conn EXCEPT ![c] = "beat"]
  /\ UNCHANGED <<bus, live, ends>>

\* Mutant: the period is restarted by the event, not by the claim.
ClaimUnmarked(c) ==
  /\ conn[c] = "beat" /\ quiet' = quiet
  /\ conn' = [conn EXCEPT ![c] = IF quiet THEN "emit" ELSE "drain"]
  /\ UNCHANGED <<seq, attached, queue, live, ends, owed>>

\* claim_heartbeat, under the bus's lock: the first to find the period over restarts it.
ClaimHeartbeat(c) ==
  /\ conn[c] = "beat" /\ quiet' = FALSE
  /\ conn' = [conn EXCEPT ![c] = IF quiet THEN "emit" ELSE "drain"]
  /\ UNCHANGED <<seq, attached, queue, live, ends, owed>>

\* heartbeat: an event like any other, under another lock and after whatever came first.
Heartbeat(c) ==
  /\ conn[c] = "emit" /\ Announce /\ owed' = owed - 1 - QuietNow
  /\ conn' = [conn EXCEPT ![c] = "drain"]
  /\ UNCHANGED <<live, ends>>

-----------------------------------------------------------------------------
\* The clients

ReadsEvent(c) ==
  /\ wire[c] # <<>>
  /\ seen' = [seen EXCEPT ![c] = Head(wire[c])] /\ wire' = [wire EXCEPT ![c] = Tail(@)]
  /\ UNCHANGED <<bus, conn, live, told, request, hungUp>>

\* (The other subscribers do nothing or hang up: a line of theirs would change no other's
\* stream.)
Sends(c, bytes) ==
  /\ c \in Readers /\ conn[c] \in Streaming /\ request[c] = <<>> /\ c \notin hungUp
  /\ request' = [request EXCEPT ![c] = bytes]
  /\ UNCHANGED <<bus, conn, live, told, wire, seen, hungUp>>

HangsUp(c) ==
  /\ conn[c] \in Streaming /\ c \notin hungUp \cup Readers
  /\ hungUp' = hungUp \cup {c}
  /\ UNCHANGED <<bus, conn, live, told, wire, seen, request>>

-----------------------------------------------------------------------------
StreamStep(c) ==
  \/ Forward(c) \/ Drained(c) \/ StreamDropped(c) \/ PollAnswers(c) \/ PollEnds(c)
  \/ PollTimesOut(c) \/ ClaimHeartbeat(c) \/ Heartbeat(c)

ClientStep(c) ==
  \/ ReadsEvent(c) \/ HangsUp(c)
  \/ \E bytes \in {<<"end">>, <<"head", "tail">>} : Sends(c, bytes)

BusNext ==
  \/ StateChange \/ GoesQuiet
  \/ \E c \in Clients : \/ Accept(c) \/ AcceptTooMany(c) \/ CommandEnds(c) \/ Subscribe(c)
                        \/ StreamStep(c) \/ ClientStep(c)

\* The threads of the daemon run; a reader goes on reading. Nobody else owes anything.
BusFairness == /\ \A c \in Clients : WF_busVars(StreamStep(c))
               /\ \A c \in Readers : WF_busVars(ReadsEvent(c))

BusSpec == BusInit /\ [][BusNext]_busVars
FairBusSpec == BusSpec /\ BusFairness

-----------------------------------------------------------------------------
Numbers == Nat \cup {Unnumbered}

BusTypeOK ==
  /\ seq \in Nat /\ quiet \in BOOLEAN /\ attached \subseteq Clients
  /\ queue \in [Clients -> Seq(Nat)] /\ \A c \in Clients : Len(queue[c]) <= Queue
  /\ conn \in [Clients -> Conns] /\ live \in 0 .. MaxConnections
  /\ told \in [Clients -> Numbers] /\ seen \in [Clients -> Numbers]
  /\ wire \in [Clients -> Seq(Nat)] /\ \A c \in Clients : Len(wire[c]) <= SocketRoom
  /\ request \in [Clients -> Seq({"end", "head", "tail"})]
  /\ hungUp \subseteq Clients /\ owed \in Nat

\* "30 s of quiet produces exactly one heartbeat": however many subscribers find the
\* period over, and although the claim and the event are made under different locks,
\* there is never more than one heartbeat under way for a quiet period no event has ended.
OneBeatPerQuiet ==
  Cardinality({c \in Clients : conn[c] = "emit"}) + QuietNow <= owed

\* The bus implements the stream it promises: each subscriber reads consecutive numbers
\* from the one it was told, whatever the queues, the sockets and the drops do.
Stream == INSTANCE EventStream WITH emitted <- seq
ImplementsStream == Stream!StreamSpec

\* The connection of a subscriber that goes on reading ends once the bus has dropped it or
\* it has sent `close`, and a quiet period it is connected through comes to an end. (One
\* that stops reading keeps its thread in write_all, and its place among the 16.)
StreamsMove ==
  \A c \in Readers :
    /\ (conn[c] \in Streaming /\ (c \notin attached \/ request[c] = <<"end">>)) ~> (conn[c] = "gone")
    /\ (conn[c] \in Streaming /\ quiet) ~> (conn[c] = "gone" \/ ~quiet)
=============================================================================
