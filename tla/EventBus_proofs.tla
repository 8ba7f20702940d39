--------------------------- MODULE EventBus_proofs ---------------------------
(***************************************************************************)
(* Theorems of EventBus, for every finite set of clients, every number of  *)
(* connections, every queue and socket, and any number of events.          *)
(***************************************************************************)
EXTENDS EventBus, FiniteSetTheorems, TLAPS

\* The types, but for what is counted.
BusBase ==
  /\ seq \in Nat /\ quiet \in BOOLEAN /\ attached \subseteq Clients
  /\ queue \in [Clients -> Seq(Nat)] /\ \A c \in Clients : Len(queue[c]) <= Queue
  /\ conn \in [Clients -> Conns]
  /\ told \in [Clients -> Numbers] /\ seen \in [Clients -> Numbers]
  /\ wire \in [Clients -> Seq(Nat)] /\ \A c \in Clients : Len(wire[c]) <= SocketRoom
  /\ request \in [Clients -> Seq({"end", "head", "tail"})]
  /\ hungUp \subseteq Clients

\* `live` counts the threads, and owed quiet periods cover the heartbeats under way.
Connected == {c \in Clients : conn[c] \in {"command"} \cup Streaming}
Beating == {c \in Clients : conn[c] = "emit"}
Counted ==
  /\ live = Cardinality(Connected) /\ live <= MaxConnections
  /\ owed \in Int /\ Cardinality(Beating) + QuietNow <= owed

\* A client is told its number once, before the bus has its queue.
ToldOnce ==
  \A c \in Clients :
    /\ told[c] = Unnumbered <=> seen[c] = Unnumbered
    /\ conn[c] \in {"new", "command"} => told[c] = Unnumbered
    /\ told[c] = Unnumbered => c \notin attached /\ queue[c] = <<>> /\ wire[c] = <<>>

\* What is on its way to a subscriber follows what it has read without a gap, in the
\* socket and then in the queue, and reaches up to the last event as long as the bus has
\* not dropped it: the number it was told and its first event are consecutive, and a slow
\* neighbour costs it nothing.
Follows(s, n) == \A i \in 1 .. Len(s) : s[i] = n + i
GapFree(c) ==
  /\ Follows(wire[c], seen[c]) /\ Follows(queue[c], seen[c] + Len(wire[c]))
  /\ seen[c] + Len(wire[c]) + Len(queue[c]) <= seq
  /\ c \in attached => seen[c] + Len(wire[c]) + Len(queue[c]) = seq

StreamIsGapFree == \A c \in Clients : told[c] # Unnumbered => GapFree(c)

BusInv == BusBase /\ Counted /\ ToldOnce /\ StreamIsGapFree

-----------------------------------------------------------------------------
(* Types *)

LEMMA BaseInit == BusInit => BusBase
<1> SUFFICES ASSUME BusInit PROVE BusBase
  OBVIOUS
<1>1. \A c \in Clients : Len(queue[c]) <= Queue /\ Len(wire[c]) <= SocketRoom
  BY BusAssumption DEF BusInit
<1>2. queue \in [Clients -> Seq(Nat)] /\ wire \in [Clients -> Seq(Nat)]
  BY DEF BusInit
<1>3. request \in [Clients -> Seq({"end", "head", "tail"})]
  BY DEF BusInit
<1> QED
  BY <1>1, <1>2, <1>3 DEF BusInit, BusBase, Conns, Numbers

\* An event keeps every queue within its bound.
LEMMA AnnounceTyped ==
  ASSUME BusBase, Announce
  PROVE  /\ seq' \in Nat /\ quiet' \in BOOLEAN /\ attached' \subseteq Clients
         /\ queue' \in [Clients -> Seq(Nat)] /\ \A c \in Clients : Len(queue'[c]) <= Queue
<1>1. \A c \in Clients : queue[c] \in Seq(Nat) /\ Len(queue[c]) \in Nat
  BY DEF BusBase
<1>2. \A c \in Clients : Append(queue[c], seq + 1) \in Seq(Nat) /\ Len(Append(queue[c], seq + 1)) = Len(queue[c]) + 1
  BY <1>1 DEF BusBase
<1>3. seq' = seq + 1 /\ attached' \subseteq Clients /\ quiet' \in BOOLEAN
  BY DEF Announce, BusBase
<1>4. \A c \in Clients : queue'[c] = IF c \in attached' THEN Append(queue[c], seq + 1) ELSE queue[c]
  BY DEF Announce
<1>5. queue' \in [Clients -> Seq(Nat)]
  BY <1>1, <1>2, <1>3 DEF Announce
<1>6. \A c \in Clients : c \in attached' => Len(queue[c]) < Queue
  BY DEF Announce
<1>7. ASSUME NEW c \in Clients PROVE Len(queue'[c]) <= Queue
  <2>1. CASE c \in attached'
    <3>1. Len(queue[c]) + 1 <= Queue
      BY <1>1, <1>6, <2>1, BusAssumption
    <3> QED
      BY <1>2, <1>4, <2>1, <3>1
  <2>2. CASE c \notin attached'
    BY <1>4, <2>2 DEF BusBase
  <2> QED
    BY <2>1, <2>2
<1> QED
  BY <1>3, <1>5, <1>7 DEF BusBase

\* A thread that returns leaves an empty queue.
LEMMA ReturnTyped ==
  ASSUME BusBase, NEW c \in Clients, Return(c)
  PROVE  /\ seq' \in Nat /\ quiet' \in BOOLEAN /\ attached' \subseteq Clients
         /\ queue' \in [Clients -> Seq(Nat)] /\ \A d \in Clients : Len(queue'[d]) <= Queue
         /\ conn' \in [Clients -> Conns]
  BY BusAssumption DEF BusBase, Return, Conns

\* Every step keeps the types.
LEMMA BaseStep == BusBase /\ [BusNext]_busVars => BusBase'
<1> SUFFICES ASSUME BusBase, [BusNext]_busVars PROVE BusBase'
  OBVIOUS
<1> USE BusAssumption
<1>1. CASE UNCHANGED busVars
  BY <1>1 DEF BusBase, busVars
<1>2. CASE StateChange
  BY <1>2, AnnounceTyped DEF StateChange, ends, BusBase
<1>3. CASE GoesQuiet
  BY <1>3 DEF GoesQuiet, ends, BusBase
<1>4. ASSUME NEW c \in Clients,
             \/ Accept(c) \/ AcceptTooMany(c) \/ CommandEnds(c) \/ Subscribe(c)
             \/ StreamStep(c) \/ ClientStep(c)
      PROVE  BusBase'
  <2>1. CASE Accept(c)
    BY <2>1 DEF Accept, bus, ends, Conns, BusBase
  <2>2. CASE AcceptTooMany(c)
    BY <2>2 DEF AcceptTooMany, bus, ends, Conns, BusBase
  <2>3. CASE CommandEnds(c)
    BY <2>3, ReturnTyped DEF CommandEnds, ends, BusBase
  <2>4. CASE Subscribe(c)
    BY <2>4 DEF Subscribe, Conns, Numbers, BusBase
  <2>5. CASE Forward(c)
    BY <2>5 DEF Forward, BusBase
  <2>6. CASE Drained(c)
    BY <2>6 DEF Drained, bus, ends, Conns, BusBase
  <2>7. CASE StreamDropped(c)
    BY <2>7, ReturnTyped DEF StreamDropped, ends, BusBase
  <2>8. CASE PollAnswers(c)
    BY <2>8 DEF PollAnswers, bus, Conns, BusBase
  <2>9. CASE PollEnds(c)
    BY <2>9, ReturnTyped DEF PollEnds, ends, BusBase
  <2>10. CASE PollTimesOut(c)
    BY <2>10 DEF PollTimesOut, bus, ends, Conns, BusBase
  <2>11. CASE ClaimHeartbeat(c)
    BY <2>11 DEF ClaimHeartbeat, ends, Conns, BusBase
  <2>12. CASE Heartbeat(c)
    BY <2>12, AnnounceTyped DEF Heartbeat, ends, Conns, BusBase
  <2>13. CASE ReadsEvent(c)
    BY <2>13 DEF ReadsEvent, bus, Numbers, BusBase
  <2>14. CASE HangsUp(c)
    BY <2>14 DEF HangsUp, bus, BusBase
  <2>15. ASSUME NEW bytes \in {<<"end">>, <<"head", "tail">>}, Sends(c, bytes)
        PROVE  BusBase'
    <3>1. <<"end">> \in Seq({"end", "head", "tail"}) /\ <<"head", "tail">> \in Seq({"end", "head", "tail"})
      OBVIOUS
    <3> QED
      BY <2>15, <3>1 DEF Sends, BusBase, bus
  <2> QED
    BY <1>4, <2>1, <2>2, <2>3, <2>4, <2>5, <2>6, <2>7, <2>8, <2>9, <2>10, <2>11, <2>12,
        <2>13, <2>14, <2>15
       DEF StreamStep, ClientStep
<1> QED
  BY <1>1, <1>2, <1>3, <1>4 DEF BusNext

-----------------------------------------------------------------------------
(* The stream *)

\* A connection that has its number never is at a command again.
LEMMA ToldStep == BusBase /\ ToldOnce /\ [BusNext]_busVars => ToldOnce'
<1> SUFFICES ASSUME BusBase /\ ToldOnce, [BusNext]_busVars PROVE ToldOnce'
  OBVIOUS
<1> USE BusAssumption
<1>1. CASE UNCHANGED busVars
  BY <1>1 DEF ToldOnce, busVars
<1>2. CASE StateChange
  BY <1>2 DEF StateChange, ends, Announce, ToldOnce, BusBase
<1>3. CASE GoesQuiet
  BY <1>3 DEF GoesQuiet, ends, ToldOnce, BusBase
<1>4. ASSUME NEW c \in Clients,
             \/ Accept(c) \/ AcceptTooMany(c) \/ CommandEnds(c) \/ Subscribe(c)
             \/ StreamStep(c) \/ ClientStep(c)
      PROVE  ToldOnce'
  <2>1. CASE Accept(c)
    BY <2>1 DEF Accept, bus, ends, ToldOnce, BusBase
  <2>2. CASE AcceptTooMany(c)
    BY <2>2 DEF AcceptTooMany, bus, ends, ToldOnce, BusBase
  <2>3. CASE CommandEnds(c)
    BY <2>3 DEF CommandEnds, Return, ends, ToldOnce, BusBase
  <2>4. CASE Subscribe(c)
    BY <2>4 DEF Subscribe, ToldOnce, BusBase
  <2>5. CASE Forward(c)
    BY <2>5 DEF Forward, ToldOnce, BusBase
  <2>6. CASE Drained(c)
    BY <2>6 DEF Drained, bus, ends, ToldOnce, BusBase
  <2>7. CASE StreamDropped(c)
    BY <2>7 DEF StreamDropped, Return, ends, ToldOnce, BusBase
  <2>8. CASE PollAnswers(c)
    BY <2>8 DEF PollAnswers, bus, ToldOnce, BusBase
  <2>9. CASE PollEnds(c)
    BY <2>9 DEF PollEnds, Return, ends, ToldOnce, BusBase
  <2>10. CASE PollTimesOut(c)
    BY <2>10 DEF PollTimesOut, bus, ends, ToldOnce, BusBase
  <2>11. CASE ClaimHeartbeat(c)
    BY <2>11 DEF ClaimHeartbeat, ends, ToldOnce, BusBase
  <2>12. CASE Heartbeat(c)
    BY <2>12 DEF Heartbeat, ends, Announce, ToldOnce, BusBase
  <2>13. CASE ReadsEvent(c)
    BY <2>13 DEF ReadsEvent, bus, ToldOnce, BusBase
  <2>14. CASE HangsUp(c)
    BY <2>14 DEF HangsUp, bus, ToldOnce, BusBase
  <2>15. ASSUME NEW bytes \in {<<"end">>, <<"head", "tail">>}, Sends(c, bytes)
        PROVE  ToldOnce'
    BY <2>15 DEF Sends, bus, ToldOnce, BusBase
  <2> QED
    BY <1>4, <2>1, <2>2, <2>3, <2>4, <2>5, <2>6, <2>7, <2>8, <2>9, <2>10, <2>11, <2>12,
        <2>13, <2>14, <2>15
       DEF StreamStep, ClientStep
<1> QED
  BY <1>1, <1>2, <1>3, <1>4 DEF BusNext

LEMMA FollowsAppend ==
  ASSUME NEW s \in Seq(Nat), NEW n \in Nat, Follows(s, n)
  PROVE  /\ Follows(Append(s, n + Len(s) + 1), n)
         /\ Len(Append(s, n + Len(s) + 1)) = Len(s) + 1
<1> DEFINE m == n + Len(s) + 1
<1>1. Len(s) \in Nat /\ m \in Nat
  OBVIOUS
<1>2. Len(Append(s, m)) = Len(s) + 1 /\ Append(s, m)[Len(s) + 1] = m
  BY <1>1
<1>3. \A i \in 1 .. Len(s) : Append(s, m)[i] = s[i]
  BY <1>1
<1>4. ASSUME NEW i \in 1 .. Len(s) + 1 PROVE Append(s, m)[i] = n + i
  <2>1. CASE i = Len(s) + 1
    BY <1>1, <1>2, <2>1
  <2>2. CASE i # Len(s) + 1
    <3>1. i \in 1 .. Len(s)
      BY <1>1, <2>2
    <3> QED
      BY <1>3, <3>1 DEF Follows
  <2> QED
    BY <2>1, <2>2
<1> QED
  BY <1>2, <1>4 DEF Follows

LEMMA FollowsTail ==
  ASSUME NEW s \in Seq(Nat), NEW n \in Nat, Follows(s, n), s # <<>>
  PROVE  /\ Head(s) = n + 1 /\ Follows(Tail(s), n + 1)
         /\ Len(Tail(s)) = Len(s) - 1 /\ Len(s) \in Nat \ {0}
<1>1. Len(s) \in Nat \ {0} /\ Head(s) = s[1] /\ Len(Tail(s)) = Len(s) - 1
  OBVIOUS
<1>2. \A i \in 1 .. Len(s) - 1 : Tail(s)[i] = s[i + 1] /\ i + 1 \in 1 .. Len(s)
  BY <1>1
<1>3. ASSUME NEW i \in 1 .. Len(s) - 1 PROVE Tail(s)[i] = (n + 1) + i
  <2>1. s[i + 1] = n + (i + 1)
    BY <1>2 DEF Follows
  <2>2. i \in Nat
    BY <1>1
  <2> QED
    BY <1>2, <2>1, <2>2
<1>4. s[1] = n + 1
  BY <1>1 DEF Follows
<1> QED
  BY <1>1, <1>3, <1>4 DEF Follows

\* An event goes to the end of the queues with room; the others lose their sender.
LEMMA AnnounceGapFree ==
  ASSUME BusBase, ToldOnce, StreamIsGapFree, Announce,
         UNCHANGED <<told, wire, seen>>
  PROVE  StreamIsGapFree'
<1>1. ASSUME NEW c \in Clients, told[c] # Unnumbered PROVE GapFree(c)'
  <2>1. /\ GapFree(c) /\ queue[c] \in Seq(Nat) /\ wire[c] \in Seq(Nat) /\ seq \in Nat
        /\ seen[c] \in Nat
    BY <1>1 DEF StreamIsGapFree, ToldOnce, BusBase, Numbers
  <2>2. wire'[c] = wire[c] /\ seen'[c] = seen[c] /\ seq' = seq + 1
    BY DEF Announce
  <2>3. Len(wire[c]) \in Nat /\ Len(queue[c]) \in Nat
    BY <2>1
  <2>4. CASE c \in attached'
    <3>1. c \in attached /\ queue'[c] = Append(queue[c], seq + 1)
      BY <2>2, <2>4 DEF Announce
    <3> DEFINE n == seen[c] + Len(wire[c])
    <3>2. n \in Nat /\ seq = n + Len(queue[c]) /\ Follows(queue[c], n) /\ Follows(wire[c], seen[c])
      BY <2>1, <2>3, <3>1 DEF GapFree
    <3>3. n' = n
      BY <2>2
    <3> HIDE DEF n
    <3>4. queue'[c] = Append(queue[c], n + Len(queue[c]) + 1)
      BY <3>1, <3>2
    <3>5. Follows(queue'[c], n) /\ Len(queue'[c]) = Len(queue[c]) + 1
      BY <2>1, <3>2, <3>4, FollowsAppend
    <3>6. n' + Len(queue'[c]) = seq'
      BY <2>2, <2>3, <3>2, <3>3, <3>5
    <3>7. n' + Len(queue'[c]) <= seq'
      BY <2>1, <2>2, <3>6
    <3> QED
      BY <2>2, <3>2, <3>3, <3>5, <3>6, <3>7 DEF GapFree, n
  <2>5. CASE c \notin attached'
    <3>1. queue'[c] = queue[c]
      BY <2>5 DEF Announce
    <3> QED
      BY <2>1, <2>2, <2>3, <2>5, <3>1 DEF GapFree
  <2> QED
    BY <2>4, <2>5
<1> QED
  BY <1>1 DEF StreamIsGapFree

\* A thread that returns loses its queue and keeps its place in the stream.
LEMMA ReturnGapFree ==
  ASSUME BusBase, ToldOnce, StreamIsGapFree, NEW c \in Clients, Return(c),
         UNCHANGED <<told, wire, seen>>
  PROVE  StreamIsGapFree'
<1>1. ASSUME NEW d \in Clients, told[d] # Unnumbered PROVE GapFree(d)'
  <2>1. /\ GapFree(d) /\ queue[d] \in Seq(Nat) /\ wire[d] \in Seq(Nat) /\ seq \in Nat
        /\ seen[d] \in Nat
    BY <1>1 DEF StreamIsGapFree, ToldOnce, BusBase, Numbers
  <2>2. seq' = seq /\ (d \in attached' => d \in attached /\ d # c)
    BY DEF Return
  <2>3. queue'[d] = IF d = c THEN <<>> ELSE queue[d]
    BY DEF Return, BusBase
  <2> QED
    BY <2>1, <2>2, <2>3 DEF GapFree, Follows
<1> QED
  BY <1>1 DEF StreamIsGapFree

\* Every step keeps the stream without a gap.
LEMMA GapStep == BusBase /\ ToldOnce /\ StreamIsGapFree /\ [BusNext]_busVars => StreamIsGapFree'
<1> SUFFICES ASSUME BusBase /\ ToldOnce /\ StreamIsGapFree, [BusNext]_busVars
             PROVE  StreamIsGapFree'
  OBVIOUS
<1>1. CASE UNCHANGED busVars
  BY <1>1 DEF StreamIsGapFree, GapFree, busVars
<1>2. CASE StateChange
  BY <1>2, AnnounceGapFree DEF StateChange, ends
<1>3. CASE GoesQuiet
  BY <1>3 DEF GoesQuiet, ends, StreamIsGapFree, GapFree
<1>4. ASSUME NEW c \in Clients,
             \/ Accept(c) \/ AcceptTooMany(c) \/ CommandEnds(c) \/ Subscribe(c)
             \/ StreamStep(c) \/ ClientStep(c)
      PROVE  StreamIsGapFree'
  <2>1. CASE Accept(c)
    BY <2>1 DEF Accept, bus, ends, StreamIsGapFree, GapFree
  <2>2. CASE AcceptTooMany(c)
    BY <2>2 DEF AcceptTooMany, bus, ends, StreamIsGapFree, GapFree
  <2>3. CASE CommandEnds(c)
    BY <2>3, ReturnGapFree DEF CommandEnds, ends
  <2>4. CASE Subscribe(c)
    <3>1. ASSUME NEW d \in Clients, told'[d] # Unnumbered PROVE GapFree(d)'
      <4>1. CASE d = c
        <5>1. /\ seen'[d] = seq /\ seq' = seq /\ seq \in Nat
              /\ wire'[d] = <<>> /\ queue'[d] = <<>>
          BY <2>4, <4>1 DEF Subscribe, ToldOnce, BusBase
        <5> QED
          BY <5>1 DEF GapFree, Follows
      <4>2. CASE d # c
        <5>1. /\ told[d] # Unnumbered /\ seen'[d] = seen[d] /\ seq' = seq
              /\ wire' = wire /\ queue' = queue /\ (d \in attached' <=> d \in attached)
          BY <2>4, <3>1, <4>2 DEF Subscribe, BusBase
        <5> QED
          BY <5>1 DEF GapFree, StreamIsGapFree
      <4> QED
        BY <4>1, <4>2
    <3> QED
      BY <3>1 DEF StreamIsGapFree
  <2>5. CASE Forward(c)
    <3>1. ASSUME NEW d \in Clients, told'[d] # Unnumbered PROVE GapFree(d)'
      <4>1. /\ GapFree(d) /\ queue[d] \in Seq(Nat) /\ wire[d] \in Seq(Nat) /\ seq \in Nat
            /\ seen[d] \in Nat
        BY <2>5, <3>1 DEF Forward, StreamIsGapFree, ToldOnce, BusBase, Numbers
      <4>2. seen' = seen /\ seq' = seq /\ attached' = attached
        BY <2>5 DEF Forward
      <4>3. CASE d = c
        <5>1. /\ wire'[d] = Append(wire[d], Head(queue[d])) /\ queue'[d] = Tail(queue[d])
              /\ queue[d] # <<>>
          BY <2>5, <4>3 DEF Forward, BusBase
        <5>2. Len(wire[d]) \in Nat /\ seen[d] + Len(wire[d]) \in Nat
          BY <4>1
        <5>3. /\ Head(queue[d]) = seen[d] + Len(wire[d]) + 1
              /\ Follows(Tail(queue[d]), (seen[d] + Len(wire[d])) + 1)
              /\ Len(Tail(queue[d])) = Len(queue[d]) - 1 /\ Len(queue[d]) \in Nat \ {0}
          BY <4>1, <5>1, <5>2, FollowsTail DEF GapFree
        <5>4. Follows(wire'[d], seen[d]) /\ Len(wire'[d]) = Len(wire[d]) + 1
          BY <4>1, <5>1, <5>3, FollowsAppend DEF GapFree
        <5>5. seen[d] + Len(wire'[d]) = (seen[d] + Len(wire[d])) + 1
          BY <4>1, <5>2, <5>4
        <5>6. (seen[d] + Len(wire'[d])) + Len(queue'[d]) = (seen[d] + Len(wire[d])) + Len(queue[d])
          BY <5>1, <5>2, <5>3, <5>5
        <5> QED
          BY <4>1, <4>2, <5>1, <5>3, <5>4, <5>5, <5>6 DEF GapFree
      <4>4. CASE d # c
        <5>1. wire'[d] = wire[d] /\ queue'[d] = queue[d]
          BY <2>5, <4>4 DEF Forward, BusBase
        <5> QED
          BY <4>1, <4>2, <5>1 DEF GapFree
      <4> QED
        BY <4>3, <4>4
    <3> QED
      BY <3>1 DEF StreamIsGapFree
  <2>6. CASE Drained(c)
    BY <2>6 DEF Drained, bus, ends, StreamIsGapFree, GapFree
  <2>7. CASE StreamDropped(c)
    BY <2>7, ReturnGapFree DEF StreamDropped, ends
  <2>8. CASE PollAnswers(c)
    BY <2>8 DEF PollAnswers, bus, StreamIsGapFree, GapFree
  <2>9. CASE PollEnds(c)
    BY <2>9, ReturnGapFree DEF PollEnds, ends
  <2>10. CASE PollTimesOut(c)
    BY <2>10 DEF PollTimesOut, bus, ends, StreamIsGapFree, GapFree
  <2>11. CASE ClaimHeartbeat(c)
    BY <2>11 DEF ClaimHeartbeat, ends, StreamIsGapFree, GapFree
  <2>12. CASE Heartbeat(c)
    BY <2>12, AnnounceGapFree DEF Heartbeat, ends
  <2>13. CASE ReadsEvent(c)
    <3>1. ASSUME NEW d \in Clients, told'[d] # Unnumbered PROVE GapFree(d)'
      <4>1. /\ GapFree(d) /\ queue[d] \in Seq(Nat) /\ wire[d] \in Seq(Nat) /\ seq \in Nat
            /\ seen[d] \in Nat
        BY <2>13, <3>1 DEF ReadsEvent, StreamIsGapFree, ToldOnce, BusBase, Numbers
      <4>2. queue' = queue /\ seq' = seq /\ attached' = attached
        BY <2>13 DEF ReadsEvent, bus
      <4>3. CASE d = c
        <5>1. wire'[d] = Tail(wire[d]) /\ seen'[d] = Head(wire[d]) /\ wire[d] # <<>>
          BY <2>13, <4>3 DEF ReadsEvent, BusBase
        <5>2. /\ seen'[d] = seen[d] + 1 /\ Follows(wire'[d], seen[d] + 1)
              /\ Len(wire'[d]) = Len(wire[d]) - 1 /\ Len(wire[d]) \in Nat
          BY <4>1, <5>1, FollowsTail DEF GapFree
        <5>3. seen[d] \in Nat
          BY <4>1
        <5>4. seen'[d] + Len(wire'[d]) = seen[d] + Len(wire[d])
          BY <5>2, <5>3
        <5> QED
          BY <4>1, <4>2, <5>2, <5>4 DEF GapFree
      <4>4. CASE d # c
        <5>1. wire'[d] = wire[d] /\ seen'[d] = seen[d]
          BY <2>13, <4>4 DEF ReadsEvent, BusBase
        <5> QED
          BY <4>1, <4>2, <5>1 DEF GapFree
      <4> QED
        BY <4>3, <4>4
    <3> QED
      BY <3>1 DEF StreamIsGapFree
  <2>14. CASE HangsUp(c)
    BY <2>14 DEF HangsUp, bus, StreamIsGapFree, GapFree
  <2>15. ASSUME NEW bytes \in {<<"end">>, <<"head", "tail">>}, Sends(c, bytes)
        PROVE  StreamIsGapFree'
    BY <2>15 DEF Sends, bus, StreamIsGapFree, GapFree
  <2> QED
    BY <1>4, <2>1, <2>2, <2>3, <2>4, <2>5, <2>6, <2>7, <2>8, <2>9, <2>10, <2>11, <2>12,
        <2>13, <2>14, <2>15
       DEF StreamStep, ClientStep
<1> QED
  BY <1>1, <1>2, <1>3, <1>4 DEF BusNext

-----------------------------------------------------------------------------
(* The counts *)

LEMMA CountsAreNumbers ==
  /\ IsFiniteSet(Connected) /\ Cardinality(Connected) \in Nat
  /\ IsFiniteSet(Beating) /\ Cardinality(Beating) \in Nat
<1>1. Connected \in SUBSET Clients /\ Beating \in SUBSET Clients
  BY DEF Connected, Beating
<1> QED
  BY <1>1, BusAssumption, FS_Subset, FS_CardinalityType

LEMMA CountedInit == BusInit => Counted
<1> SUFFICES ASSUME BusInit PROVE Counted
  OBVIOUS
<1>1. Connected = {} /\ Beating = {}
  BY DEF BusInit, Connected, Beating, Streaming
<1> QED
  BY <1>1, FS_EmptySet, BusAssumption DEF BusInit, Counted, QuietNow

\* A thread that returns was not at a heartbeat, and is counted no more.
LEMMA ReturnCounted ==
  ASSUME BusBase, Counted, NEW c \in Clients, conn[c] \in {"command", "drain", "poll"}, Return(c)
  PROVE  Counted'
<1>1. Connected' = Connected \ {c} /\ c \in Connected
  BY DEF BusBase, Connected, Streaming, Return
<1>2. Beating' = Beating
  BY DEF BusBase, Beating, Return
<1>3. Cardinality(Connected') = Cardinality(Connected) - 1
  BY <1>1, CountsAreNumbers, FS_RemoveElement
<1>4. live' = live - 1 /\ quiet' = quiet /\ owed' = owed
  BY DEF Return
<1> QED
  BY <1>2, <1>3, <1>4, CountsAreNumbers, BusAssumption DEF Counted, QuietNow

\* Steps inside a connection, but for the heartbeat's.
LEMMA SameCounts ==
  ASSUME Counted, Connected' = Connected, Beating' = Beating,
         UNCHANGED <<live, quiet, owed>>
  PROVE  Counted'
  BY DEF Counted, QuietNow

\* Every step keeps the counts.
LEMMA CountStep == BusBase /\ Counted /\ [BusNext]_busVars => Counted'
<1> SUFFICES ASSUME BusBase /\ Counted, [BusNext]_busVars PROVE Counted'
  OBVIOUS
<1>1. CASE UNCHANGED busVars
  BY <1>1, SameCounts DEF Connected, Beating, busVars
<1>2. CASE StateChange
  <2>1. Connected' = Connected /\ Beating' = Beating
    BY <1>2 DEF StateChange, Connected, Beating
  <2>2. live' = live /\ quiet' = FALSE /\ owed' = owed - QuietNow
    BY <1>2 DEF StateChange, Announce
  <2> QED
    BY <2>1, <2>2, CountsAreNumbers DEF Counted, QuietNow
<1>3. CASE GoesQuiet
  <2>1. Connected' = Connected /\ Beating' = Beating
    BY <1>3 DEF GoesQuiet, Connected, Beating
  <2>2. live' = live /\ ~quiet /\ quiet' /\ owed' = owed + 1
    BY <1>3 DEF GoesQuiet
  <2> QED
    BY <2>1, <2>2, CountsAreNumbers DEF Counted, QuietNow
<1>4. ASSUME NEW c \in Clients,
             \/ Accept(c) \/ AcceptTooMany(c) \/ CommandEnds(c) \/ Subscribe(c)
             \/ StreamStep(c) \/ ClientStep(c)
      PROVE  Counted'
  <2>1. CASE Accept(c)
    <3>1. Connected' = Connected \cup {c} /\ c \notin Connected /\ Beating' = Beating
      BY <2>1 DEF Accept, BusBase, Connected, Beating, Streaming
    <3>2. Cardinality(Connected') = Cardinality(Connected) + 1
      BY <3>1, CountsAreNumbers, FS_AddElement
    <3>3. live' = live + 1 /\ live < MaxConnections /\ quiet' = quiet /\ owed' = owed
      BY <2>1 DEF Accept, bus
    <3> QED
      BY <3>1, <3>2, <3>3, CountsAreNumbers, BusAssumption DEF Counted, QuietNow
  <2>2. CASE AcceptTooMany(c)
    BY <2>2, SameCounts DEF AcceptTooMany, bus, ends, BusBase, Connected, Beating, Streaming
  <2>3. CASE CommandEnds(c)
    BY <2>3, ReturnCounted DEF CommandEnds
  <2>4. CASE Subscribe(c)
    BY <2>4, SameCounts DEF Subscribe, BusBase, Connected, Beating, Streaming
  <2>5. CASE Forward(c)
    BY <2>5, SameCounts DEF Forward, Connected, Beating
  <2>6. CASE Drained(c)
    BY <2>6, SameCounts DEF Drained, bus, ends, BusBase, Connected, Beating, Streaming
  <2>7. CASE StreamDropped(c)
    BY <2>7, ReturnCounted DEF StreamDropped
  <2>8. CASE PollAnswers(c)
    BY <2>8, SameCounts DEF PollAnswers, bus, BusBase, Connected, Beating, Streaming
  <2>9. CASE PollEnds(c)
    BY <2>9, ReturnCounted DEF PollEnds
  <2>10. CASE PollTimesOut(c)
    BY <2>10, SameCounts DEF PollTimesOut, bus, ends, BusBase, Connected, Beating, Streaming
  <2>11. CASE ClaimHeartbeat(c)
    <3>1. Connected' = Connected /\ live' = live /\ owed' = owed /\ ~quiet'
      BY <2>11 DEF ClaimHeartbeat, BusBase, Connected, Streaming
    <3>2. CASE quiet
      <4>1. Beating' = Beating \cup {c} /\ c \notin Beating
        BY <2>11, <3>2 DEF ClaimHeartbeat, BusBase, Beating
      <4>2. Cardinality(Beating') = Cardinality(Beating) + 1
        BY <4>1, CountsAreNumbers, FS_AddElement
      <4> QED
        BY <3>1, <3>2, <4>2, CountsAreNumbers DEF Counted, QuietNow
    <3>3. CASE ~quiet
      <4>1. Beating' = Beating
        BY <2>11, <3>3 DEF ClaimHeartbeat, BusBase, Beating
      <4> QED
        BY <3>1, <3>3, <4>1 DEF Counted, QuietNow
    <3> QED
      BY <3>2, <3>3
  <2>12. CASE Heartbeat(c)
    <3>1. Connected' = Connected /\ Beating' = Beating \ {c} /\ c \in Beating
      BY <2>12 DEF Heartbeat, BusBase, Connected, Beating, Streaming
    <3>2. Cardinality(Beating') = Cardinality(Beating) - 1
      BY <3>1, CountsAreNumbers, FS_RemoveElement
    <3>3. live' = live /\ ~quiet' /\ owed' = owed - 1 - QuietNow
      BY <2>12 DEF Heartbeat, Announce
    <3> QED
      BY <3>1, <3>2, <3>3, CountsAreNumbers DEF Counted, QuietNow
  <2>13. CASE ReadsEvent(c)
    BY <2>13, SameCounts DEF ReadsEvent, bus, Connected, Beating
  <2>14. CASE HangsUp(c)
    BY <2>14, SameCounts DEF HangsUp, bus, Connected, Beating
  <2>15. ASSUME NEW bytes \in {<<"end">>, <<"head", "tail">>}, Sends(c, bytes)
        PROVE  Counted'
    BY <2>15, SameCounts DEF Sends, bus, Connected, Beating
  <2> QED
    BY <1>4, <2>1, <2>2, <2>3, <2>4, <2>5, <2>6, <2>7, <2>8, <2>9, <2>10, <2>11, <2>12,
        <2>13, <2>14, <2>15
       DEF StreamStep, ClientStep
<1> QED
  BY <1>1, <1>2, <1>3, <1>4 DEF BusNext

-----------------------------------------------------------------------------
LEMMA BusInvHolds == BusSpec => []BusInv
<1>1. BusInit => BusInv
  <2>1. BusInit => ToldOnce /\ StreamIsGapFree
    BY DEF BusInit, ToldOnce, StreamIsGapFree
  <2> QED
    BY BaseInit, CountedInit, <2>1 DEF BusInv
<1>2. BusInv /\ [BusNext]_busVars => BusInv'
  BY BaseStep, CountStep, ToldStep, GapStep DEF BusInv
<1> QED
  BY <1>1, <1>2, PTL DEF BusSpec

\* The bus keeps its types: no queue outgrows its bound, and the count of connections is
\* what the limit is compared with (socket.rs serve; events.rs broadcast).
THEOREM BusTypes == BusSpec => []BusTypeOK
<1>1. BusInv => BusTypeOK
  <2> SUFFICES ASSUME BusInv PROVE BusTypeOK
    OBVIOUS
  <2>1. live \in 0 .. MaxConnections
    BY CountsAreNumbers, BusAssumption DEF BusInv, Counted
  <2>2. owed \in Nat
    BY CountsAreNumbers DEF BusInv, Counted, QuietNow
  <2> QED
    BY <2>1, <2>2 DEF BusInv, BusBase, BusTypeOK
<1> QED
  BY BusInvHolds, <1>1, PTL

\* One heartbeat for a quiet period, however many subscribers look for it
\* (events.rs claim_heartbeat; socket.rs subscribe).
THEOREM OneHeartbeat == BusSpec => []OneBeatPerQuiet
<1>1. BusInv => OneBeatPerQuiet
  BY DEF BusInv, Counted, Beating, OneBeatPerQuiet
<1> QED
  BY BusInvHolds, <1>1, PTL

\* The events a subscriber has read and those on its way to it have no gap (state.rs
\* announce, subscribe; events.rs broadcast).
THEOREM NoGap == BusSpec => []StreamIsGapFree
<1>1. BusInv => StreamIsGapFree
  BY DEF BusInv
<1> QED
  BY BusInvHolds, <1>1, PTL

-----------------------------------------------------------------------------
(* The refinement *)

LEMMA StreamInitRefines == BusInit => Stream!StreamInit
  BY DEF BusInit, Stream!StreamInit

LEMMA StreamStepRefines == BusInv /\ [BusNext]_busVars => [Stream!StreamNext]_(Stream!stream)
<1> SUFFICES ASSUME BusInv, [BusNext]_busVars PROVE Stream!StreamNext \/ UNCHANGED Stream!stream
  OBVIOUS
<1>1. ASSUME UNCHANGED <<seq, told, seen>> PROVE UNCHANGED Stream!stream
  BY <1>1 DEF Stream!stream
<1>2. ASSUME Announce, UNCHANGED <<told, seen>> PROVE Stream!StreamNext
  BY <1>2 DEF Announce, Stream!StreamNext, Stream!Emit
<1>3. ASSUME NEW c \in Clients, Subscribe(c) PROVE Stream!StreamNext
  <2>1. told[c] = Unnumbered
    BY <1>3 DEF Subscribe, BusInv, ToldOnce
  <2>2. Stream!Join(c)
    BY <1>3, <2>1 DEF Subscribe, Stream!Join
  <2> QED
    BY <2>2 DEF Stream!StreamNext
<1>4. ASSUME NEW c \in Clients, ReadsEvent(c) PROVE Stream!StreamNext
  <2>1. told[c] # Unnumbered /\ wire[c] # <<>>
    BY <1>4 DEF ReadsEvent, BusInv, ToldOnce
  <2>2. /\ GapFree(c) /\ wire[c] \in Seq(Nat) /\ queue[c] \in Seq(Nat) /\ seen[c] \in Nat
        /\ seq \in Nat
    BY <2>1 DEF BusInv, StreamIsGapFree, ToldOnce, BusBase, Numbers
  <2>3. Head(wire[c]) = seen[c] + 1 /\ Len(wire[c]) \in Nat \ {0}
    BY <2>1, <2>2, FollowsTail DEF GapFree
  <2>4. Len(queue[c]) \in Nat /\ seen[c] + Len(wire[c]) + Len(queue[c]) <= seq
    BY <2>2 DEF GapFree
  <2>5. seen[c] < seq
    BY <2>2, <2>3, <2>4
  <2>6. seen' = [seen EXCEPT ![c] = seen[c] + 1] /\ told' = told /\ seq' = seq
    BY <1>4, <2>3 DEF ReadsEvent, bus
  <2>7. Stream!See(c)
    BY <2>1, <2>5, <2>6 DEF Stream!See
  <2> QED
    BY <2>7 DEF Stream!StreamNext
<1>5. CASE UNCHANGED busVars
  BY <1>1, <1>5 DEF busVars
<1>6. CASE StateChange
  BY <1>2, <1>6 DEF StateChange, ends
<1>7. CASE GoesQuiet
  BY <1>1, <1>7 DEF GoesQuiet, ends
<1>8. ASSUME NEW c \in Clients,
             \/ Accept(c) \/ AcceptTooMany(c) \/ CommandEnds(c)
             \/ StreamStep(c) \/ HangsUp(c)
             \/ \E bytes \in {<<"end">>, <<"head", "tail">>} : Sends(c, bytes)
      PROVE  Stream!StreamNext \/ UNCHANGED Stream!stream
  <2>1. CASE Heartbeat(c)
    BY <1>2, <2>1 DEF Heartbeat, ends
  <2>2. CASE ~Heartbeat(c)
    BY <1>1, <1>8, <2>2
      DEF Accept, AcceptTooMany, CommandEnds, StreamStep, HangsUp, Sends, Forward,
         Drained, StreamDropped, PollAnswers, PollEnds, PollTimesOut, ClaimHeartbeat, Return, bus,
         ends
  <2> QED
    BY <2>1, <2>2
<1> QED
  BY <1>3, <1>4, <1>5, <1>6, <1>7, <1>8 DEF BusNext, ClientStep

\* What `subscribe` promises is what the bus does, with every queue, socket, limit, poll
\* and hang-up in it, for any number of subscribers (EventStream).
THEOREM BusImplementsStream == BusSpec => ImplementsStream
  BY BusInvHolds, StreamInitRefines, StreamStepRefines, PTL
     DEF BusSpec, ImplementsStream, Stream!StreamSpec
=============================================================================
