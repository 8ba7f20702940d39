----------------------------- MODULE EventStream -----------------------------
(***************************************************************************)
(* What `subscribe` promises (the comments of whirld/events.rs and         *)
(* Daemon::subscribe): from the number it is told, a subscriber sees every *)
(* event once, in order and without a gap, until its stream ends. There    *)
(* are no queues, sockets or threads here.                                 *)
(***************************************************************************)
EXTENDS Naturals

CONSTANTS Clients, Unnumbered   \* Unnumbered stands for "was told no number", and is none

VARIABLES
  emitted,   \* the number of the last event
  told,      \* the number each subscriber was told
  seen       \* the last one it has read

stream == <<emitted, told, seen>>

StreamInit == /\ emitted = 0
              /\ told = [c \in Clients |-> Unnumbered]
              /\ seen = [c \in Clients |-> Unnumbered]

Emit == emitted' = emitted + 1 /\ UNCHANGED <<told, seen>>

Join(c) == /\ told[c] = Unnumbered
           /\ told' = [told EXCEPT ![c] = emitted] /\ seen' = [seen EXCEPT ![c] = emitted]
           /\ UNCHANGED emitted

See(c) == /\ told[c] # Unnumbered /\ seen[c] < emitted
          /\ seen' = [seen EXCEPT ![c] = @ + 1]
          /\ UNCHANGED <<emitted, told>>

StreamNext == Emit \/ \E c \in Clients : Join(c) \/ See(c)

StreamSpec == StreamInit /\ [][StreamNext]_stream
=============================================================================
