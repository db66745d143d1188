---------------------------- MODULE MobileRelay ----------------------------
(***************************************************************************)
(* The mobile relay server (apps/codex-plus-mobile-relay/src/main.rs): it  *)
(* joins a host and a client that name the same room and token, and        *)
(* passes on what either of them sends.                                    *)
(*                                                                         *)
(* Every connection is served by a reader task, which registers it, reads  *)
(* its messages and takes the lock of RelayState for each step, and by a   *)
(* writer task, which empties the connection's channel.  A second          *)
(* registration for the same role displaces the first, whose connection    *)
(* goes on until its peer ends it.                                         *)
(***************************************************************************)
EXTENDS Naturals, Sequences, FiniteSets

CONSTANTS
  Conns,         \* connections; each is opened once
  Rooms, Tokens,
  Registrations, \* what the connections may ask for
  Nobody, NoToken,
  MaxMessages    \* bound: messages each connection sends

ASSUME NobodyAssumption == Nobody \notin Conns /\ NoToken \notin Tokens
ASSUME ConnsAssumption == IsFiniteSet(Conns)
ASSUME MessagesAssumption == MaxMessages \in Nat

Roles == {"host", "client"}
Registration == [role : Roles, room : Rooms, token : Tokens]

ASSUME RegistrationsAssumption == Registrations \subseteq [Conns -> Registration]

Other(role) == IF role = "host" THEN "client" ELSE "host"

VARIABLES
  token,       \* RoomState.token; NoToken: the room does not exist
  slot,        \* slot[room][role]: RoomState.host and RoomState.client
  active,      \* active_connections
  forwarded,   \* forwarded_messages
  reader,      \* reader[c]: the state of handle_websocket_connection
  peer,        \* peer[c]: the Registration of c
  target,      \* target[c]: the channel forward_message picked under the lock
  queue,       \* queue[c]: the channel to the writer of c
  writer,      \* writer[c]: "runs", or "closed" after it sent Close, or "ended"
  sent,        \* messages c has sent
  got,         \* got[c]: what reached the peer of c
  displaced    \* history: connections whose slot was taken by another one

rooms == <<token, slot>>
counts == <<active, forwarded>>
channels == <<queue, writer, got>>
vars == <<rooms, counts, reader, peer, target, channels, sent, displaced>>

Registered(c) == reader[c] \in {"reading", "forwarding"}
Close == [from |-> Nobody, seq |-> 0]

Init ==
  /\ token = [r \in Rooms |-> NoToken]
  /\ slot = [r \in Rooms |-> [role \in Roles |-> Nobody]]
  /\ active = 0 /\ forwarded = 0
  /\ reader = [c \in Conns |-> "none"]
  /\ peer \in Registrations
  /\ target = [c \in Conns |-> Nobody]
  /\ queue = [c \in Conns |-> <<>>]
  /\ writer = [c \in Conns |-> "none"]
  /\ sent = [c \in Conns |-> 0]
  /\ got = [c \in Conns |-> <<>>]
  /\ displaced = {}

RoomOf(c) == peer[c].room
RoleOf(c) == peer[c].role

(* A channel whose receiver is gone loses what is sent to it.              *)
Put(q, c, message) ==
  IF writer[c] \in {"runs", "closed"} THEN [q EXCEPT ![c] = Append(@, message)] ELSE q

-----------------------------------------------------------------------------
(* handle_websocket_connection up to the registration.                     *)

Connect(c) ==
  /\ reader[c] = "none"
  /\ reader' = [reader EXCEPT ![c] = "handshake"]
  /\ UNCHANGED <<rooms, counts, peer, target, channels, sent, displaced>>

(* No valid registration within ten seconds: nothing was counted.          *)
NotRegistered(c) ==
  /\ reader[c] = "handshake"
  /\ reader' = [reader EXCEPT ![c] = "left"]
  /\ UNCHANGED <<rooms, counts, peer, target, channels, sent, displaced>>

TokenFits(c) == token[RoomOf(c)] \in {NoToken, peer[c].token}

RegisterSilent(c) ==  \* mutant: the previous holder is replaced, not told
  /\ reader[c] = "handshake" /\ TokenFits(c)
  /\ displaced' = displaced \cup ({slot[RoomOf(c)][RoleOf(c)]} \ {Nobody})
  /\ token' = [token EXCEPT ![RoomOf(c)] = peer[c].token]
  /\ slot' = [slot EXCEPT ![RoomOf(c)][RoleOf(c)] = c]
  /\ active' = active + 1
  /\ reader' = [reader EXCEPT ![c] = "reading"]
  /\ writer' = [writer EXCEPT ![c] = "runs"]
  /\ UNCHANGED <<forwarded, peer, target, queue, sent, got>>

(* register_peer: the first connection makes the room and its token; a     *)
(* previous holder of the slot is told to close.  The acknowledgement that *)
(* c itself is sent first is left out.                                     *)
Register(c) ==
  /\ reader[c] = "handshake" /\ TokenFits(c)
  /\ LET old == slot[RoomOf(c)][RoleOf(c)]
     IN  /\ queue' = IF old = Nobody THEN queue ELSE Put(queue, old, Close)
         /\ displaced' = displaced \cup ({old} \ {Nobody})
  /\ token' = [token EXCEPT ![RoomOf(c)] = peer[c].token]
  /\ slot' = [slot EXCEPT ![RoomOf(c)][RoleOf(c)] = c]
  /\ active' = active + 1
  /\ reader' = [reader EXCEPT ![c] = "reading"]
  /\ writer' = [writer EXCEPT ![c] = "runs"]
  /\ UNCHANGED <<forwarded, peer, target, sent, got>>

(* The token differs: the connection has been counted and is dropped.      *)
Refuse(c) ==
  /\ reader[c] = "handshake" /\ ~ TokenFits(c)
  /\ active' = active + 1
  /\ reader' = [reader EXCEPT ![c] = "refused"]
  /\ UNCHANGED <<rooms, forwarded, peer, target, channels, sent, displaced>>

-----------------------------------------------------------------------------
(* forward_message: the target is picked under the lock and used after it. *)

PickAny(c) ==  \* mutant: the slot of the sender's own role
  /\ reader[c] = "reading" /\ sent[c] < MaxMessages
  /\ sent' = [sent EXCEPT ![c] = @ + 1]
  /\ forwarded' = forwarded + 1
  /\ target' = [target EXCEPT ![c] = slot[RoomOf(c)][RoleOf(c)]]
  /\ reader' = [reader EXCEPT ![c] = "forwarding"]
  /\ UNCHANGED <<rooms, active, peer, channels, displaced>>

Pick(c) ==
  /\ reader[c] = "reading" /\ sent[c] < MaxMessages
  /\ sent' = [sent EXCEPT ![c] = @ + 1]
  /\ forwarded' = forwarded + 1
  /\ target' = [target EXCEPT ![c] = slot[RoomOf(c)][Other(RoleOf(c))]]
  /\ reader' = [reader EXCEPT ![c] = "forwarding"]
  /\ UNCHANGED <<rooms, active, peer, channels, displaced>>

Forward(c) ==
  /\ reader[c] = "forwarding"
  /\ queue' = IF target[c] = Nobody THEN queue
              ELSE Put(queue, target[c], [from |-> c, seq |-> sent[c]])
  /\ target' = [target EXCEPT ![c] = Nobody]
  /\ reader' = [reader EXCEPT ![c] = "reading"]
  /\ UNCHANGED <<rooms, counts, peer, writer, sent, got, displaced>>

-----------------------------------------------------------------------------
(* The writer task, and the end of a connection.                           *)

(* After a Close nothing more can be sent: the next send ends the task.    *)
WriterSends(c) ==
  /\ queue[c] # <<>>
  /\ \/ /\ writer[c] = "runs"
        /\ got' = [got EXCEPT ![c] = Append(@, Head(queue[c]))]
        /\ queue' = [queue EXCEPT ![c] = Tail(@)]
        /\ writer' = IF Head(queue[c]) = Close THEN [writer EXCEPT ![c] = "closed"] ELSE writer
     \/ /\ writer[c] = "closed"
        /\ writer' = [writer EXCEPT ![c] = "ended"]
        /\ queue' = [queue EXCEPT ![c] = <<>>]
        /\ UNCHANGED got
  /\ UNCHANGED <<rooms, counts, reader, peer, target, sent, displaced>>

(* The connection is broken under the writer.                              *)
WriterFails(c) ==
  /\ writer[c] \in {"runs", "closed"} /\ queue[c] # <<>>
  /\ writer' = [writer EXCEPT ![c] = "ended"]
  /\ queue' = [queue EXCEPT ![c] = <<>>]
  /\ UNCHANGED <<rooms, counts, reader, peer, target, got, sent, displaced>>

(* saturating_sub(1)                                                       *)
Decrement(n) == IF n = 0 THEN 0 ELSE n - 1

UnregisterAny(c) ==  \* mutant: the slot is cleared whoever holds it
  /\ reader[c] = "reading"
  /\ active' = Decrement(active)
  /\ LET r == RoomOf(c)
         left == [slot[r] EXCEPT ![RoleOf(c)] = Nobody]
     IN  /\ slot' = [slot EXCEPT ![r] = left]
         /\ token' = IF \A role \in Roles : left[role] = Nobody
                     THEN [token EXCEPT ![r] = NoToken] ELSE token
  /\ reader' = [reader EXCEPT ![c] = "left"]
  /\ writer' = [writer EXCEPT ![c] = "ended"]
  /\ queue' = [queue EXCEPT ![c] = <<>>]
  /\ UNCHANGED <<forwarded, peer, target, got, sent, displaced>>

(* The peer closes or its stream ends: unregister_peer, then the writer is *)
(* aborted with what it had not yet sent.                                  *)
Unregister(c) ==
  /\ reader[c] = "reading"
  /\ active' = Decrement(active)
  /\ LET r == RoomOf(c)
         left == [slot[r] EXCEPT ![RoleOf(c)] = IF @ = c THEN Nobody ELSE @]
     IN  /\ slot' = [slot EXCEPT ![r] = left]
         /\ token' = IF \A role \in Roles : left[role] = Nobody
                     THEN [token EXCEPT ![r] = NoToken] ELSE token
  /\ reader' = [reader EXCEPT ![c] = "left"]
  /\ writer' = [writer EXCEPT ![c] = "ended"]
  /\ queue' = [queue EXCEPT ![c] = <<>>]
  /\ UNCHANGED <<forwarded, peer, target, got, sent, displaced>>

(* A read error leaves the function at once: slot, room and count stay.    *)
(* The slot, if c still holds it, keeps the channel and the writer alive.  *)
ReadFails(c) ==
  /\ reader[c] = "reading"
  /\ reader' = [reader EXCEPT ![c] = "broken"]
  /\ UNCHANGED <<rooms, counts, peer, target, channels, sent, displaced>>

(* Every sender of the channel is gone, and it is empty.                   *)
WriterStops(c) ==
  /\ reader[c] = "broken" /\ c # slot[RoomOf(c)][RoleOf(c)]
  /\ \A d \in Conns : target[d] # c
  /\ writer[c] \in {"runs", "closed"} /\ queue[c] = <<>>
  /\ writer' = [writer EXCEPT ![c] = "ended"]
  /\ UNCHANGED <<rooms, counts, reader, peer, target, queue, got, sent, displaced>>

Step(c) ==
  \/ Connect(c) \/ NotRegistered(c) \/ Register(c) \/ Refuse(c)
  \/ Pick(c) \/ Forward(c) \/ WriterSends(c) \/ WriterFails(c) \/ WriterStops(c)
  \/ Unregister(c) \/ ReadFails(c)

Next == \E c \in Conns : Step(c)

Spec == Init /\ [][Next]_vars

(* tokio runs a task that is ready; a peer that is told to close does so.  *)
Fairness ==
  \A c \in Conns :
    /\ WF_vars(WriterSends(c)) /\ WF_vars(Forward(c))
    /\ WF_vars(Close \in {got[c][i] : i \in DOMAIN got[c]} /\ (Unregister(c) \/ ReadFails(c)))

FairSpec == Spec /\ Fairness

-----------------------------------------------------------------------------

(* TypeOK: the types, and a channel is held by a sender only while it      *)
(* forwards, so that a channel without a slot ends with its queue.         *)
Messages == [from : Conns \cup {Nobody}, seq : 0..MaxMessages]

TypeOK ==
  /\ token \in [Rooms -> Tokens \cup {NoToken}]
  /\ slot \in [Rooms -> [Roles -> Conns \cup {Nobody}]]
  /\ active \in Nat /\ forwarded \in Nat
  /\ reader \in [Conns -> {"none", "handshake", "reading", "forwarding", "refused",
                           "broken", "left"}]
  /\ peer \in [Conns -> Registration]
  /\ target \in [Conns -> Conns \cup {Nobody}]
  /\ \A c \in Conns : target[c] # Nobody => reader[c] = "forwarding"
  /\ queue \in [Conns -> Seq(Messages)] /\ got \in [Conns -> Seq(Messages)]
  /\ writer \in [Conns -> {"none", "runs", "closed", "ended"}]
  /\ sent \in [Conns -> 0..MaxMessages]
  /\ displaced \subseteq Conns

(* A slot holds a connection of that room, role and token that has not     *)
(* left; a registered connection is in its slot or was displaced by a      *)
(* later one.  The end of a displaced connection never takes the slot of   *)
(* the one that displaced it.                                              *)
SlotsOwned ==
  /\ \A r \in Rooms, role \in Roles :
       LET c == slot[r][role]
       IN  c # Nobody => /\ Registered(c) \/ reader[c] = "broken"
                         /\ peer[c] = [role |-> role, room |-> r, token |-> token[r]]
  /\ \A c \in Conns : Registered(c) /\ c \notin displaced => slot[RoomOf(c)][RoleOf(c)] = c

(* A room exists exactly as long as one of its slots is taken, so its      *)
(* token can be chosen anew; only a connection that broke keeps it for     *)
(* ever.                                                                   *)
RoomsEnd ==
  \A r \in Rooms :
    token[r] # NoToken <=> \E role \in Roles : slot[r][role] # Nobody

(* What /status reports as active is what is registered, plus every        *)
(* connection that was refused or broke: those are never taken off again.  *)
Counted == {c \in Conns : Registered(c) \/ reader[c] \in {"refused", "broken"}}

ActiveAccounting == active = Cardinality(Counted)

(* What the lock over the rooms keeps together: a slot, its connection, the *)
(* room's token and the count of connections.                              *)
RelayInv == TypeOK /\ SlotsOwned /\ RoomsEnd /\ ActiveAccounting

(* What is sent to the peer of c, in the order it is sent in.              *)
Sees(c) == got[c] \o queue[c]

(* d is the partner of s: the other role of the room that s named, and it  *)
(* showed the same token, unless s was displaced: a room of that name may  *)
(* have been made anew by then.                                            *)
Partners(s, d) ==
  /\ RoomOf(s) = RoomOf(d) /\ RoleOf(s) = Other(RoleOf(d))
  /\ peer[s].token = peer[d].token \/ s \in displaced

(* What a sender has picked a target for is not older than what it sent    *)
(* before.                                                                 *)
Numbered(message) ==
  /\ message.seq <= sent[message.from]
  /\ reader[message.from] = "forwarding" => message.seq < sent[message.from]

(* A message reaches only the partner of its sender, although the target   *)
(* is used after the lock over the rooms was given back and slots change   *)
(* meanwhile.  A peer sees the messages of a sender in their order, none   *)
(* twice.                                                                  *)
Routed ==
  \A c \in Conns :
    /\ target[c] # Nobody => Partners(c, target[c])
    /\ \A i \in DOMAIN Sees(c) :
         Sees(c)[i].from # Nobody =>
           Partners(Sees(c)[i].from, c) /\ Numbered(Sees(c)[i])
    /\ \A i, j \in DOMAIN Sees(c) :
         i < j /\ Sees(c)[i].from = Sees(c)[j].from /\ Sees(c)[i].from # Nobody
           => Sees(c)[i].seq < Sees(c)[j].seq

(* A displaced connection does not linger: it is told to close, closes,    *)
(* and its reader ends, unless the connection breaks before.               *)
DisplacedEnds ==
  \A c \in Conns : c \in displaced ~> (reader[c] \in {"left", "broken"} \/ writer[c] = "ended")
=============================================================================
