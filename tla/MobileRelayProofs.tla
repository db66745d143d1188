-------------------------- MODULE MobileRelayProofs --------------------------
(***************************************************************************)
(* Proofs about MobileRelay, for every finite set of connections, every    *)
(* set of rooms and tokens and any number of messages.                     *)
(***************************************************************************)
EXTENDS MobileRelay, SequenceTheorems, FiniteSetTheorems, TLAPS

(* The sequence a peer sees grows at its end.                              *)
LEMMA SeesAppend ==
  ASSUME NEW S, NEW g \in Seq(S), NEW q \in Seq(S), NEW m \in S
  PROVE  /\ DOMAIN (g \o Append(q, m)) = 1 .. Len(g \o q) + 1
         /\ DOMAIN (g \o q) = 1 .. Len(g \o q)
         /\ \A i \in 1 .. Len(g \o q) : (g \o Append(q, m))[i] = (g \o q)[i]
         /\ (g \o Append(q, m))[Len(g \o q) + 1] = m
         /\ Len(g \o q) \in Nat
<1>1. /\ Append(q, m) \in Seq(S) /\ Len(Append(q, m)) = Len(q) + 1
      /\ \A i \in 1 .. Len(q) : Append(q, m)[i] = q[i]
      /\ Append(q, m)[Len(q) + 1] = m
  BY AppendProperties
<1>2. Len(g) \in Nat /\ Len(q) \in Nat
  BY LenProperties, Zenon
<1>3. /\ g \o q \in Seq(S) /\ Len(g \o q) = Len(g) + Len(q)
      /\ \A i \in 1 .. Len(g) + Len(q) :
           (g \o q)[i] = IF i <= Len(g) THEN g[i] ELSE q[i - Len(g)]
  BY ConcatProperties
<1>4. /\ g \o Append(q, m) \in Seq(S) /\ Len(g \o Append(q, m)) = Len(g) + (Len(q) + 1)
      /\ \A i \in 1 .. Len(g) + (Len(q) + 1) :
           (g \o Append(q, m))[i] = IF i <= Len(g) THEN g[i] ELSE Append(q, m)[i - Len(g)]
  BY <1>1, ConcatProperties
<1>5. DOMAIN (g \o q) = 1 .. Len(g \o q) /\ DOMAIN (g \o Append(q, m)) = 1 .. Len(g \o Append(q, m))
  BY <1>3, <1>4, LenProperties, Zenon
<1>6. ASSUME NEW i \in 1 .. Len(g) + Len(q)
      PROVE  (g \o Append(q, m))[i] = (g \o q)[i]
  BY <1>1, <1>2, <1>3, <1>4
<1> QED
  BY <1>1, <1>2, <1>3, <1>4, <1>5, <1>6

(* A message that is sent stays where it was in that sequence.             *)
LEMMA SeesSend ==
  ASSUME NEW S, NEW g \in Seq(S), NEW q \in Seq(S), q # <<>>
  PROVE  Append(g, Head(q)) \o Tail(q) = g \o q
<1>1. Head(q) \in S /\ Tail(q) \in Seq(S)
  BY HeadTailProperties, Zenon
<1>2. Len(Tail(q)) = Len(q) - 1 /\ \A i \in 1 .. Len(Tail(q)) : Tail(q)[i] = q[i + 1]
  BY HeadTailProperties, Zenon
<1>3. q[1] = Head(q) /\ Len(q) \in Nat \ {0} /\ Len(g) \in Nat
  BY EmptySeq, LenProperties
<1>4. /\ Append(g, Head(q)) \in Seq(S) /\ Len(Append(g, Head(q))) = Len(g) + 1
      /\ \A i \in 1 .. Len(g) : Append(g, Head(q))[i] = g[i]
      /\ Append(g, Head(q))[Len(g) + 1] = Head(q)
  BY <1>1, AppendProperties
<1> DEFINE a == Append(g, Head(q))
<1>5. /\ g \o q \in Seq(S) /\ Len(g \o q) = Len(g) + Len(q)
      /\ \A i \in 1 .. Len(g) + Len(q) :
           (g \o q)[i] = IF i <= Len(g) THEN g[i] ELSE q[i - Len(g)]
  BY ConcatProperties
<1>6. /\ a \o Tail(q) \in Seq(S) /\ Len(a \o Tail(q)) = Len(a) + Len(Tail(q))
      /\ \A i \in 1 .. Len(a) + Len(Tail(q)) :
           (a \o Tail(q))[i] = IF i <= Len(a) THEN a[i] ELSE Tail(q)[i - Len(a)]
  BY <1>1, <1>4, ConcatProperties
<1>7. Len(a \o Tail(q)) = Len(g \o q)
  BY <1>2, <1>3, <1>4, <1>5, <1>6
<1>8. ASSUME NEW i \in 1 .. Len(a \o Tail(q))
      PROVE  (a \o Tail(q))[i] = (g \o q)[i]
  <2>1. CASE i <= Len(g)
    BY <2>1, <1>2, <1>3, <1>4, <1>5, <1>6, <1>7
  <2>2. CASE i = Len(g) + 1
    BY <2>2, <1>2, <1>3, <1>4, <1>5, <1>6, <1>7
  <2>3. CASE i > Len(g) + 1
    <3>1. i - Len(a) \in 1 .. Len(Tail(q)) /\ (i - Len(a)) + 1 = i - Len(g)
      BY <2>3, <1>2, <1>3, <1>4, <1>5, <1>7
    <3> QED
      BY <2>3, <3>1, <1>2, <1>3, <1>4, <1>5, <1>6, <1>7
  <2> QED
    BY <2>1, <2>2, <2>3, <1>3
<1> QED
  BY <1>5, <1>6, <1>7, <1>8, SeqEqual, Zenon

(* What was sent is the beginning of that sequence.                        *)
LEMMA SeesSent ==
  ASSUME NEW S, NEW g \in Seq(S), NEW q \in Seq(S)
  PROVE  /\ g \o <<>> = g
         /\ DOMAIN g \subseteq DOMAIN (g \o q)
         /\ \A i \in DOMAIN g : i \in Nat /\ (g \o q)[i] = g[i]
<1>1. g \o <<>> = g
  BY ConcatEmptySeq, Zenon
<1>2. /\ g \o q \in Seq(S) /\ Len(g \o q) = Len(g) + Len(q)
      /\ \A i \in 1 .. Len(g) + Len(q) :
           (g \o q)[i] = IF i <= Len(g) THEN g[i] ELSE q[i - Len(g)]
  BY ConcatProperties
<1>3. DOMAIN g = 1 .. Len(g) /\ DOMAIN (g \o q) = 1 .. Len(g \o q) /\ Len(g) \in Nat /\ Len(q) \in Nat
  BY <1>2, LenProperties, Zenon
<1> QED
  BY <1>1, <1>2, <1>3

-----------------------------------------------------------------------------
(* Types, slots and the count of connections.                              *)

(* At the beginning there is no connection and no room is taken.           *)
LEMMA InitRelayInv == Init => RelayInv
<1> SUFFICES ASSUME Init PROVE RelayInv
  OBVIOUS
<1> USE NobodyAssumption, RegistrationsAssumption, MessagesAssumption DEF Init
<1>1. TypeOK
  BY EmptySeq DEF TypeOK, Roles, Messages
<1>2. SlotsOwned /\ RoomsEnd
  BY DEF SlotsOwned, RoomsEnd, Registered
<1>3. ActiveAccounting
  <2>1. Counted = {}
    BY DEF Counted, Registered
  <2> QED
    BY <2>1, FS_EmptySet DEF ActiveAccounting
<1> QED
  BY <1>1, <1>2, <1>3 DEF RelayInv

(* A step that touches no slot keeps slots and rooms right as long as      *)
(* nobody is registered or leaves by it.                                   *)
LEMMA SlotsKept ==
  ASSUME RelayInv, UNCHANGED <<token, slot, peer, displaced>>,
         \A d \in Conns : Registered(d)' => Registered(d),
         \A d \in Conns : Registered(d) \/ reader[d] = "broken"
                            => (Registered(d) \/ reader[d] = "broken")'
  PROVE  SlotsOwned' /\ RoomsEnd'
<1>1. SlotsOwned /\ RoomsEnd /\ slot \in [Rooms -> [Roles -> Conns \cup {Nobody}]]
  BY DEF RelayInv, TypeOK
<1>2. SlotsOwned'
  BY <1>1 DEF SlotsOwned, RoomOf, RoleOf
<1>3. RoomsEnd'
  BY <1>1 DEF RoomsEnd
<1> QED
  BY <1>2, <1>3

(* A slot that is taken names its room, its role and the room's token; a   *)
(* room without a token has no slot taken.                                 *)
LEMMA SlotsNamed ==
  ASSUME RelayInv
  PROVE  /\ \A r \in Rooms, role \in Roles :
              slot[r][role] # Nobody =>
                /\ slot[r][role] \in Conns
                /\ RoomOf(slot[r][role]) = r /\ RoleOf(slot[r][role]) = role
                /\ peer[slot[r][role]].token = token[r]
         /\ \A r \in Rooms :
              token[r] # NoToken <=> \E role \in Roles : slot[r][role] # Nobody
         /\ \A c \in Conns : /\ RoomOf(c) \in Rooms /\ RoleOf(c) \in Roles
                            /\ peer[c].token \in Tokens
                            /\ peer[c] = [role |-> RoleOf(c), room |-> RoomOf(c),
                                         token |-> peer[c].token]
<1>1. ASSUME NEW c \in Conns
      PROVE  /\ RoomOf(c) \in Rooms /\ RoleOf(c) \in Roles /\ peer[c].token \in Tokens
             /\ peer[c] = [role |-> RoleOf(c), room |-> RoomOf(c), token |-> peer[c].token]
  <2>1. peer[c] \in Registration
    BY DEF RelayInv, TypeOK
  <2> QED
    BY <2>1 DEF Registration, RoomOf, RoleOf
<1>2. ASSUME NEW r \in Rooms, NEW role \in Roles, slot[r][role] # Nobody
      PROVE  /\ slot[r][role] \in Conns
             /\ RoomOf(slot[r][role]) = r /\ RoleOf(slot[r][role]) = role
             /\ peer[slot[r][role]].token = token[r]
             /\ Registered(slot[r][role]) \/ reader[slot[r][role]] = "broken"
  <2>1. slot[r][role] \in Conns
    BY <1>2 DEF RelayInv, TypeOK
  <2>2. peer[slot[r][role]] = [role |-> role, room |-> r, token |-> token[r]]
    BY <1>2 DEF RelayInv, SlotsOwned
  <2>3. Registered(slot[r][role]) \/ reader[slot[r][role]] = "broken"
    BY <1>2 DEF RelayInv, SlotsOwned
  <2> QED
    BY <2>1, <2>2, <2>3 DEF RoomOf, RoleOf
<1>3. ASSUME NEW r \in Rooms
      PROVE  token[r] # NoToken <=> \E role \in Roles : slot[r][role] # Nobody
  BY DEF RelayInv, RoomsEnd
<1> QED
  BY <1>1, <1>2, <1>3

(* Whoever takes or leaves a slot keeps slots and rooms right.             *)
LEMMA RegisterSlots ==
  ASSUME RelayInv, NEW c \in Conns, Register(c)
  PROVE  SlotsOwned' /\ RoomsEnd'
<1> DEFINE r0 == RoomOf(c)
           k0 == RoleOf(c)
<1>1. /\ c # Nobody /\ r0 \in Rooms /\ k0 \in Roles
      /\ peer[c] = [role |-> k0, room |-> r0, token |-> peer[c].token]
      /\ peer[c].token # NoToken
  BY NobodyAssumption, SlotsNamed
<1>2. /\ token' = [token EXCEPT ![r0] = peer[c].token]
      /\ slot' = [slot EXCEPT ![r0][k0] = c]
      /\ reader' = [reader EXCEPT ![c] = "reading"]
      /\ displaced' = displaced \cup ({slot[r0][k0]} \ {Nobody})
      /\ peer' = peer
      /\ reader[c] = "handshake" /\ token[r0] \in {NoToken, peer[c].token}
  BY DEF Register, TokenFits
<1>3. /\ token \in [Rooms -> Tokens \cup {NoToken}]
      /\ slot \in [Rooms -> [Roles -> Conns \cup {Nobody}]]
      /\ DOMAIN reader = Conns
  BY DEF RelayInv, TypeOK
<1>4. /\ \A r \in Rooms, role \in Roles :
           slot'[r][role] = IF r = r0 /\ role = k0 THEN c ELSE slot[r][role]
      /\ \A r \in Rooms : token'[r] = IF r = r0 THEN peer[c].token ELSE token[r]
      /\ \A d \in Conns : reader'[d] = IF d = c THEN "reading" ELSE reader[d]
  BY <1>1, <1>2, <1>3
<1>5. ASSUME NEW r \in Rooms, NEW role \in Roles, slot'[r][role] # Nobody
      PROVE  /\ reader'[slot'[r][role]] \in {"reading", "forwarding", "broken"}
             /\ peer'[slot'[r][role]] = [role |-> role, room |-> r, token |-> token'[r]]
  <2>1. CASE r = r0 /\ role = k0
    BY <2>1, <1>1, <1>2, <1>4 DEF Registered
  <2>2. CASE ~ (r = r0 /\ role = k0)
    <3> DEFINE d == slot[r][role]
    <3>1. slot'[r][role] = d /\ d # Nobody /\ d \in Conns
      BY <2>2, <1>4, <1>5, SlotsNamed
    <3>2. /\ Registered(d) \/ reader[d] = "broken"
          /\ peer[d] = [role |-> role, room |-> r, token |-> token[r]]
      BY <3>1 DEF RelayInv, SlotsOwned
    <3>3. token'[r] = token[r]
      BY <3>1, <1>2, <1>4, SlotsNamed
    <3>4. reader'[d] = reader[d]
      BY <3>1, <3>2, <1>2, <1>4 DEF Registered
    <3> QED
      BY <3>1, <3>2, <3>3, <3>4, <1>2 DEF Registered
  <2> QED
    BY <2>1, <2>2
<1>6. ASSUME NEW d \in Conns, Registered(d)', d \notin displaced'
      PROVE  slot'[RoomOf(d)][RoleOf(d)] = d
  <2>1. CASE d = c
    BY <2>1, <1>1, <1>4
  <2>2. CASE d # c
    <3>1. Registered(d) /\ d \notin displaced
      BY <2>2, <1>2, <1>4, <1>6 DEF Registered
    <3>2. slot[RoomOf(d)][RoleOf(d)] = d
      BY <3>1 DEF RelayInv, SlotsOwned
    <3>3. ~ (RoomOf(d) = r0 /\ RoleOf(d) = k0)
      BY <3>2, <1>2, <1>6, NobodyAssumption
    <3> QED
      BY <3>2, <3>3, <1>4, SlotsNamed
  <2> QED
    BY <2>1, <2>2
<1>7. SlotsOwned'
  BY <1>2, <1>5, <1>6 DEF SlotsOwned, Registered, RoomOf, RoleOf
<1>8. ASSUME NEW r \in Rooms
      PROVE  token'[r] # NoToken <=> \E role \in Roles : slot'[r][role] # Nobody
  <2>1. CASE r = r0
    BY <2>1, <1>1, <1>4
  <2>2. CASE r # r0
    BY <2>2, <1>4, SlotsNamed
  <2> QED
    BY <2>1, <2>2
<1>9. RoomsEnd'
  BY <1>8 DEF RoomsEnd
<1> QED
  BY <1>7, <1>9

(* A connection that leaves clears only its own slot, and the token only   *)
(* of a room that is empty then.                                           *)
LEMMA UnregisterSlots ==
  ASSUME RelayInv, NEW c \in Conns, Unregister(c)
  PROVE  SlotsOwned' /\ RoomsEnd'
<1> DEFINE r0 == RoomOf(c)
           k0 == RoleOf(c)
           left == [slot[r0] EXCEPT ![k0] = IF @ = c THEN Nobody ELSE @]
<1>1. c # Nobody /\ r0 \in Rooms /\ k0 \in Roles
  BY NobodyAssumption, SlotsNamed
<1>2. /\ slot' = [slot EXCEPT ![r0] = left]
      /\ token' = IF \A role \in Roles : left[role] = Nobody
                  THEN [token EXCEPT ![r0] = NoToken] ELSE token
      /\ reader' = [reader EXCEPT ![c] = "left"]
      /\ displaced' = displaced /\ peer' = peer
      /\ reader[c] = "reading"
  BY DEF Unregister
<1>3. /\ token \in [Rooms -> Tokens \cup {NoToken}]
      /\ slot \in [Rooms -> [Roles -> Conns \cup {Nobody}]]
      /\ DOMAIN reader = Conns
  BY DEF RelayInv, TypeOK
<1>4. ASSUME NEW r \in Rooms, NEW role \in Roles
      PROVE  slot'[r][role] = IF slot[r][role] = c THEN Nobody ELSE slot[r][role]
  <2>1. slot[r][role] = c => r = r0 /\ role = k0
    BY <1>1, SlotsNamed
  <2>2. slot'[r] = IF r = r0 THEN left ELSE slot[r]
    BY <1>1, <1>2, <1>3
  <2>3. left[role] = IF role = k0 /\ slot[r0][role] = c THEN Nobody ELSE slot[r0][role]
    BY <1>1, <1>3
  <2> QED
    BY <2>1, <2>2, <2>3
<1>5. \A r \in Rooms :
        token'[r] = IF r = r0 /\ \A role \in Roles : slot'[r][role] = Nobody
                    THEN NoToken ELSE token[r]
  <2>1. slot'[r0] = left
    BY <1>1, <1>2, <1>3
  <2> QED
    BY <2>1, <1>1, <1>2, <1>3
<1>6. \A d \in Conns : reader'[d] = IF d = c THEN "left" ELSE reader[d]
  BY <1>2, <1>3
<1>7. ASSUME NEW r \in Rooms, NEW role \in Roles, slot'[r][role] # Nobody
      PROVE  /\ reader'[slot'[r][role]] \in {"reading", "forwarding", "broken"}
             /\ peer'[slot'[r][role]] = [role |-> role, room |-> r, token |-> token'[r]]
  <2> DEFINE d == slot[r][role]
  <2>1. slot'[r][role] = d /\ d # Nobody /\ d # c /\ d \in Conns
    BY <1>4, <1>7, SlotsNamed
  <2>2. /\ Registered(d) \/ reader[d] = "broken"
        /\ peer[d] = [role |-> role, room |-> r, token |-> token[r]]
    BY <2>1 DEF RelayInv, SlotsOwned
  <2>3. token'[r] = token[r] /\ reader'[d] = reader[d]
    BY <2>1, <1>5, <1>6, <1>7
  <2> QED
    BY <2>1, <2>2, <2>3, <1>2 DEF Registered
<1>8. ASSUME NEW d \in Conns, Registered(d)', d \notin displaced'
      PROVE  slot'[RoomOf(d)][RoleOf(d)] = d
  <2>1. d # c /\ Registered(d) /\ d \notin displaced
    BY <1>2, <1>6, <1>8 DEF Registered
  <2>2. slot[RoomOf(d)][RoleOf(d)] = d
    BY <2>1 DEF RelayInv, SlotsOwned
  <2> QED
    BY <2>1, <2>2, <1>4, SlotsNamed
<1>9. SlotsOwned'
  BY <1>2, <1>7, <1>8 DEF SlotsOwned, Registered, RoomOf, RoleOf
<1>10. ASSUME NEW r \in Rooms
       PROVE  token'[r] # NoToken <=> \E role \in Roles : slot'[r][role] # Nobody
  <2>1. (\E role \in Roles : slot'[r][role] # Nobody) => token'[r] # NoToken
    BY <1>4, <1>5, SlotsNamed
  <2>2. CASE r = r0
    BY <2>1, <2>2, <1>5
  <2>3. CASE r # r0
    BY <2>1, <2>3, <1>1, <1>4, <1>5, SlotsNamed
  <2> QED
    BY <2>2, <2>3
<1>11. RoomsEnd'
  BY <1>10 DEF RoomsEnd
<1> QED
  BY <1>9, <1>11

(* The count of connections follows the set it counts.                     *)
LEMMA ActiveCount ==
  ASSUME RelayInv, NEW c \in Conns
  PROVE  /\ active' = active /\ Counted' = Counted => ActiveAccounting'
         /\ active' = active + 1 /\ c \notin Counted /\ Counted' = Counted \cup {c}
              => ActiveAccounting'
         /\ active' = Decrement(active) /\ c \in Counted /\ Counted' = Counted \ {c}
              => ActiveAccounting'
<1>1. IsFiniteSet(Counted) /\ Cardinality(Counted) \in Nat /\ active = Cardinality(Counted)
  <2>1. Counted \in SUBSET Conns
    BY DEF Counted
  <2> QED
    BY <2>1, ConnsAssumption, FS_Subset, FS_CardinalityType DEF RelayInv, ActiveAccounting
<1>2. Cardinality(Counted \cup {c}) =
        IF c \in Counted THEN Cardinality(Counted) ELSE Cardinality(Counted) + 1
  BY <1>1, FS_AddElement
<1>3. Cardinality(Counted \ {c}) =
        IF c \in Counted THEN Cardinality(Counted) - 1 ELSE Cardinality(Counted)
  BY <1>1, FS_RemoveElement
<1>4. c \in Counted => Cardinality(Counted) # 0
  BY <1>1, FS_EmptySet
<1> QED
  BY <1>1, <1>2, <1>3, <1>4 DEF ActiveAccounting, Decrement

(* Every step of the readers and writers keeps the rooms in order.         *)
LEMMA NextRelayInv == RelayInv /\ [Next]_vars => RelayInv'
<1> SUFFICES ASSUME RelayInv, [Next]_vars PROVE RelayInv'
  OBVIOUS
<1> USE NobodyAssumption, MessagesAssumption DEF rooms, counts, channels
<1>0. RelayInv => TypeOK /\ SlotsOwned /\ RoomsEnd /\ active \in Nat
  BY DEF RelayInv, TypeOK
<1>1. ASSUME NEW c \in Conns, Connect(c) \/ NotRegistered(c) PROVE RelayInv'
  <2>1. TypeOK'
    <3>1. /\ reader' \in [Conns -> {"none", "handshake", "reading", "forwarding", "refused",
                                     "broken", "left"}]
          /\ \A d \in Conns : reader[d] = "forwarding" => reader'[d] = "forwarding"
      BY <1>1, <1>0 DEF TypeOK, Connect, NotRegistered
    <3>2. UNCHANGED <<rooms, counts, peer, target, channels, sent, displaced>>
      BY <1>1 DEF Connect, NotRegistered
    <3> QED
      BY <1>0, <3>1, <3>2 DEF TypeOK
  <2>2. SlotsOwned' /\ RoomsEnd'
    BY <1>1, <1>0, SlotsKept DEF TypeOK, Registered, Connect, NotRegistered
  <2>3. active' = active /\ Counted' = Counted
    BY <1>1, <1>0 DEF TypeOK, Counted, Registered, Connect, NotRegistered
  <2> QED
    BY <2>1, <2>2, <2>3, ActiveCount DEF RelayInv
<1>2. ASSUME NEW c \in Conns, Register(c) PROVE RelayInv'
  <2>1. TypeOK'
    <3>1. Close \in Messages
      BY DEF Close, Messages
    <3>2. \A d \in Conns : Append(queue[d], Close) \in Seq(Messages)
      BY <1>0, <3>1, AppendProperties DEF TypeOK
    <3>3. queue' \in [Conns -> Seq(Messages)]
      BY <1>2, <1>0, <3>2 DEF TypeOK, Register, Put
    <3>4. token' \in [Rooms -> Tokens \cup {NoToken}]
      BY <1>2, <1>0, SlotsNamed DEF TypeOK, Register
    <3>5. slot' \in [Rooms -> [Roles -> Conns \cup {Nobody}]]
      BY <1>2, <1>0, SlotsNamed DEF TypeOK, Register
    <3>6. displaced' \subseteq Conns
      BY <1>2, <1>0, SlotsNamed DEF TypeOK, Register
    <3> QED
      BY <1>2, <1>0, <3>3, <3>4, <3>5, <3>6 DEF TypeOK, Register
  <2>2. SlotsOwned' /\ RoomsEnd'
    BY <1>2, RegisterSlots
  <2>3. active' = active + 1 /\ c \notin Counted /\ Counted' = Counted \cup {c}
    BY <1>2, <1>0 DEF TypeOK, Counted, Registered, Register
  <2> QED
    BY <2>1, <2>2, <2>3, ActiveCount DEF RelayInv
<1>3. ASSUME NEW c \in Conns, Refuse(c) PROVE RelayInv'
  <2>1. TypeOK'
    BY <1>3, <1>0 DEF TypeOK, Refuse
  <2>2. SlotsOwned' /\ RoomsEnd'
    BY <1>3, <1>0, SlotsKept DEF TypeOK, Registered, Refuse
  <2>3. active' = active + 1 /\ c \notin Counted /\ Counted' = Counted \cup {c}
    BY <1>3, <1>0 DEF TypeOK, Counted, Registered, Refuse
  <2> QED
    BY <2>1, <2>2, <2>3, ActiveCount DEF RelayInv
<1>4. ASSUME NEW c \in Conns, Pick(c) PROVE RelayInv'
  <2>1. TypeOK'
    <3>1. peer[c] \in Registration
      BY <1>0 DEF TypeOK
    <3>2. RoomOf(c) \in Rooms /\ Other(RoleOf(c)) \in Roles
      BY <3>1 DEF RoomOf, RoleOf, Registration, Other, Roles
    <3>3. slot[RoomOf(c)][Other(RoleOf(c))] \in Conns \cup {Nobody}
      BY <1>0, <3>2 DEF TypeOK
    <3>4. /\ target' \in [Conns -> Conns \cup {Nobody}]
          /\ \A d \in Conns : d # c => target'[d] = target[d]
      BY <1>4, <1>0, <3>3 DEF TypeOK, Pick
    <3>5. /\ reader' \in [Conns -> {"none", "handshake", "reading", "forwarding", "refused",
                                     "broken", "left"}]
          /\ reader'[c] = "forwarding"
          /\ \A d \in Conns : d # c => reader'[d] = reader[d]
      BY <1>4, <1>0 DEF TypeOK, Pick
    <3>6. sent' \in [Conns -> 0..MaxMessages] /\ forwarded' \in Nat
      BY <1>4, <1>0 DEF TypeOK, Pick
    <3>7. UNCHANGED <<rooms, active, peer, channels, displaced>>
      BY <1>4 DEF Pick
    <3> QED
      BY <1>0, <3>4, <3>5, <3>6, <3>7 DEF TypeOK
  <2>2. SlotsOwned' /\ RoomsEnd'
    BY <1>4, <1>0, SlotsKept DEF TypeOK, Registered, Pick
  <2>3. active' = active /\ Counted' = Counted
    BY <1>4, <1>0 DEF TypeOK, Counted, Registered, Pick
  <2> QED
    BY <2>1, <2>2, <2>3, ActiveCount DEF RelayInv
<1>5. ASSUME NEW c \in Conns, Forward(c) PROVE RelayInv'
  <2>1. TypeOK'
    <3>1. [from |-> c, seq |-> sent[c]] \in Messages
      BY <1>0 DEF TypeOK, Messages
    <3>2. \A d \in Conns : Append(queue[d], [from |-> c, seq |-> sent[c]]) \in Seq(Messages)
      BY <1>0, <3>1, AppendProperties DEF TypeOK
    <3> QED
      BY <1>5, <1>0, <3>2 DEF TypeOK, Forward, Put
  <2>2. SlotsOwned' /\ RoomsEnd'
    BY <1>5, <1>0, SlotsKept DEF TypeOK, Registered, Forward
  <2>3. active' = active /\ Counted' = Counted
    BY <1>5, <1>0 DEF TypeOK, Counted, Registered, Forward
  <2> QED
    BY <2>1, <2>2, <2>3, ActiveCount DEF RelayInv
<1>6. ASSUME NEW c \in Conns, WriterSends(c) \/ WriterFails(c) \/ WriterStops(c)
      PROVE  RelayInv'
  <2>1. TypeOK'
    <3>1. /\ <<>> \in Seq(Messages)
          /\ queue[c] # <<>> => /\ Tail(queue[c]) \in Seq(Messages)
                               /\ Append(got[c], Head(queue[c])) \in Seq(Messages)
      BY <1>0, HeadTailProperties, AppendProperties, EmptySeq DEF TypeOK
    <3>2. /\ \/ queue' = queue
             \/ queue' = [queue EXCEPT ![c] = <<>>]
             \/ (queue[c] # <<>> /\ queue' = [queue EXCEPT ![c] = Tail(@)])
          /\ \/ got' = got
             \/ (queue[c] # <<>> /\ got' = [got EXCEPT ![c] = Append(@, Head(queue[c]))])
          /\ \/ writer' = writer
             \/ \E how \in {"closed", "ended"} : writer' = [writer EXCEPT ![c] = how]
      BY <1>6 DEF WriterSends, WriterFails, WriterStops
    <3>3. /\ queue \in [Conns -> Seq(Messages)] /\ got \in [Conns -> Seq(Messages)]
          /\ writer \in [Conns -> {"none", "runs", "closed", "ended"}]
      BY <1>0 DEF TypeOK
    <3>4. queue' \in [Conns -> Seq(Messages)]
      BY <3>1, <3>2, <3>3
    <3>5. got' \in [Conns -> Seq(Messages)]
      BY <3>1, <3>2, <3>3
    <3>6. writer' \in [Conns -> {"none", "runs", "closed", "ended"}]
      BY <3>2, <3>3
    <3>7. UNCHANGED <<rooms, counts, reader, peer, target, sent, displaced>>
      BY <1>6 DEF WriterSends, WriterFails, WriterStops
    <3> QED
      BY <1>0, <3>4, <3>5, <3>6, <3>7 DEF TypeOK
  <2>2. SlotsOwned' /\ RoomsEnd'
    BY <1>6, <1>0, SlotsKept DEF Registered, WriterSends, WriterFails, WriterStops
  <2>3. active' = active /\ Counted' = Counted
    BY <1>6, <1>0 DEF Counted, Registered, WriterSends, WriterFails, WriterStops
  <2> QED
    BY <2>1, <2>2, <2>3, ActiveCount DEF RelayInv
<1>7. ASSUME NEW c \in Conns, Unregister(c) PROVE RelayInv'
  <2>1. TypeOK'
    <3>1. queue' \in [Conns -> Seq(Messages)]
      BY <1>7, <1>0, EmptySeq DEF TypeOK, Unregister
    <3>2. token' \in [Rooms -> Tokens \cup {NoToken}]
      BY <1>7, <1>0 DEF TypeOK, Unregister
    <3>3. slot' \in [Rooms -> [Roles -> Conns \cup {Nobody}]]
      BY <1>7, <1>0, SlotsNamed DEF TypeOK, Unregister
    <3>4. active' \in Nat
      BY <1>7, <1>0 DEF Unregister, Decrement
    <3> QED
      BY <1>7, <1>0, <3>1, <3>2, <3>3, <3>4 DEF TypeOK, Unregister
  <2>2. SlotsOwned' /\ RoomsEnd'
    BY <1>7, UnregisterSlots
  <2>3. active' = Decrement(active) /\ c \in Counted /\ Counted' = Counted \ {c}
    BY <1>7, <1>0 DEF TypeOK, Counted, Registered, Unregister
  <2> QED
    BY <2>1, <2>2, <2>3, ActiveCount DEF RelayInv
<1>8. ASSUME NEW c \in Conns, ReadFails(c) PROVE RelayInv'
  <2>1. TypeOK'
    BY <1>8, <1>0 DEF TypeOK, ReadFails
  <2>2. SlotsOwned' /\ RoomsEnd'
    BY <1>8, <1>0, SlotsKept DEF TypeOK, Registered, ReadFails
  <2>3. active' = active /\ Counted' = Counted
    BY <1>8, <1>0 DEF TypeOK, Counted, Registered, ReadFails
  <2> QED
    BY <2>1, <2>2, <2>3, ActiveCount DEF RelayInv
<1>9. CASE UNCHANGED vars
  BY <1>9 DEF vars, RelayInv, TypeOK, SlotsOwned, RoomsEnd, ActiveAccounting, Counted,
              Registered, RoomOf, RoleOf
<1> QED
  BY <1>1, <1>2, <1>3, <1>4, <1>5, <1>6, <1>7, <1>8, <1>9 DEF Next, Step

-----------------------------------------------------------------------------
(* Routing.                                                                *)

(* What the peer of c sees stays or is cut at its end, or grows by a       *)
(* message.                                                                *)
Keeps(c) ==
  /\ DOMAIN Sees(c)' \subseteq DOMAIN Sees(c)
  /\ \A i \in DOMAIN Sees(c)' : Sees(c)'[i] = Sees(c)[i]

Grows(c, message) ==
  /\ DOMAIN Sees(c)' = 1 .. Len(Sees(c)) + 1
  /\ \A i \in DOMAIN Sees(c) : Sees(c)'[i] = Sees(c)[i]
  /\ Sees(c)'[Len(Sees(c)) + 1] = message

(* What a peer sees is a sequence of messages.                             *)
LEMMA SeesType ==
  ASSUME RelayInv, NEW c \in Conns
  PROVE  /\ Len(Sees(c)) \in Nat /\ DOMAIN Sees(c) = 1 .. Len(Sees(c))
         /\ \A i \in DOMAIN Sees(c) : Sees(c)[i] \in Messages
<1>1. Sees(c) \in Seq(Messages)
  BY ConcatProperties DEF RelayInv, TypeOK, Sees
<1> QED
  BY <1>1, LenProperties, ElementOfSeq

(* A peer nothing is queued for keeps what it sees.                        *)
LEMMA Unchanged ==
  ASSUME RelayInv, NEW c \in Conns, queue'[c] = queue[c], got'[c] = got[c]
  PROVE  Keeps(c)
BY DEF Keeps, Sees

(* A peer whose queue is dropped sees nothing else than before.            *)
LEMMA Cut ==
  ASSUME RelayInv, NEW c \in Conns, queue'[c] = <<>>, got'[c] = got[c]
  PROVE  Keeps(c)
<1>1. queue[c] \in Seq(Messages) /\ got[c] \in Seq(Messages)
  BY DEF RelayInv, TypeOK
<1>2. Sees(c) = got[c] \o queue[c] /\ Sees(c)' = got[c]
  BY <1>1, SeesSent DEF Sees
<1>3. /\ DOMAIN got[c] \subseteq DOMAIN (got[c] \o queue[c])
      /\ \A i \in DOMAIN got[c] : (got[c] \o queue[c])[i] = got[c][i]
  BY <1>1, SeesSent
<1> QED
  BY <1>2, <1>3 DEF Keeps

(* A peer sees the same after the writer has sent a queued message.        *)
LEMMA SentOn ==
  ASSUME RelayInv, NEW c \in Conns, queue[c] # <<>>,
         got'[c] = Append(got[c], Head(queue[c])), queue'[c] = Tail(queue[c])
  PROVE  Keeps(c)
<1>1. queue[c] \in Seq(Messages) /\ got[c] \in Seq(Messages)
  BY DEF RelayInv, TypeOK
<1>2. Sees(c)' = Sees(c)
  BY <1>1, SeesSend DEF Sees
<1> QED
  BY <1>2 DEF Keeps

(* A message that is queued is the last one its peer sees.                 *)
LEMMA Grown ==
  ASSUME RelayInv, NEW c \in Conns, NEW message \in Messages,
         queue'[c] = Append(queue[c], message), got'[c] = got[c]
  PROVE  Grows(c, message)
<1>1. queue[c] \in Seq(Messages) /\ got[c] \in Seq(Messages)
  BY DEF RelayInv, TypeOK
<1>2. Sees(c) = got[c] \o queue[c] /\ Sees(c)' = got[c] \o Append(queue[c], message)
  BY DEF Sees
<1>3. ASSUME NEW g \in Seq(Messages), NEW q \in Seq(Messages)
      PROVE  /\ DOMAIN (g \o Append(q, message)) = 1 .. Len(g \o q) + 1
             /\ DOMAIN (g \o q) = 1 .. Len(g \o q)
             /\ \A i \in 1 .. Len(g \o q) : (g \o Append(q, message))[i] = (g \o q)[i]
             /\ (g \o Append(q, message))[Len(g \o q) + 1] = message
  BY SeesAppend
<1>4. /\ DOMAIN (got[c] \o Append(queue[c], message)) = 1 .. Len(got[c] \o queue[c]) + 1
      /\ DOMAIN (got[c] \o queue[c]) = 1 .. Len(got[c] \o queue[c])
      /\ \A i \in 1 .. Len(got[c] \o queue[c]) :
           (got[c] \o Append(queue[c], message))[i] = (got[c] \o queue[c])[i]
      /\ (got[c] \o Append(queue[c], message))[Len(got[c] \o queue[c]) + 1] = message
  BY <1>1, <1>3
<1> QED
  BY <1>2, <1>4 DEF Grows

(* A step after which every peer sees what it saw, less some of the end,   *)
(* or one message more that fits.                                          *)
LEMMA RoutedStep ==
  ASSUME RelayInv, Routed, peer' = peer, displaced \subseteq displaced',
         \A s \in Conns : \/ sent'[s] = sent[s] /\ (reader'[s] = "forwarding" => reader[s] = "forwarding")
                         \/ sent'[s] = sent[s] + 1,
         target' \in [Conns -> Conns \cup {Nobody}],
         \A c, d \in Conns : target'[c] = d => Partners(c, d)',
         \A c \in Conns :
           \/ Keeps(c)
           \/ \E message \in Messages :
                /\ Grows(c, message)
                /\ message.from # Nobody =>
                     /\ Partners(message.from, c)' /\ Numbered(message)'
                     /\ \A i \in DOMAIN Sees(c) :
                          Sees(c)[i].from = message.from => Sees(c)[i].seq < message.seq
  PROVE  Routed'
<1> USE DEF Messages
<1>1. \A s \in Conns : sent[s] \in Nat
  BY MessagesAssumption DEF RelayInv, TypeOK
<1>2. ASSUME NEW m \in Messages, m.from # Nobody, Numbered(m)
      PROVE  Numbered(m)'
  BY <1>1, <1>2 DEF Numbered
<1>3. ASSUME NEW c \in Conns, NEW s \in Conns, Partners(s, c)
      PROVE  Partners(s, c)'
  BY <1>3 DEF Partners, RoomOf, RoleOf
<1>4. ASSUME NEW c \in Conns
      PROVE  /\ \A i \in DOMAIN Sees(c)' : Sees(c)'[i] \in Messages
             /\ \A i \in DOMAIN Sees(c)' : \A m \in Messages :
                  Sees(c)'[i] = m /\ m.from # Nobody => Partners(m.from, c)' /\ Numbered(m)'
             /\ \A i, j \in DOMAIN Sees(c)' :
                  i < j /\ Sees(c)'[i].from = Sees(c)'[j].from /\ Sees(c)'[i].from # Nobody
                    => Sees(c)'[i].seq < Sees(c)'[j].seq
  <2>1. /\ Len(Sees(c)) \in Nat /\ DOMAIN Sees(c) = 1 .. Len(Sees(c))
        /\ \A i \in DOMAIN Sees(c) : Sees(c)[i] \in Messages
    BY SeesType
  <2>2. ASSUME NEW i \in DOMAIN Sees(c), NEW m \in Messages, Sees(c)[i] = m, m.from # Nobody
        PROVE  Partners(m.from, c)' /\ Numbered(m)'
    <3>1. Partners(m.from, c) /\ Numbered(m)
      BY <2>2 DEF Routed
    <3> QED
      BY <3>1, <2>2, <1>2, <1>3
  <2>3. \A i, j \in DOMAIN Sees(c) :
          i < j /\ Sees(c)[i].from = Sees(c)[j].from /\ Sees(c)[i].from # Nobody
            => Sees(c)[i].seq < Sees(c)[j].seq
    BY DEF Routed
  <2>4. CASE Keeps(c)
    BY <2>1, <2>2, <2>3, <2>4 DEF Keeps
  <2>5. ASSUME NEW message \in Messages, Grows(c, message),
               message.from # Nobody =>
                 /\ Partners(message.from, c)' /\ Numbered(message)'
                 /\ \A i \in DOMAIN Sees(c) :
                      Sees(c)[i].from = message.from => Sees(c)[i].seq < message.seq
        PROVE  /\ \A i \in DOMAIN Sees(c)' : Sees(c)'[i] \in Messages
               /\ \A i \in DOMAIN Sees(c)' : \A m \in Messages :
                    Sees(c)'[i] = m /\ m.from # Nobody => Partners(m.from, c)' /\ Numbered(m)'
               /\ \A i, j \in DOMAIN Sees(c)' :
                    i < j /\ Sees(c)'[i].from = Sees(c)'[j].from /\ Sees(c)'[i].from # Nobody
                      => Sees(c)'[i].seq < Sees(c)'[j].seq
    <3> DEFINE n == Len(Sees(c))
    <3>1. ASSUME NEW i \in DOMAIN Sees(c)'
          PROVE  \/ i \in DOMAIN Sees(c) /\ i <= n /\ Sees(c)'[i] = Sees(c)[i]
                 \/ i = n + 1 /\ Sees(c)'[i] = message
      BY <2>1, <2>5 DEF Grows
    <3>2. \A i \in DOMAIN Sees(c)' : Sees(c)'[i] \in Messages
      BY <3>1, <2>1
    <3>3. \A i \in DOMAIN Sees(c)' : \A m \in Messages :
            Sees(c)'[i] = m /\ m.from # Nobody => Partners(m.from, c)' /\ Numbered(m)'
      BY <3>1, <2>2, <2>5
    <3>4. ASSUME NEW i \in DOMAIN Sees(c)', NEW j \in DOMAIN Sees(c)',
                 i < j, Sees(c)'[i].from = Sees(c)'[j].from, Sees(c)'[i].from # Nobody
          PROVE  Sees(c)'[i].seq < Sees(c)'[j].seq
      BY <3>1, <3>4, <2>1, <2>3, <2>5
    <3> QED
      BY <3>2, <3>3, <3>4
  <2> QED
    BY <2>4, <2>5
<1>5. ASSUME NEW c \in Conns
      PROVE  /\ (target[c] # Nobody => Partners(c, target[c]))'
             /\ (\A i \in DOMAIN Sees(c) :
                   Sees(c)[i].from # Nobody =>
                     Partners(Sees(c)[i].from, c) /\ Numbered(Sees(c)[i]))'
             /\ (\A i, j \in DOMAIN Sees(c) :
                   i < j /\ Sees(c)[i].from = Sees(c)[j].from /\ Sees(c)[i].from # Nobody
                     => Sees(c)[i].seq < Sees(c)[j].seq)'
  <2>1. (target[c] # Nobody => Partners(c, target[c]))'
    BY DEF Partners, RoomOf, RoleOf
  <2> QED
    BY <2>1, <1>4
<1> QED
  BY <1>5 DEF Routed

(* At the beginning nothing was sent.                                      *)
LEMMA InitRouted == Init => Routed
<1> SUFFICES ASSUME Init, NEW c \in Conns
             PROVE  target[c] = Nobody /\ Sees(c) = <<>> /\ DOMAIN Sees(c) = {}
  BY DEF Routed
<1>1. Sees(c) = <<>> \o <<>> /\ target[c] = Nobody
  BY DEF Init, Sees
<1>2. <<>> \o <<>> = <<>>
  BY EmptySeq, ConcatEmptySeq
<1> QED
  BY <1>1, <1>2

(* The target a sender picks is its partner: the slot of the other role    *)
(* holds a connection with the room's token, which is the sender's own     *)
(* unless the sender was displaced.                                        *)
LEMMA PickedPartner ==
  ASSUME RelayInv, NEW c \in Conns, reader[c] = "reading",
         slot[RoomOf(c)][Other(RoleOf(c))] # Nobody
  PROVE  /\ slot[RoomOf(c)][Other(RoleOf(c))] \in Conns
         /\ Partners(c, slot[RoomOf(c)][Other(RoleOf(c))])
<1> DEFINE d == slot[RoomOf(c)][Other(RoleOf(c))]
<1>1. RoomOf(c) \in Rooms /\ RoleOf(c) \in Roles /\ Other(RoleOf(c)) \in Roles
      /\ Other(Other(RoleOf(c))) = RoleOf(c)
  BY SlotsNamed DEF Other, Roles
<1>2. d \in Conns /\ RoomOf(d) = RoomOf(c) /\ RoleOf(d) = Other(RoleOf(c))
      /\ peer[d].token = token[RoomOf(c)]
  BY <1>1, SlotsNamed
<1>3. c \notin displaced => slot[RoomOf(c)][RoleOf(c)] = c
  BY DEF RelayInv, SlotsOwned, Registered
<1>4. c \notin displaced => peer[c].token = token[RoomOf(c)]
  BY <1>1, <1>3, SlotsNamed, NobodyAssumption
<1> QED
  BY <1>1, <1>2, <1>4 DEF Partners

(* Every step delivers in order, and only to the partner.                  *)
LEMMA NextRouted == RelayInv /\ Routed /\ [Next]_vars => Routed'
<1> SUFFICES ASSUME RelayInv, Routed, [Next]_vars PROVE Routed'
  OBVIOUS
<1> USE NobodyAssumption DEF rooms, counts, channels
<1>0. /\ target' \in [Conns -> Conns \cup {Nobody}]
      /\ target \in [Conns -> Conns \cup {Nobody}]
      /\ reader \in [Conns -> {"none", "handshake", "reading", "forwarding", "refused",
                               "broken", "left"}]
      /\ queue \in [Conns -> Seq(Messages)] /\ got \in [Conns -> Seq(Messages)]
      /\ sent \in [Conns -> 0..MaxMessages] /\ writer \in [Conns -> {"none", "runs", "closed", "ended"}]
      /\ \A c, d \in Conns : target[c] = d => Partners(c, d)
  BY NextRelayInv DEF RelayInv, TypeOK, Routed
<1>1. ASSUME NEW c \in Conns,
             Connect(c) \/ NotRegistered(c) \/ Refuse(c) \/ ReadFails(c)
      PROVE  Routed'
  <2>1. /\ UNCHANGED <<peer, displaced, sent, target, queue, got>>
        /\ \A s \in Conns : reader'[s] = "forwarding" => reader[s] = "forwarding"
    BY <1>1, <1>0 DEF Connect, NotRegistered, Refuse, ReadFails
  <2>2. \A d \in Conns : Keeps(d)
    BY <2>1, Unchanged
  <2>3. \A e, d \in Conns : target'[e] = d => Partners(e, d)'
    BY <2>1, <1>0 DEF Partners, RoomOf, RoleOf
  <2> QED
    BY <2>1, <2>2, <2>3, <1>0, RoutedStep
<1>2. ASSUME NEW c \in Conns, Register(c) PROVE Routed'
  <2>1. /\ UNCHANGED <<peer, sent, target, got>> /\ displaced \subseteq displaced'
        /\ \A s \in Conns : reader'[s] = "forwarding" => reader[s] = "forwarding"
    BY <1>2, <1>0 DEF Register
  <2>2. Close \in Messages /\ Close.from = Nobody
    BY MessagesAssumption DEF Close, Messages
  <2>3. ASSUME NEW d \in Conns PROVE Keeps(d) \/ Grows(d, Close)
    <3>1. queue'[d] = queue[d] \/ queue'[d] = Append(queue[d], Close)
      BY <1>2, <1>0 DEF Register, Put
    <3> QED
      BY <3>1, <2>1, <2>2, Unchanged, Grown
  <2>4. \A e, d \in Conns : target'[e] = d => Partners(e, d)'
    BY <2>1, <1>0 DEF Partners, RoomOf, RoleOf
  <2> QED
    BY <2>1, <2>2, <2>3, <2>4, <1>0, RoutedStep
<1>3. ASSUME NEW c \in Conns, Pick(c) PROVE Routed'
  <2>1. /\ UNCHANGED <<peer, displaced, queue, got>>
        /\ reader' = [reader EXCEPT ![c] = "forwarding"]
        /\ sent' = [sent EXCEPT ![c] = @ + 1]
        /\ target' = [target EXCEPT ![c] = slot[RoomOf(c)][Other(RoleOf(c))]]
        /\ reader[c] = "reading"
    BY <1>3 DEF Pick
  <2>2. \A d \in Conns : Keeps(d)
    BY <2>1, Unchanged
  <2>3. \A s \in Conns : \/ sent'[s] = sent[s] /\ (reader'[s] = "forwarding" => reader[s] = "forwarding")
                        \/ sent'[s] = sent[s] + 1
    BY <2>1, <1>0
  <2>4. ASSUME NEW e \in Conns, NEW d \in Conns, target'[e] = d PROVE Partners(e, d)'
    <3>1. Partners(e, d)
      BY <2>1, <2>4, <1>0, PickedPartner
    <3> QED
      BY <3>1, <2>1 DEF Partners, RoomOf, RoleOf
  <2> QED
    BY <2>1, <2>2, <2>3, <2>4, <1>0, RoutedStep
<1>4. ASSUME NEW c \in Conns, Forward(c) PROVE Routed'
  <2> DEFINE message == [from |-> c, seq |-> sent[c]]
  <2>1. /\ UNCHANGED <<peer, displaced, sent, got>>
        /\ reader' = [reader EXCEPT ![c] = "reading"]
        /\ target' = [target EXCEPT ![c] = Nobody]
        /\ reader[c] = "forwarding"
        /\ queue' = IF target[c] = Nobody THEN queue ELSE Put(queue, target[c], message)
    BY <1>4 DEF Forward
  <2>2. message \in Messages /\ message.from = c /\ message.seq = sent[c] /\ sent[c] \in Nat
    BY <1>0, MessagesAssumption DEF Messages
  <2>3. Numbered(message)'
    BY <2>1, <2>2, <1>0 DEF Numbered
  <2>4. ASSUME NEW d \in Conns
        PROVE  Keeps(d) \/ (Grows(d, message) /\ Partners(c, d)')
    <3>1. \/ queue'[d] = queue[d]
          \/ d = target[c] /\ queue'[d] = Append(queue[d], message)
      BY <2>1, <1>0 DEF Put
    <3>2. d = target[c] => Partners(c, d)'
      BY <2>1, <1>0 DEF Partners, RoomOf, RoleOf
    <3> QED
      BY <3>1, <3>2, <2>1, <2>2, Unchanged, Grown
  <2>5. ASSUME NEW d \in Conns, NEW i \in DOMAIN Sees(d), Sees(d)[i].from = c
        PROVE  Sees(d)[i].seq < sent[c]
    BY <2>1, <2>5 DEF Routed, Numbered
  <2>6. \A e, d \in Conns : target'[e] = d => Partners(e, d)'
    BY <2>1, <1>0 DEF Partners, RoomOf, RoleOf
  <2>7. \A s \in Conns : sent'[s] = sent[s] /\ (reader'[s] = "forwarding" => reader[s] = "forwarding")
    BY <2>1, <1>0
  <2> QED
    BY <2>1, <2>2, <2>3, <2>4, <2>5, <2>6, <2>7, <1>0, RoutedStep
<1>5. ASSUME NEW c \in Conns,
             WriterSends(c) \/ WriterFails(c) \/ WriterStops(c) \/ Unregister(c)
      PROVE  Routed'
  <2>1. /\ UNCHANGED <<peer, displaced, sent, target>>
        /\ \A s \in Conns : reader'[s] = "forwarding" => reader[s] = "forwarding"
    BY <1>5, <1>0 DEF WriterSends, WriterFails, WriterStops, Unregister
  <2>2. ASSUME NEW d \in Conns PROVE Keeps(d)
    <3>1. \/ got'[d] = got[d] /\ queue'[d] = queue[d]
          \/ got'[d] = got[d] /\ queue'[d] = <<>>
          \/ /\ queue[d] # <<>>
             /\ got'[d] = Append(got[d], Head(queue[d])) /\ queue'[d] = Tail(queue[d])
      BY <1>5, <1>0 DEF WriterSends, WriterFails, WriterStops, Unregister
    <3>2. CASE got'[d] = got[d]
      BY <3>1, <3>2, Unchanged, Cut, SentOn
    <3>3. CASE /\ queue[d] # <<>>
               /\ got'[d] = Append(got[d], Head(queue[d])) /\ queue'[d] = Tail(queue[d])
      BY <3>3, SentOn
    <3> QED
      BY <3>1, <3>2, <3>3
  <2>3. \A e, d \in Conns : target'[e] = d => Partners(e, d)'
    BY <2>1, <1>0 DEF Partners, RoomOf, RoleOf
  <2> QED
    BY <2>1, <2>2, <2>3, <1>0, RoutedStep
<1>6. CASE UNCHANGED vars
  <2>1. UNCHANGED <<peer, displaced, sent, target, queue, got, reader>>
    BY <1>6 DEF vars
  <2>2. \A d \in Conns : Keeps(d)
    BY <2>1, Unchanged
  <2>3. \A e, d \in Conns : target'[e] = d => Partners(e, d)'
    BY <2>1, <1>0 DEF Partners, RoomOf, RoleOf
  <2> QED
    BY <2>1, <2>2, <2>3, <1>0, RoutedStep
<1> QED
  BY <1>1, <1>2, <1>3, <1>4, <1>5, <1>6 DEF Next, Step

-----------------------------------------------------------------------------
(* The lock over the rooms keeps slots, connections, tokens and the count  *)
(* of connections together: a displaced connection never takes the slot    *)
(* of the one that displaced it (register_peer, unregister_peer).          *)
THEOREM RelayInvariant == Spec => []RelayInv
<1>1. Init => RelayInv
  BY InitRelayInv
<1>2. RelayInv /\ [Next]_vars => RelayInv'
  BY NextRelayInv
<1> QED
  BY <1>1, <1>2, PTL DEF Spec

(* A message reaches only the partner of its sender, in order and once,    *)
(* although forward_message uses the channel after it gave the lock back.  *)
THEOREM RelayRouted == Spec => []Routed
<1>1. Init => RelayInv /\ Routed
  BY InitRelayInv, InitRouted
<1>2. RelayInv /\ Routed /\ [Next]_vars => (RelayInv /\ Routed)'
  BY NextRelayInv, NextRouted
<1> QED
  BY <1>1, <1>2, PTL DEF Spec
=============================================================================
