------------------------ MODULE WeixinConnectProofs ------------------------
(***************************************************************************)
(* Proofs about WeixinConnect, for every sequence of messages, all peers,  *)
(* every size of a batch and of the list of keys, and any number of        *)
(* failures.                                                               *)
(***************************************************************************)
EXTENDS WeixinConnect, SequenceTheorems, FiniteSetTheorems, TLAPS

(* The messages are numbered in the order of the gateway.                  *)
LEMMA MessageNumbers == Len(Kind) \in Nat /\ Messages = 1 .. Len(Kind)
BY MessagesAssumption, LenProperties DEF Messages

(* A sequence that is not empty, by its first element and the others.      *)
LEMMA HeadAndTail ==
  ASSUME NEW s \in Seq(Messages), s # <<>>
  PROVE  /\ Head(s) = s[1] /\ Head(s) \in Messages /\ Tail(s) \in Seq(Messages)
         /\ Len(s) \in Nat \ {0} /\ DOMAIN s = 1 .. Len(s)
         /\ Len(Tail(s)) = Len(s) - 1 /\ DOMAIN Tail(s) = 1 .. Len(s) - 1
         /\ \A i \in 1 .. Len(s) - 1 : Tail(s)[i] = s[i + 1]
         /\ ToSet(s) = {Head(s)} \cup ToSet(Tail(s))
<1>1. Head(s) \in Messages /\ Tail(s) \in Seq(Messages) /\ Len(Tail(s)) = Len(s) - 1
      /\ \A i \in 1 .. Len(Tail(s)) : Tail(s)[i] = s[i + 1]
  BY HeadTailProperties
<1>2. Len(s) \in Nat \ {0} /\ DOMAIN s = 1 .. Len(s) /\ Head(s) = s[1]
  BY EmptySeq, LenProperties
<1>3. DOMAIN Tail(s) = 1 .. Len(s) - 1
  BY <1>1, LenProperties
<1>4. \A i \in 1 .. Len(s) - 1 : Tail(s)[i] = s[i + 1]
  BY <1>1
<1>5. ASSUME NEW i \in DOMAIN s
      PROVE  s[i] \in {Head(s)} \cup ToSet(Tail(s))
  <2>1. CASE i = 1
    BY <2>1, <1>2
  <2>2. CASE i # 1
    <3>1. i - 1 \in DOMAIN Tail(s) /\ Tail(s)[i - 1] = s[i]
      BY <2>2, <1>2, <1>3, <1>4
    <3> QED
      BY <3>1 DEF ToSet
  <2> QED
    BY <2>1, <2>2
<1>6. ASSUME NEW i \in DOMAIN Tail(s)
      PROVE  Tail(s)[i] \in ToSet(s)
  <2>1. i + 1 \in DOMAIN s /\ Tail(s)[i] = s[i + 1]
    BY <1>2, <1>3, <1>4
  <2> QED
    BY <2>1 DEF ToSet
<1>7. 1 \in DOMAIN s
  BY <1>2
<1>8. Head(s) \in ToSet(s)
  BY <1>2, <1>7 DEF ToSet
<1>9. ToSet(s) = {Head(s)} \cup ToSet(Tail(s))
  <2>1. ToSet(s) \subseteq {Head(s)} \cup ToSet(Tail(s))
    BY <1>5 DEF ToSet
  <2>2. ToSet(Tail(s)) \subseteq ToSet(s)
    BY <1>6, Zenon DEF ToSet
  <2> QED
    BY <2>1, <2>2, <1>8
<1> QED
  BY <1>1, <1>2, <1>3, <1>4, <1>9

(* The elements of a sequence with one more at its end.                    *)
LEMMA OneMore ==
  ASSUME NEW s \in Seq(Messages), NEW m \in Messages
  PROVE  /\ Append(s, m) \in Seq(Messages) /\ Append(s, m) # <<>>
         /\ DOMAIN s = 1 .. Len(s) /\ Len(s) \in Nat
         /\ Len(Append(s, m)) = Len(s) + 1 /\ DOMAIN Append(s, m) = 1 .. Len(s) + 1
         /\ \A i \in 1 .. Len(s) : Append(s, m)[i] = s[i]
         /\ Append(s, m)[Len(s) + 1] = m
BY AppendProperties, LenProperties

(* mark_processed touches only the keys.                                   *)
LEMMA MarkTouchesKeys ==
  ASSUME mem \in States, NEW m \in Messages
  PROVE  /\ Mark(mem, m) \in States
         /\ Mark(mem, m).cursor = mem.cursor /\ Mark(mem, m).thread = mem.thread
<1> DEFINE keys == Append(mem.processed, m)
           kept == IF Len(keys) > MaxProcessed THEN Tail(keys) ELSE keys
<1>1. mem.processed \in Seq(Messages)
  BY DEF States
<1>2. keys \in Seq(Messages) /\ keys # <<>>
  BY <1>1, OneMore
<1>3. Tail(keys) \in Seq(Messages)
  BY <1>2, HeadAndTail
<1>4. kept \in Seq(Messages)
  BY <1>2, <1>3
<1>5. Mark(mem, m) = IF IsProcessed(m) THEN mem ELSE [mem EXCEPT !.processed = kept]
  BY DEF Mark
<1> HIDE DEF kept
<1> QED
  BY <1>4, <1>5 DEF States

(* Where the loop has a message before it.                                 *)
Working == pc \in {"server", "thread", "turn", "reading", "sent", "failed", "save"}

(* There, the message is one of the gateway's.                             *)
LEMMA CurrentMessage ==
  ASSUME TypeOK, batch # <<>>
  PROVE  Current \in Messages /\ Peer \in Users /\ Tail(batch) \in Seq(Messages)
BY HeadAndTail, MessagesAssumption DEF TypeOK, Current, Peer

(* The events of s, and others of m that are not the response to it.       *)
Continues(o, s, m) ==
  \A i \in DOMAIN o : (i \in DOMAIN s /\ o[i] = s[i]) \/ (o[i].of = m /\ o[i].is # "response")

(* The events of a turn are put at the end of the stream.                  *)
LEMMA StreamGrows ==
  ASSUME NEW s \in Seq(Events), NEW m \in Messages,
         NEW text \in {<<>>, <<[is |-> "text", of |-> m]>>}, NEW o,
         o = s \o text \o <<[is |-> "completed", of |-> m], [is |-> "idle", of |-> m]>>
  PROVE  o \in Seq(Events) /\ Continues(o, s, m)
<1> DEFINE end == <<[is |-> "completed", of |-> m], [is |-> "idle", of |-> m]>>
           more == s \o text
<1>0. o = more \o end
  OBVIOUS
<1>1. end \in Seq(Events) /\ Len(end) = 2
  BY DEF Events
<1>2. <<[is |-> "text", of |-> m]>> \in Seq(Events) /\ <<>> \in Seq(Events)
  BY DEF Events
<1>3. text \in Seq(Events) /\ Len(text) \in {0, 1} /\ \A i \in 1 .. Len(text) : text[i].of = m /\ text[i].is = "text"
  <2>1. CASE text = <<>>
    BY <1>2, <2>1
  <2>2. CASE text = <<[is |-> "text", of |-> m]>>
    BY <1>2, <2>2
  <2> QED
    BY <2>1, <2>2
<1>4. \A i \in 1 .. 2 : end[i].of = m /\ end[i].is # "response"
  OBVIOUS
<1>5. /\ more \in Seq(Events) /\ Len(more) = Len(s) + Len(text)
      /\ \A i \in 1 .. Len(s) + Len(text) : more[i] = IF i <= Len(s) THEN s[i] ELSE text[i - Len(s)]
  BY <1>3, ConcatProperties
<1> HIDE DEF end, more
<1>6. /\ o \in Seq(Events) /\ Len(o) = Len(more) + 2
      /\ \A i \in 1 .. Len(more) + 2 : o[i] = IF i <= Len(more) THEN more[i] ELSE end[i - Len(more)]
  <2>1. /\ more \o end \in Seq(Events) /\ Len(more \o end) = Len(more) + Len(end)
        /\ \A i \in 1 .. Len(more) + Len(end) :
             (more \o end)[i] = IF i <= Len(more) THEN more[i] ELSE end[i - Len(more)]
    <3>1. more \in Seq(Events) /\ end \in Seq(Events)
      BY <1>1, <1>5
    <3> QED
      BY ONLY <3>1, ConcatProperties, Zenon
  <2> QED
    BY <1>0, <1>1, <2>1, Zenon
<1>7. DOMAIN o = 1 .. Len(o) /\ DOMAIN s = 1 .. Len(s) /\ Len(s) \in Nat
  BY <1>6, LenProperties
<1>8. ASSUME NEW i \in DOMAIN o
      PROVE  \/ i \in DOMAIN s /\ o[i] = s[i]
             \/ o[i].of = m /\ o[i].is # "response"
  <2>1. CASE i <= Len(s)
    BY <1>1, <1>3, <1>5, <1>6, <1>7, <2>1
  <2>2. CASE i > Len(s) /\ i <= Len(s) + Len(text)
    <3>1. i - Len(s) \in 1 .. Len(text) /\ o[i] = text[i - Len(s)]
      BY <1>1, <1>3, <1>5, <1>6, <1>7, <2>2
    <3> QED
      BY <1>3, <3>1
  <2>3. CASE i > Len(s) + Len(text)
    <3>2. i \in 1 .. Len(more) + 2 /\ ~ (i <= Len(more)) /\ i - Len(more) \in 1 .. 2
      <4>1. Len(more) \in Nat /\ i > Len(more) /\ i \in 1 .. Len(o)
        BY <1>3, <1>5, <1>7, <2>3
      <4>2. Len(o) = Len(more) + 2
        BY <1>6
      <4> QED
        BY ONLY <4>1, <4>2
    <3>1. i - Len(more) \in 1 .. 2 /\ o[i] = end[i - Len(more)]
      BY <1>6, <3>2
    <3> QED
      BY <1>4, <3>1
  <2> QED
    BY <1>1, <1>3, <1>5, <1>6, <1>7, <2>1, <2>2, <2>3
<1> QED
  BY <1>6, <1>8 DEF Continues

(* The numbers of a batch are messages.                                    *)
LEMMA BatchOfMessages ==
  ASSUME NEW c \in 0 .. Len(Kind), NEW last \in c .. Len(Kind)
  PROVE  LET b == [i \in 1 .. (last - c) |-> c + i]
         IN  /\ b \in Seq(Messages) /\ Len(b) = last - c /\ DOMAIN b = 1 .. (last - c)
             /\ ToSet(b) = (c + 1) .. last
<1> DEFINE b == [i \in 1 .. (last - c) |-> c + i]
<1>1. last - c \in Nat
  BY MessageNumbers
<1>2. \A i \in 1 .. (last - c) : c + i \in Messages
  BY MessageNumbers
<1>3. b \in [1 .. (last - c) -> Messages]
  BY <1>2
<1>4. b \in Seq(Messages)
  <2> HIDE DEF b
  <2> QED
    BY <1>1, <1>3, SeqDef
<1>5. Len(b) = last - c
  BY <1>1, <1>4, LenProperties
<1>6. ToSet(b) = (c + 1) .. last
  <2>1. ASSUME NEW m \in (c + 1) .. last
        PROVE  m - c \in DOMAIN b /\ b[m - c] = m
    BY MessageNumbers
  <2>2. \A i \in DOMAIN b : b[i] \in (c + 1) .. last
    BY MessageNumbers
  <2> QED
    BY <2>1, <2>2 DEF ToSet
<1> QED
  BY <1>4, <1>5, <1>6

(* A conversation that is begun or given up changes nothing else.          *)
LEMMA ThreadChanged ==
  ASSUME NEW state \in States, NEW u \in Users, NEW v \in Users \cup {Nobody}
  PROVE  LET s == [state EXCEPT !.thread[u] = v]
         IN  /\ s \in States /\ s.cursor = state.cursor /\ s.processed = state.processed
             /\ \A w \in Users : s.thread[w] = IF w = u THEN v ELSE state.thread[w]
<1> DEFINE t == [state.thread EXCEPT ![u] = v]
           s == [state EXCEPT !.thread[u] = v]
<1>1. state.thread \in [Users -> Users \cup {Nobody}]
  BY DEF States
<1>2. t \in [Users -> Users \cup {Nobody}] /\ \A w \in Users : t[w] = IF w = u THEN v ELSE state.thread[w]
  BY <1>1
<1>3. s = [state EXCEPT !.thread = t]
  BY DEF States
<1> HIDE DEF t, s
<1>4. s \in States /\ s.cursor = state.cursor /\ s.processed = state.processed /\ s.thread = t
  BY <1>2, <1>3 DEF States
<1> QED
  BY <1>2, <1>4 DEF s

(* A reply that is sent answers the current message, one that is not none. *)
LEMMA SentAnswers ==
  ASSUME Send
  PROVE  \/ replies' = replies \cup {Reply} /\ Answered' = Answered \cup {Current} /\ pc' = "sent"
         \/ replies' = replies /\ Answered' = Answered /\ pc' = "failed"
<1>1. Reply.to = Current
  BY DEF Reply
<1>2. CASE replies' = replies \cup {Reply} /\ pc' = "sent"
  BY <1>1, <1>2, Zenon DEF Answered
<1>3. CASE replies' = replies /\ pc' = "failed"
  BY <1>3 DEF Answered
<1> QED
  BY <1>2, <1>3 DEF Send, Goto

-----------------------------------------------------------------------------
(* The types.                                                              *)

(* What changes in a step keeps its type.                                  *)
LEMMA NextTypeOK ==
  ASSUME TypeOK, Working => batch # <<>>, Next
  PROVE  TypeOK'
<1> USE DEF Trouble, loop, command, history
<1>0. (replies' = replies => Answered' = Answered) /\ Unsaved \subseteq Answered
  BY DEF Answered, Unsaved
<1>1. NoServer \in Servers /\ Started \in Servers
  <2>1. <<>> \in Seq(Events)
    BY EmptySeq
  <2>2. NoServer \in Servers
    BY <2>1 DEF NoServer, Servers
  <2> QED
    BY <2>2 DEF Started, Servers
<1>2. Empty \in States
  <2>1. <<>> \in Seq(Messages)
    BY EmptySeq
  <2> QED
    BY <2>1, MessageNumbers DEF Empty, States
<1>3. Drained \in Servers
  <2>1. <<>> \in Seq(Events)
    BY EmptySeq
  <2> QED
    BY <2>1 DEF TypeOK, Drained, Servers
<1>4. \A n \in 0 .. MaxTrouble : n < MaxTrouble => n + 1 \in 0 .. MaxTrouble
  BY BoundsAssumption
<1>5. <<>> \in Seq(Messages)
  BY EmptySeq
<1>6. batch # <<>> =>
        /\ Current \in Messages /\ Peer \in Users /\ Tail(batch) \in Seq(Messages)
        /\ Mark(mem, Current) \in States /\ Current \in 0 .. Len(Kind)
        /\ ToSet(Tail(batch)) \subseteq Messages
  <2>1. SUFFICES ASSUME batch # <<>>
                 PROVE  /\ Current \in Messages /\ Peer \in Users /\ Tail(batch) \in Seq(Messages)
                        /\ Mark(mem, Current) \in States /\ Current \in 0 .. Len(Kind)
                        /\ ToSet(Tail(batch)) \subseteq Messages
    OBVIOUS
  <2>2. Current \in Messages /\ Peer \in Users /\ Tail(batch) \in Seq(Messages)
    BY <2>1, CurrentMessage
  <2>3. Mark(mem, Current) \in States
    BY <2>2, MarkTouchesKeys DEF TypeOK
  <2>4. ToSet(Tail(batch)) \subseteq Messages
    BY <2>2, ElementOfSeq, LenProperties DEF ToSet
  <2> QED
    BY <2>2, <2>3, <2>4, MessageNumbers
<1>7. ToSet(batch) \subseteq Messages
  BY ElementOfSeq, LenProperties DEF ToSet, TypeOK
<1>8. CASE Start
  BY <1>0, <1>8 DEF TypeOK, Start
<1>9. CASE Stop
  BY <1>0, <1>4, <1>9 DEF TypeOK, Stop
<1>10. CASE StopTells
  BY <1>0, <1>10 DEF TypeOK, StopTells
<1>11. CASE Load
  BY <1>0, <1>2, <1>4, <1>11 DEF TypeOK, Load
<1>12. CASE PollFails \/ CannotStart
  BY <1>0, <1>4, <1>12 DEF TypeOK, PollFails, CannotStart
<1>13. CASE LoopEnds
  BY <1>0, <1>1, <1>13 DEF TypeOK, LoopEnds
<1>14. CASE Clear
  BY <1>0, <1>2, <1>5, <1>14 DEF TypeOK, Clear
<1>15. CASE LeaveOut
  BY <1>0, <1>6, <1>15 DEF TypeOK, LeaveOut, Working
<1>16. CASE Process
  BY <1>0, <1>16 DEF TypeOK, Process
<1>17. CASE SaveBatch
  BY <1>0, <1>1, <1>4, <1>5, <1>7, <1>17 DEF TypeOK, SaveBatch
<1>18. CASE EnsureServer
  BY <1>0, <1>1, <1>4, <1>18 DEF TypeOK, EnsureServer, Goto
<1>19. CASE TurnFails
  BY <1>0, <1>4, <1>19 DEF TypeOK, TurnFails, Goto
<1>20. CASE TurnStopped
  BY <1>0, <1>20 DEF TypeOK, TurnStopped, Goto
<1>21. CASE Break
  BY <1>0, <1>1, <1>21 DEF TypeOK, Break, Working
<1>22. CASE Succeeded
  BY <1>0, <1>6, <1>22 DEF TypeOK, Succeeded, Working
<1>23. CASE Failed
  BY <1>0, <1>1, <1>6, <1>23 DEF TypeOK, Failed, Working
<1>24. CASE Save
  BY <1>0, <1>1, <1>4, <1>6, <1>24 DEF TypeOK, Save, Working
<1>25. CASE Crash
  BY <1>0, <1>1, <1>2, <1>4, <1>5, <1>7, <1>25 DEF TypeOK, Crash
<1>26. CASE Poll
  <2>1. PICK last \in mem.cursor .. Len(Kind), moves \in BOOLEAN :
          /\ mem' = IF moves THEN [mem EXCEPT !.cursor = last] ELSE mem
          /\ batch' = [i \in 1 .. (last - mem.cursor) |-> mem.cursor + i]
    BY <1>26 DEF Poll
  <2>2. mem.cursor \in 0 .. Len(Kind) /\ last \in 0 .. Len(Kind)
    BY MessageNumbers DEF TypeOK, States
  <2>3. mem' \in States
    BY <2>1, <2>2 DEF TypeOK, States
  <2>4. batch' \in Seq(Messages)
    BY <2>1, <2>2, BatchOfMessages
  <2> QED
    BY <1>0, <1>26, <2>3, <2>4 DEF TypeOK, Poll
<1>27. CASE Resume
  <2>2. Peer \in Users
    BY <1>6, <1>27 DEF Resume, Working
  <2>1. mem' \in States
    BY <1>27, <2>2, ThreadChanged DEF TypeOK, Resume, Goto
  <2> QED
    BY <1>0, <1>3, <1>4, <1>27, <2>1 DEF TypeOK, Resume, Goto
<1>28. CASE NewThread
  <2>1. Peer \in Users
    BY <1>6, <1>28 DEF NewThread, Working
  <2>2. mem' \in States
    BY <1>28, <2>1, ThreadChanged DEF TypeOK, NewThread, Goto
  <2> QED
    BY <1>0, <1>3, <1>4, <1>28, <2>2 DEF TypeOK, NewThread, Goto
<1>29. CASE BeginTurn
  <2>1. Current \in Messages
    BY <1>6, <1>29 DEF BeginTurn, Working
  <2>2. server' \in Servers
    BY <1>29, <2>1 DEF TypeOK, BeginTurn, Servers
  <2> QED
    BY <1>0, <1>29, <2>2 DEF TypeOK, BeginTurn
<1>30. CASE Read
  <2>1. server.out \in Seq(Events) /\ server.out # <<>>
    BY <1>30 DEF TypeOK, Servers, Read
  <2>2. Head(server.out) \in Events /\ Tail(server.out) \in Seq(Events)
    BY <2>1, HeadTailProperties
  <2>3. server' \in Servers
    BY <1>30, <2>2 DEF TypeOK, Read, Servers
  <2>4. parts' \subseteq Messages
    BY <1>30, <2>2 DEF TypeOK, Read, Events
  <2>5. seen' \subseteq {"response", "completed"}
    BY <1>30, <2>2 DEF TypeOK, Read
  <2> QED
    BY <1>0, <1>30, <2>3, <2>4, <2>5 DEF TypeOK, Read
<1>31. CASE Send
  <2>1. Current \in Messages
    BY <1>6, <1>31 DEF Send, Working
  <2>2. Answered' \subseteq Answered \cup {Current}
    BY <1>31, SentAnswers
  <2> QED
    BY <1>4, <1>31, <2>1, <2>2 DEF TypeOK, Send, Goto
<1>32. CASE ServerResponds
  <2>1. server.owes \in Messages
    BY <1>32 DEF TypeOK, Servers, ServerResponds
  <2>2. Append(server.out, [is |-> "response", of |-> server.owes]) \in Seq(Events)
    BY <2>1, AppendProperties DEF TypeOK, Servers, Events
  <2>3. server' \in Servers
    BY <1>32, <2>2 DEF TypeOK, ServerResponds, Says, Servers
  <2> QED
    BY <1>0, <1>32, <2>3 DEF TypeOK, ServerResponds
<1>33. CASE ServerWrites
  <2>1. server.turn \in Messages /\ server.out \in Seq(Events)
    BY <1>33 DEF TypeOK, Servers, ServerWrites
  <2>2. PICK text \in {<<>>, <<[is |-> "text", of |-> server.turn]>>} :
          server' = [server EXCEPT !.turn = 0,
                       !.out = @ \o text \o <<[is |-> "completed", of |-> server.turn],
                                              [is |-> "idle", of |-> server.turn]>>]
    BY <1>33 DEF ServerWrites
  <2>3. server.out \o text \o <<[is |-> "completed", of |-> server.turn],
                                [is |-> "idle", of |-> server.turn]>> \in Seq(Events)
    BY <2>1, StreamGrows, Zenon
  <2>4. server' \in Servers
    BY <2>2, <2>3 DEF TypeOK, Servers
  <2> QED
    BY <1>0, <1>33, <2>4 DEF TypeOK, ServerWrites
<1> QED
  BY <1>8, <1>9, <1>10, <1>11, <1>12, <1>13, <1>14, <1>15, <1>16, <1>17, <1>18, <1>19, <1>20, <1>21, <1>22, <1>23, <1>24, <1>25, <1>26, <1>27, <1>28, <1>29, <1>30, <1>31, <1>32, <1>33 DEF Next, LoopStep

(* The status is honest after every step.                                  *)
LEMMA NextStatusHonest ==
  ASSUME TypeOK, StatusHonest, Next
  PROVE  StatusHonest'
<1> USE DEF TypeOK, StatusHonest, Trouble, loop, command, history
<1>1. CASE Start \/ Stop \/ StopTells
  BY <1>1 DEF Start, Stop, StopTells
<1>2. CASE Load \/ CannotStart \/ Poll \/ PollFails \/ LoopEnds \/ Clear
  BY <1>2 DEF Load, CannotStart, Poll, PollFails, LoopEnds, Clear
<1>3. CASE LeaveOut \/ Process \/ SaveBatch
  BY <1>3 DEF LeaveOut, Process, SaveBatch
<1>4. CASE EnsureServer \/ Resume \/ NewThread \/ BeginTurn
  BY <1>4 DEF EnsureServer, Resume, NewThread, BeginTurn, Goto
<1>5. CASE Read \/ TurnFails \/ TurnStopped \/ Send
  BY <1>5 DEF Read, TurnFails, TurnStopped, Send, Goto
<1>6. CASE Break \/ Succeeded \/ Failed \/ Save \/ Crash
  BY <1>6 DEF Break, Succeeded, Failed, Save, Crash
<1>7. CASE ServerResponds \/ ServerWrites
  BY <1>7 DEF ServerResponds, ServerWrites
<1> QED
  BY <1>1, <1>2, <1>3, <1>4, <1>5, <1>6, <1>7 DEF Next, LoopStep

-----------------------------------------------------------------------------
(* The turn of the app-server.                                             *)

(* No step mixes the turns, or the conversations, of two messages.         *)
LEMMA NextTurnInv ==
  ASSUME TypeOK, StatusHonest, Working => batch # <<>>, TurnInv, Next
  PROVE  TurnInv'
<1> USE DEF Trouble, loop, command, history
<1> DEFINE Threads == \A u \in Users : mem.thread[u] \in {u, Nobody} /\ disk.thread[u] \in {u, Nobody}
<1>0. Threads /\ \A u \in Users : Empty.thread[u] = Nobody
  BY DEF TurnInv, Empty
<1>1. CASE Stop \/ StopTells \/ PollFails
  <2>1. /\ pc' = pc /\ mem' = mem /\ disk' = disk /\ server' = server /\ parts' = parts
        /\ seen' = seen /\ batch' = batch
    BY <1>1 DEF Stop, StopTells, PollFails
  <2>2. Current' = Current /\ Peer' = Peer
    BY <2>1 DEF Current, Peer
  <2> QED
    BY <2>1, <2>2, Zenon DEF TurnInv
<1>2. CASE Start \/ Load \/ CannotStart
  <2>1. CASE Start \/ CannotStart
    BY <2>1 DEF TurnInv, StatusHonest, Start, CannotStart
  <2>2. CASE Load
    BY <1>0, <2>2 DEF TurnInv, Load
  <2> QED
    BY <1>2, <2>1, <2>2
<1>3. CASE Poll
  BY <1>3 DEF TurnInv, Poll, TypeOK, States
<1>4. CASE LoopEnds \/ Clear
  BY <1>0, <1>4 DEF TurnInv, LoopEnds, Clear, NoServer
<1>5. batch # <<>> => Mark(mem, Current).thread = mem.thread
  BY CurrentMessage, MarkTouchesKeys DEF TypeOK
<1>6. CASE LeaveOut
  BY <1>5, <1>6 DEF TurnInv, LeaveOut
<1>7. CASE Process
  BY <1>7 DEF TurnInv, Process
<1>8. CASE SaveBatch
  BY <1>8 DEF TurnInv, SaveBatch, NoServer
<1>9. CASE EnsureServer
  BY <1>9 DEF TurnInv, EnsureServer, Goto, Started, NoServer
<1>10. CASE Break \/ Succeeded \/ Failed
  BY <1>5, <1>10 DEF TurnInv, Break, Succeeded, Failed, NoServer, Working
<1>11. CASE Save \/ Crash
  BY <1>0, <1>11 DEF TurnInv, Save, Crash, NoServer
<1>12. CASE TurnFails \/ TurnStopped
  BY <1>12 DEF TurnInv, TurnFails, TurnStopped, Goto
<1>13. CASE Send
  BY <1>13 DEF TurnInv, Send, Goto
<1>14. Working => Peer \in Users /\ Current \in Messages
  BY CurrentMessage
<1>15. mem \in States /\ server \in Servers
  BY DEF TypeOK
<1>16. CASE Resume
  <2>1. Peer \in Users /\ pc = "thread" /\ batch' = batch /\ disk' = disk /\ mem.thread[Peer] = Peer
    BY <1>0, <1>14, <1>16 DEF Resume, Working, Goto
  <2>2. Current' = Current /\ Peer' = Peer
    BY <2>1 DEF Current, Peer
  <2>3. CASE mem' = mem /\ pc' = "turn" /\ server' = Drained
    BY <2>1, <2>2, <2>3 DEF TurnInv, Drained, TypeOK, Servers
  <2>4. CASE mem' = [mem EXCEPT !.thread[Peer] = Nobody] /\ pc' = pc /\ server' = server
    <3>1. \A u \in Users : mem'.thread[u] \in {u, Nobody}
      BY <1>0, <1>15, <2>1, <2>4, ThreadChanged
    <3> QED
      BY <2>1, <2>4, <3>1 DEF TurnInv
  <2> QED
    BY <1>16, <2>3, <2>4 DEF Resume, Goto
<1>17. CASE NewThread
  <2>1. Peer \in Users /\ pc = "thread" /\ batch' = batch /\ disk' = disk
    BY <1>14, <1>17 DEF NewThread, Working, Goto
  <2>2. Current' = Current /\ Peer' = Peer
    BY <2>1 DEF Current, Peer
  <2>3. CASE mem' = [mem EXCEPT !.thread[Peer] = Peer] /\ pc' = "turn" /\ server' = Drained
    <3>1. mem'.thread[Peer] = Peer /\ \A u \in Users : mem'.thread[u] \in {u, Nobody}
      BY <1>0, <1>15, <2>1, <2>3, ThreadChanged
    <3> QED
      BY <2>1, <2>2, <2>3, <3>1 DEF TurnInv, Drained, TypeOK, Servers
  <2>4. CASE mem' = mem /\ pc' = "failed"
    BY <2>1, <2>4 DEF TurnInv
  <2> QED
    BY <1>17, <2>3, <2>4 DEF NewThread, Goto
<1>18. CASE BeginTurn
  <2>1. /\ pc = "turn" /\ pc' = "reading" /\ batch' = batch /\ disk' = disk /\ mem' = mem
        /\ parts' = {} /\ seen' = {} /\ server.out = <<>>
        /\ server' = [server EXCEPT !.turn = Current, !.owes = Current]
    BY <1>18 DEF BeginTurn, TurnInv
  <2>2. Current' = Current /\ Peer' = Peer
    BY <2>1 DEF Current, Peer
  <2>3. server'.turn = Current /\ server'.owes = Current /\ server'.out = <<>>
    BY <1>15, <2>1 DEF Servers
  <2>4. DOMAIN server'.out = {}
    BY <2>3
  <2> QED
    BY <2>1, <2>2, <2>3, <2>4 DEF TurnInv
<1>19. CASE ServerResponds
  <2>1. /\ server.owes # 0 /\ pc' = pc /\ batch' = batch /\ disk' = disk /\ mem' = mem
        /\ parts' = parts /\ seen' = seen
    BY <1>19 DEF ServerResponds
  <2>2. Current' = Current /\ Peer' = Peer
    BY <2>1 DEF Current, Peer
  <2>3. pc \in {"reading", "failed"}
    BY <2>1 DEF TurnInv
  <2>4. CASE pc = "failed"
    BY <2>1, <2>4 DEF TurnInv
  <2>5. CASE pc = "reading"
    <3> DEFINE e == [is |-> "response", of |-> server.owes]
    <3>1. server.owes = Current /\ Current \in Messages
      BY <1>14, <2>1, <2>5 DEF TurnInv, Working
    <3>2. server.out \in Seq(Events) /\ e \in Events
      BY <1>15, <3>1 DEF Servers, Events
    <3>3. server'.out = Append(server.out, e) /\ server'.owes = 0 /\ server'.turn = server.turn
      BY <1>15, <1>19 DEF ServerResponds, Says, Servers
    <3>4. \A i \in DOMAIN server'.out :
            (i \in DOMAIN server.out /\ server'.out[i] = server.out[i]) \/ server'.out[i] = e
      BY <3>2, <3>3, AppendProperties, LenProperties
    <3>5. \A i \in DOMAIN server'.out :
            /\ server'.out[i].of = Current
            /\ server'.out[i].is \in {"completed", "idle"} => server'.turn = 0
            /\ server'.out[i].is = "response" => server'.owes = 0
      BY <2>5, <3>1, <3>3, <3>4 DEF TurnInv
    <3> QED
      BY <2>1, <2>2, <2>5, <3>1, <3>3, <3>5 DEF TurnInv
  <2> QED
    BY <2>3, <2>4, <2>5
<1>20. CASE ServerWrites
  <2>1. /\ server.turn # 0 /\ pc' = pc /\ batch' = batch /\ disk' = disk /\ mem' = mem
        /\ parts' = parts /\ seen' = seen
    BY <1>20 DEF ServerWrites
  <2>2. Current' = Current /\ Peer' = Peer
    BY <2>1 DEF Current, Peer
  <2>3. pc \in {"reading", "failed"}
    BY <2>1 DEF TurnInv
  <2>4. CASE pc = "failed"
    BY <2>1, <2>4 DEF TurnInv
  <2>5. CASE pc = "reading"
    <3>1. server.turn = Current /\ Current \in Messages
      BY <1>14, <2>1, <2>5 DEF TurnInv, Working
    <3>2. PICK text \in {<<>>, <<[is |-> "text", of |-> Current]>>} :
            server' = [server EXCEPT !.turn = 0,
                         !.out = @ \o text \o <<[is |-> "completed", of |-> Current],
                                                [is |-> "idle", of |-> Current]>>]
      BY <1>20, <3>1 DEF ServerWrites
    <3> DEFINE end == <<[is |-> "completed", of |-> Current], [is |-> "idle", of |-> Current]>>
    <3>3. server'.out = server.out \o text \o end /\ server'.owes = server.owes /\ server'.turn = 0
      BY <1>15, <3>2 DEF Servers
    <3>4. \A i \in DOMAIN server'.out :
            \/ i \in DOMAIN server.out /\ server'.out[i] = server.out[i]
            \/ server'.out[i].of = Current /\ server'.out[i].is # "response"
      <4>1. server.out \in Seq(Events)
        BY <1>15 DEF Servers
      <4> DEFINE o == server'.out
      <4>2. o = server.out \o text \o <<[is |-> "completed", of |-> Current], [is |-> "idle", of |-> Current]>>
        BY <3>3
      <4> HIDE DEF o
      <4>3. Current \in Messages
        BY <3>1
      <4>4. Continues(o, server.out, Current)
        BY <4>1, <4>2, <4>3, StreamGrows, Zenon
      <4> QED
        BY <4>4 DEF o, Continues
    <3>5. \A i \in DOMAIN server'.out :
            /\ server'.out[i].of = Current
            /\ server'.out[i].is \in {"completed", "idle"} => server'.turn = 0
            /\ server'.out[i].is = "response" => server'.owes = 0
      BY <2>5, <3>1, <3>3, <3>4 DEF TurnInv
    <3> QED
      BY <2>1, <2>2, <2>5, <3>1, <3>3, <3>5 DEF TurnInv
  <2> QED
    BY <2>3, <2>4, <2>5
<1>21. CASE Read
  <2> DEFINE event == Head(server.out)
  <2>1. /\ pc = "reading" /\ pc' = "reading" /\ batch' = batch /\ disk' = disk /\ mem' = mem
        /\ server.out # <<>> /\ server' = [server EXCEPT !.out = Tail(@)]
        /\ parts' = parts \cup (IF event.is = "text" THEN {event.of} ELSE {})
        /\ seen' = seen \cup (CASE event.is = "response" /\ event.of = Current -> {"response"}
                               [] event.is \in {"completed", "idle"} -> {"completed"}
                               [] OTHER -> {})
    BY <1>21 DEF Read
  <2>2. Current' = Current /\ Peer' = Peer
    BY <2>1 DEF Current, Peer
  <2>3. server.out \in Seq(Events)
    BY <1>15 DEF Servers
  <2>4. /\ 1 \in DOMAIN server.out /\ event = server.out[1]
        /\ \A i \in DOMAIN Tail(server.out) : i + 1 \in DOMAIN server.out /\ Tail(server.out)[i] = server.out[i + 1]
    BY <2>1, <2>3, HeadTailProperties, EmptySeq, LenProperties
  <2>5. server'.out = Tail(server.out) /\ server'.owes = server.owes /\ server'.turn = server.turn
    BY <1>15, <2>1 DEF Servers
  <2>6. /\ event.of = Current
        /\ event.is \in {"completed", "idle"} => server.turn = 0
        /\ event.is = "response" => server.owes = 0
    BY <2>1, <2>4 DEF TurnInv
  <2>7. parts' \subseteq {Current}
    BY <2>1, <2>6 DEF TurnInv
  <2>8. ("completed" \in seen' => server'.turn = 0) /\ ("response" \in seen' => server'.owes = 0)
    BY <2>1, <2>5, <2>6 DEF TurnInv
  <2>9. \A i \in DOMAIN server'.out :
          /\ server'.out[i].of = Current
          /\ server'.out[i].is \in {"completed", "idle"} => server'.turn = 0
          /\ server'.out[i].is = "response" => server'.owes = 0
    BY <2>1, <2>4, <2>5 DEF TurnInv
  <2> QED
    BY <2>1, <2>2, <2>5, <2>7, <2>8, <2>9 DEF TurnInv
<1> QED
  BY <1>1, <1>2, <1>3, <1>4, <1>6, <1>7, <1>8, <1>9, <1>10, <1>11, <1>12, <1>13, <1>16, <1>17, <1>18,
     <1>19, <1>20, <1>21 DEF Next, LoopStep

-----------------------------------------------------------------------------
(* The cursor, the keys and the batch.                                     *)

(* A batch is the current message and the rest.                            *)
LEMMA BatchSplit ==
  ASSUME TypeOK, batch # <<>>
  PROVE  ToSet(batch) = {Current} \cup ToSet(Tail(batch)) /\ Current \in ToSet(batch)
<1>1. batch \in Seq(Messages)
  BY DEF TypeOK
<1>2. ToSet(batch) = {batch[1]} \cup ToSet(Tail(batch)) /\ Current = batch[1]
  BY <1>1, HeadAndTail DEF Current
<1> QED
  BY <1>2

(* A marked message is known, whichever key had to go for it.              *)
LEMMA MarkKnows ==
  ASSUME TypeOK, batch # <<>>
  PROVE  Current \in ToSet(Mark(mem, Current).processed)
<1> DEFINE old == mem.processed
           long == Append(old, Current)
           new == IF Len(long) > MaxProcessed THEN Tail(long) ELSE long
<1>1. mem \in States /\ old \in Seq(Messages) /\ Current \in Messages
  BY CurrentMessage DEF TypeOK, States
<1>2. CASE IsProcessed(Current)
  BY <1>2 DEF Mark, IsProcessed
<1>3. CASE ~ IsProcessed(Current)
  <2>1. Mark(mem, Current).processed = new
    BY <1>1, <1>3 DEF Mark, States
  <2>2. /\ long \in Seq(Messages) /\ long # <<>> /\ Len(old) \in Nat
        /\ Len(long) = Len(old) + 1 /\ DOMAIN long = 1 .. Len(old) + 1
        /\ long[Len(old) + 1] = Current
    BY <1>1, OneMore
  <2>3. MaxProcessed \in Nat /\ 1 <= MaxProcessed
    BY BoundsAssumption
  <2> HIDE DEF long
  <2>4. CASE new = long
    <3>1. Current \in ToSet(long)
      BY <2>2 DEF ToSet
    <3> HIDE DEF new
    <3> QED
      BY <2>1, <2>4, <3>1
  <2>5. CASE new = Tail(long) /\ Len(long) > MaxProcessed
    <3>1. /\ DOMAIN Tail(long) = 1 .. Len(long) - 1
          /\ \A i \in 1 .. Len(long) - 1 : Tail(long)[i] = long[i + 1]
      BY <2>2, HeadAndTail
    <3>2. Len(old) \in DOMAIN Tail(long) /\ Tail(long)[Len(old)] = Current
      BY <2>2, <2>3, <2>5, <3>1
    <3> HIDE DEF new
    <3> QED
      BY <2>1, <2>5, <3>2 DEF ToSet
  <2> QED
    BY <2>4, <2>5
<1> QED
  BY <1>2, <1>3

(* The current message comes before the others of the batch.               *)
LEMMA BatchTail ==
  ASSUME TypeOK, batch # <<>>, BatchFits
  PROVE  /\ Current \in ToSet(batch) /\ ToSet(batch) = {Current} \cup ToSet(Tail(batch))
         /\ \A n \in ToSet(batch) : n \in Messages /\ Current <= n
         /\ LET rest == Tail(batch)
            IN  /\ rest \in Seq(Messages)
                /\ \A i, j \in DOMAIN rest : i <= j => rest[j] = rest[i] + (j - i)
                /\ \A n \in ToSet(rest) : Current < n
<1>1. batch \in Seq(Messages)
  BY DEF TypeOK
<1>2. /\ Current = batch[1] /\ Current \in Messages /\ Tail(batch) \in Seq(Messages)
      /\ Len(batch) \in Nat \ {0} /\ DOMAIN batch = 1 .. Len(batch)
      /\ DOMAIN Tail(batch) = 1 .. Len(batch) - 1
      /\ \A i \in 1 .. Len(batch) - 1 : Tail(batch)[i] = batch[i + 1]
      /\ ToSet(batch) = {Current} \cup ToSet(Tail(batch))
  BY <1>1, HeadAndTail DEF Current
<1>3. \A i \in DOMAIN batch : batch[i] = batch[1] + (i - 1) /\ batch[i] \in Messages
  BY <1>1, <1>2, ElementOfSeq DEF BatchFits
<1>4. \A n \in ToSet(batch) : n \in Messages /\ Current <= n
  BY <1>2, <1>3, MessageNumbers DEF ToSet
<1>5. ASSUME NEW i \in DOMAIN Tail(batch), NEW j \in DOMAIN Tail(batch), i <= j
      PROVE  Tail(batch)[j] = Tail(batch)[i] + (j - i)
  <2>1. /\ i + 1 \in DOMAIN batch /\ j + 1 \in DOMAIN batch /\ i + 1 <= j + 1
        /\ Tail(batch)[i] = batch[i + 1] /\ Tail(batch)[j] = batch[j + 1]
        /\ (j + 1) - (i + 1) = j - i
    BY <1>2, <1>5
  <2>2. batch[j + 1] = batch[i + 1] + ((j + 1) - (i + 1))
    BY <2>1 DEF BatchFits
  <2> QED
    BY <2>1, <2>2
<1>6. ASSUME NEW i \in DOMAIN Tail(batch)
      PROVE  Current < Tail(batch)[i]
  <2>1. i + 1 \in DOMAIN batch /\ Tail(batch)[i] = batch[i + 1] /\ i \in Nat \ {0}
    BY <1>2
  <2>2. batch[i + 1] = batch[1] + ((i + 1) - 1)
    BY <1>3, <2>1
  <2> QED
    BY <1>2, <2>1, <2>2, MessageNumbers
<1>7. \A n \in ToSet(Tail(batch)) : Current < n
  BY <1>6 DEF ToSet
<1> QED
  BY <1>2, <1>4, <1>5, <1>7

(* mark_processed, for a message that is neither left out nor answered     *)
(* before: its key is the highest; a key that is dropped for it is behind  *)
(* the cursor.                                                             *)
LEMMA MarkKeeps ==
  ASSUME TypeOK, batch # <<>>, BatchFits, KeysKept(mem), ~ Skipped
  PROVE  LET keys == Mark(mem, Current).processed
         IN  /\ KeysKept(Mark(mem, Current))
             /\ Current \in ToSet(keys) /\ ToSet(keys) \subseteq ToSet(mem.processed) \cup {Current}
             /\ \A m \in ToSet(mem.processed) :
                  m \in ToSet(keys) \/ (m <= mem.cursor /\ m < Current)
<1> DEFINE old == mem.processed
           long == Append(old, Current)
           new == IF Len(long) > MaxProcessed THEN Tail(long) ELSE long
<1>1. mem \in States /\ old \in Seq(Messages) /\ mem.cursor \in 0 .. Len(Kind)
  BY DEF TypeOK, States
<1>2. Current \in Messages /\ Current \notin ToSet(old) /\ ~ Dismissed(Current)
  BY CurrentMessage DEF Skipped, IsProcessed, Dismissed
<1>3. Mark(mem, Current) = [mem EXCEPT !.processed = new]
  BY <1>2 DEF Mark, IsProcessed
<1>4. Mark(mem, Current).processed = new /\ Mark(mem, Current).cursor = mem.cursor
  BY <1>1, <1>3 DEF States
<1>5. /\ long \in Seq(Messages) /\ long # <<>>
      /\ DOMAIN old = 1 .. Len(old) /\ Len(old) \in Nat
      /\ Len(long) = Len(old) + 1 /\ DOMAIN long = 1 .. Len(old) + 1
      /\ \A i \in 1 .. Len(old) : long[i] = old[i]
      /\ long[Len(old) + 1] = Current
  BY <1>1, <1>2, OneMore
<1>6. \A i \in DOMAIN old : old[i] \in Messages /\ old[i] \in Int /\ old[i] \in ToSet(old)
  BY <1>1, <1>5, ElementOfSeq, MessageNumbers DEF ToSet
<1>7. Current \in Int /\ mem.cursor \in Int /\ MaxProcessed \in Nat /\ 1 <= MaxProcessed
  BY <1>1, <1>2, MessageNumbers, BoundsAssumption
<1>8. \A i \in DOMAIN old : old[i] < Current
  <2>1. Current \in ToSet(batch)
    BY BatchTail
  <2>2. \A k \in ToSet(old) : ~ (Current < k) /\ k # Current
    BY <1>2, <2>1 DEF BatchFits, IsProcessed
  <2> QED
    BY <1>6, <1>7, <2>2
<1>9. \A i, j \in DOMAIN old : i <= j => old[j] >= old[i] + (j - i)
  BY DEF KeysKept
<1>10. \A i, j \in DOMAIN long : i <= j => long[j] >= long[i] + (j - i)
  <2>1. SUFFICES ASSUME NEW i \in DOMAIN long, NEW j \in DOMAIN long, i <= j
                 PROVE  long[j] >= long[i] + (j - i)
    OBVIOUS
  <2>2. CASE j <= Len(old)
    BY <1>5, <1>9, <2>1, <2>2
  <2>3. CASE j = Len(old) + 1 /\ i = j
    BY <1>5, <1>7, <2>3
  <2>4. CASE j = Len(old) + 1 /\ i # j
    <3>1. i \in DOMAIN old /\ Len(old) \in DOMAIN old /\ i <= Len(old)
      BY <1>5, <2>1, <2>4
    <3>2. old[Len(old)] >= old[i] + (Len(old) - i) /\ old[Len(old)] < Current
      BY <1>8, <1>9, <3>1
    <3>3. old[i] \in Int /\ old[Len(old)] \in Int
      BY <1>6, <3>1
    <3>4. long[j] = Current /\ long[i] = old[i]
      BY <1>5, <2>4, <3>1
    <3> HIDE DEF old, long
    <3> QED
      BY <1>5, <1>7, <2>4, <3>1, <3>2, <3>3, <3>4
  <2> QED
    BY <1>5, <2>1, <2>2, <2>3, <2>4
<1>11. ToSet(long) = ToSet(old) \cup {Current}
  <2>1. \A i \in DOMAIN long : long[i] \in ToSet(old) \cup {Current}
    BY <1>5, <1>6
  <2>2. \A i \in DOMAIN old : i \in DOMAIN long /\ long[i] = old[i]
    BY <1>5
  <2>3. Len(old) + 1 \in DOMAIN long
    BY <1>5
  <2>4. ToSet(long) \subseteq ToSet(old) \cup {Current}
    BY <2>1 DEF ToSet
  <2>5. ToSet(old) \subseteq ToSet(long)
    BY <2>2 DEF ToSet
  <2>6. Current \in ToSet(long)
    BY <1>5, <2>3 DEF ToSet
  <2> QED
    BY <2>4, <2>5, <2>6
<1>12. Len(old) <= MaxProcessed
  BY DEF KeysKept
<1>13. /\ new \in Seq(Messages) /\ Len(new) <= MaxProcessed
       /\ \A i, j \in DOMAIN new : i <= j => new[j] >= new[i] + (j - i)
       /\ Current \in ToSet(new) /\ ToSet(new) \subseteq ToSet(old) \cup {Current}
       /\ \A m \in ToSet(old) : m \in ToSet(new) \/ (m <= mem.cursor /\ m < Current)
  <2>1. CASE Len(long) <= MaxProcessed
    <3>1. new = long
      BY <1>5, <1>7, <2>1
    <3> HIDE DEF new, long
    <3> QED
      BY <1>5, <1>10, <1>11, <2>1, <3>1
  <2>2. CASE Len(long) > MaxProcessed
    <3>1. new = Tail(long)
      BY <2>2
    <3>2. Len(old) = MaxProcessed /\ 1 \in DOMAIN old /\ MaxProcessed \in DOMAIN old /\ 1 <= MaxProcessed
      BY <1>5, <1>7, <1>12, <2>2
    <3> HIDE DEF new, long
    <3>3. /\ Head(long) = long[1] /\ Tail(long) \in Seq(Messages)
          /\ Len(Tail(long)) = Len(old) /\ DOMAIN Tail(long) = 1 .. Len(old)
          /\ \A i \in 1 .. Len(old) : Tail(long)[i] = long[i + 1]
          /\ ToSet(long) = {long[1]} \cup ToSet(Tail(long))
      BY <1>5, HeadAndTail
    <3>4. long[1] = old[1]
      BY <1>5, <3>2
    <3>5. long[1] <= mem.cursor /\ long[1] < Current
      <4>1. old[MaxProcessed] >= old[1] + (MaxProcessed - 1) /\ old[MaxProcessed] < Current /\ old[1] < Current
        BY <1>8, <1>9, <3>2
      <4>2. Current <= mem.cursor + MaxProcessed
        BY BatchTail DEF BatchFits
      <4>3. old[1] \in Int /\ old[MaxProcessed] \in Int
        BY <1>6, <3>2
      <4> QED
        BY <1>7, <3>4, <4>1, <4>2, <4>3
    <3>6. ASSUME NEW i \in DOMAIN new, NEW j \in DOMAIN new, i <= j
          PROVE  new[j] >= new[i] + (j - i)
      <4>1. /\ i + 1 \in DOMAIN long /\ j + 1 \in DOMAIN long /\ i + 1 <= j + 1
            /\ new[i] = long[i + 1] /\ new[j] = long[j + 1] /\ (j + 1) - (i + 1) = j - i
        <5>1. /\ i \in 1 .. Len(old) /\ j \in 1 .. Len(old) /\ i <= j
              /\ new[i] = long[i + 1] /\ new[j] = long[j + 1]
          BY <3>1, <3>3, <3>6
        <5>2. DOMAIN long = 1 .. (Len(old) + 1) /\ Len(old) \in Nat
          BY <1>5
        <5> QED
          BY ONLY <5>1, <5>2
      <4>2. long[j + 1] >= long[i + 1] + ((j + 1) - (i + 1))
        BY <1>10, <4>1
      <4> QED
        BY <4>1, <4>2
    <3>7. Current \in ToSet(new)
      <4>1. Len(old) \in DOMAIN new /\ new[Len(old)] = Current
        BY <1>5, <3>1, <3>2, <3>3
      <4> QED
        BY <4>1 DEF ToSet
    <3>8. ToSet(long) = {long[1]} \cup ToSet(new)
      BY <3>1, <3>3
    <3> QED
      BY <1>7, <1>11, <1>12, <3>1, <3>3, <3>5, <3>6, <3>7, <3>8
  <2>3. Len(long) <= MaxProcessed \/ Len(long) > MaxProcessed
    BY <1>5, <1>7
  <2> HIDE DEF new, long
  <2> QED
    BY <2>1, <2>2, <2>3
<1> HIDE DEF new
<1>14. \A k \in ToSet(new) : k <= mem.cursor + MaxProcessed
  BY <1>13, BatchTail DEF KeysKept, BatchFits
<1>15. ASSUME NEW k \in ToSet(new), NEW m \in Messages, mem.cursor < m, m < k
       PROVE  m \in ToSet(new) \/ Dismissed(m)
  <2>1. m \in Int
    BY MessageNumbers
  <2>2. m \in ToSet(old) => m \in ToSet(new)
    BY <1>7, <1>13, <1>15, <2>1
  <2>3. CASE k \in ToSet(old)
    BY <1>15, <2>2, <2>3 DEF KeysKept
  <2>4. CASE k = Current
    <3>1. Current \in ToSet(batch) /\ \A n \in ToSet(batch) : Current <= n
      BY BatchTail
    <3>2. m \notin ToSet(batch)
      BY <1>7, <1>15, <2>1, <2>4, <3>1
    <3> QED
      BY <1>15, <2>2, <2>4, <3>1, <3>2 DEF BatchFits, IsProcessed
  <2> QED
    BY <1>13, <2>3, <2>4
<1>16. KeysKept(Mark(mem, Current))
  BY <1>4, <1>13, <1>14, <1>15, Zenon DEF KeysKept
<1> QED
  BY <1>4, <1>13, <1>16

(* The steps that leave the cursor, the keys and the batch as they are.    *)
Quiet ==
  /\ mem'.cursor = mem.cursor /\ mem'.processed = mem.processed
  /\ batch' = batch /\ aged' = aged /\ disk' = disk

(* They are the steps that neither poll, take a message, mark one nor save. *)
LEMMA QuietSteps ==
  ASSUME TypeOK, Working => batch # <<>>,
         \/ Start \/ CannotStart \/ Stop \/ StopTells \/ PollFails \/ LoopEnds \/ Process
         \/ EnsureServer \/ Resume \/ NewThread \/ BeginTurn \/ Read \/ TurnFails \/ TurnStopped \/ Send
         \/ Break \/ ServerResponds \/ ServerWrites
  PROVE  Quiet
<1> USE DEF loop, Quiet
<1>1. mem \in States
  BY DEF TypeOK
<1>2. CASE Start \/ CannotStart \/ Stop \/ StopTells \/ PollFails \/ LoopEnds \/ Process
  BY <1>2 DEF Start, CannotStart, Stop, StopTells, PollFails, LoopEnds, Process
<1>3. CASE EnsureServer \/ BeginTurn \/ Read \/ TurnFails \/ TurnStopped \/ Send \/ Break
  BY <1>3 DEF EnsureServer, BeginTurn, Read, TurnFails, TurnStopped, Send, Break, Goto
<1>4. CASE ServerResponds \/ ServerWrites
  BY <1>4 DEF ServerResponds, ServerWrites
<1>5. CASE Resume \/ NewThread
  <2>1. Peer \in Users
    BY <1>5, CurrentMessage DEF Resume, NewThread, Working
  <2>2. /\ batch' = batch /\ aged' = aged /\ disk' = disk
        /\ \/ mem' = mem
           \/ mem' = [mem EXCEPT !.thread[Peer] = Nobody]
           \/ mem' = [mem EXCEPT !.thread[Peer] = Peer]
    BY <1>5 DEF Resume, NewThread, Goto
  <2>3. ASSUME NEW v \in Users \cup {Nobody}, mem' = [mem EXCEPT !.thread[Peer] = v]
        PROVE  mem'.cursor = mem.cursor /\ mem'.processed = mem.processed
    BY <1>1, <2>1, <2>3, ThreadChanged
  <2>4. Peer \in Users \cup {Nobody} /\ Nobody \in Users \cup {Nobody}
    BY <2>1
  <2>5. mem'.cursor = mem.cursor /\ mem'.processed = mem.processed
    BY <2>2, <2>3, <2>4, Zenon
  <2> QED
    BY <2>2, <2>5
<1> QED
  BY <1>2, <1>3, <1>4, <1>5

(* What was left out stays left out.                                       *)
LEMMA StaysDismissed ==
  ASSUME TypeOK, Working => batch # <<>>, Next
  PROVE  \A m \in Messages : Dismissed(m) => Dismissed(m)'
<1>1. aged' = aged \/ (LeaveOut /\ batch # <<>> /\ ~ Skipped /\ aged' = Current)
  BY DEF Next, LoopStep, Start, Stop, StopTells, Load, CannotStart, Poll, PollFails, LoopEnds, Clear, LeaveOut,
         Process, SaveBatch, EnsureServer, Resume, NewThread, BeginTurn, Read, TurnFails,
         TurnStopped, Send, Break, Succeeded, Failed, Save, ServerResponds, ServerWrites, Crash, Trouble
<1>2. aged \in Nat
  BY MessageNumbers DEF TypeOK
<1>3. CASE aged' = aged
  BY <1>3 DEF Dismissed
<1>4. CASE LeaveOut /\ batch # <<>> /\ ~ Skipped /\ aged' = Current
  <2>1. Current \in Nat /\ aged < Current
    BY <1>2, <1>4, CurrentMessage, MessageNumbers DEF Skipped
  <2> QED
    BY <1>2, <1>4, <2>1, MessageNumbers DEF Dismissed
<1> QED
  BY <1>1, <1>3, <1>4

(* The saved state keeps the keys, and what is known of them.              *)
LEMMA NextDiskKept ==
  ASSUME TypeOK, Working => batch # <<>>, KeysKept(mem), KeysKept(disk), Next
  PROVE  KeysKept(disk)'
<1>1. disk' = disk \/ disk' = mem
  BY DEF Next, LoopStep, Start, Stop, StopTells, Load, CannotStart, Poll, PollFails, LoopEnds, Clear, LeaveOut,
         Process, SaveBatch, EnsureServer, Resume, NewThread, BeginTurn, Read, TurnFails,
         TurnStopped, Send, Break, Succeeded, Failed, Save, ServerResponds, ServerWrites, Crash
<1>2. \A m \in Messages : Dismissed(m) => Dismissed(m)'
  BY StaysDismissed
<1> QED
  BY <1>1, <1>2, Zenon DEF KeysKept

(* A batch b fits a cursor c and a set of keys.                            *)
Fits(c, b, keys) ==
  /\ \A n \in b : n <= c + MaxProcessed
  /\ \A n \in b, m \in Messages :
       c < m /\ m < n => m \in keys \/ m \in b \/ Dismissed(m)
  /\ \A n \in b, k \in keys : n < k => n \in keys \/ Dismissed(n)

(* The batch fits when the current message has got its key.                *)
LEMMA MarkFits ==
  ASSUME TypeOK, batch # <<>>, BatchFits, KeysKept(mem), ~ Skipped
  PROVE  Fits(mem.cursor, ToSet(batch), ToSet(Mark(mem, Current).processed))
<1> DEFINE new == ToSet(Mark(mem, Current).processed)
           b == ToSet(batch)
<1>1. /\ Current \in new /\ new \subseteq ToSet(mem.processed) \cup {Current}
      /\ \A m \in ToSet(mem.processed) : m \in new \/ (m <= mem.cursor /\ m < Current)
  BY MarkKeeps
<1>2. Current \in b /\ \A n \in b : n \in Messages /\ Current <= n
  BY BatchTail
<1>3. mem.cursor \in Nat /\ Messages \subseteq Nat
  BY MessageNumbers DEF TypeOK, States
<1> HIDE DEF new, b
<1>4. ASSUME NEW n \in b, NEW m \in Messages, mem.cursor < m, m < n
      PROVE  m \in new \/ m \in b \/ Dismissed(m)
  <2>1. m \in ToSet(mem.processed) \/ m \in b \/ Dismissed(m)
    BY <1>4 DEF BatchFits, IsProcessed, b
  <2>2. m \in ToSet(mem.processed) => m \in new
    BY <1>1, <1>3, <1>4
  <2> QED
    BY <2>1, <2>2
<1>5. ASSUME NEW n \in b, NEW k \in new, n < k
      PROVE  n \in new \/ Dismissed(n)
  <2>1. n \in Nat /\ Current \in Nat /\ Current <= n
    BY <1>2, <1>3
  <2>2. k \in ToSet(mem.processed)
    BY <1>1, <1>5, <2>1
  <2>3. n \in ToSet(mem.processed) \/ Dismissed(n)
    BY <1>5, <2>2 DEF BatchFits, IsProcessed, b
  <2>4. n \in ToSet(mem.processed) => n \in new
    BY <1>1, <2>1
  <2> QED
    BY <2>3, <2>4
<1>6. \A n \in b : n <= mem.cursor + MaxProcessed
  BY DEF BatchFits, b
<1> QED
  BY <1>4, <1>5, <1>6 DEF Fits, new, b

(* The rest of a batch fits if what was taken out has a key or is left out. *)
LEMMA RestFits ==
  ASSUME NEW c, NEW b, NEW rest, NEW keys, rest \subseteq b, Fits(c, b, keys),
         \A n \in b \ rest : n \in keys \/ Dismissed(n)
  PROVE  Fits(c, rest, keys)
BY DEF Fits

(* What the gateway once did is not forgotten.                             *)
LEMMA FloodStays ==
  ASSUME Next
  PROVE  flooded => flooded'
BY DEF loop, history, Next, LoopStep, Start, Stop, StopTells, Load, CannotStart, Poll, PollFails, LoopEnds,
       Clear, LeaveOut, Process, SaveBatch, EnsureServer, Resume, NewThread, BeginTurn, Read, TurnFails,
       TurnStopped, Send, Break, Succeeded, Failed, Save, ServerResponds, ServerWrites, Crash

(* No key and no batch: nothing is missing.                                *)
LEMMA NothingKept ==
  /\ KeysKept(Empty)
  /\ ToSet(<<>>) = {} /\ Empty.processed = <<>> /\ Empty.cursor = 0
BY BoundsAssumption DEF KeysKept, Empty, ToSet

(* Every step keeps the keys in their order, and a batch that fits them,   *)
(* as long as the gateway sends no more messages at once than keys are     *)
(* kept.                                                                   *)
LEMMA NextKeysAndBatch ==
  ASSUME TypeOK, TypeOK', StatusHonest, BatchPlaces, BatchFits, KeysKept(mem), KeysKept(disk), Next,
         ~ flooded'
  PROVE  KeysKept(mem)' /\ BatchFits'
<1> USE DEF Trouble, loop
<1> DEFINE Run(q) == \A i, j \in DOMAIN q : i <= j => q[j] = q[i] + (j - i)
<1>1. Working => batch # <<>>
  BY DEF Working, BatchPlaces
<1>2. \A m \in Messages : Dismissed(m) => Dismissed(m)'
  BY <1>1, StaysDismissed
<1>3. Run(batch) /\ Fits(mem.cursor, ToSet(batch), ToSet(mem.processed))
  BY DEF BatchFits, Fits, IsProcessed
<1>4. ASSUME batch' = <<>>
      PROVE  BatchFits'
  <2>1. DOMAIN batch' = {} /\ ToSet(batch') = {}
    BY <1>4 DEF ToSet
  <2> QED
    BY <2>1 DEF BatchFits
<1>5. ASSUME mem' = mem \/ mem' = disk \/ (mem'.cursor = mem.cursor /\ mem'.processed = mem.processed)
      PROVE  KeysKept(mem)'
  BY <1>2, <1>5, Zenon DEF KeysKept
<1>6. ASSUME mem' = Empty
      PROVE  KeysKept(mem)'
  BY <1>6, BoundsAssumption DEF KeysKept, Empty, ToSet
<1>9. ASSUME Run(batch'), Fits(mem'.cursor, ToSet(batch'), ToSet(mem'.processed))
      PROVE  BatchFits'
  <2>1. \A n \in ToSet(batch') : n \in Messages
    BY ElementOfSeq, LenProperties DEF ToSet, TypeOK
  <2>2. \A n \in ToSet(batch') : n <= mem'.cursor + MaxProcessed
    BY <1>9 DEF Fits
  <2>3. \A n \in ToSet(batch'), m \in Messages :
          mem'.cursor < m /\ m < n => m \in ToSet(mem'.processed) \/ m \in ToSet(batch') \/ Dismissed(m)'
    BY <1>2, <1>9 DEF Fits
  <2>4. \A n \in ToSet(batch'), k \in ToSet(mem'.processed) :
          n < k => n \in ToSet(mem'.processed) \/ Dismissed(n)'
    BY <1>2, <1>9, <2>1 DEF Fits
  <2> QED
    BY <1>9, <2>2, <2>3, <2>4, Zenon DEF BatchFits, IsProcessed
<1>7. CASE Quiet
  <2>1. BatchFits'
    BY <1>3, <1>7, <1>9 DEF Quiet
  <2> QED
    BY <1>5, <1>7, <2>1 DEF Quiet
<1>8. CASE Load \/ Clear \/ Crash \/ SaveBatch
  <2>1. batch' = <<>>
    BY <1>8 DEF Load, Clear, Crash, SaveBatch, BatchPlaces
  <2>2. mem' = Empty \/ mem' = disk \/ mem' = mem
    BY <1>8 DEF Load, Clear, Crash, SaveBatch
  <2> QED
    BY <1>4, <1>5, <1>6, <2>1, <2>2
<1>10. CASE Poll
  <2>1. PICK last \in mem.cursor .. Len(Kind), moves \in BOOLEAN :
          /\ flooded' = (flooded \/ last > mem.cursor + MaxProcessed)
          /\ mem' = IF moves THEN [mem EXCEPT !.cursor = last] ELSE mem
          /\ batch' = [i \in 1 .. (last - mem.cursor) |-> mem.cursor + i]
    BY <1>10 DEF Poll
  <2>2. aged' = aged
    BY <1>10 DEF Poll
  <2>3. /\ mem.cursor \in 0 .. Len(Kind) /\ Len(Kind) \in Nat /\ Messages = 1 .. Len(Kind)
        /\ mem.cursor \in Nat /\ last \in Nat /\ mem.cursor <= last /\ MaxProcessed \in Nat
    BY MessageNumbers, BoundsAssumption DEF TypeOK, States
  <2>4. mem'.processed = mem.processed /\ mem'.cursor \in {mem.cursor, last}
    BY <2>1 DEF TypeOK, States
  <2>5. ToSet(batch') = (mem.cursor + 1) .. last /\ DOMAIN batch' = 1 .. (last - mem.cursor)
    BY <2>1, <2>3, BatchOfMessages
  <2>6. \A k \in ToSet(mem.processed) : k \in Messages
    <3>1. mem.processed \in Seq(Messages)
      BY DEF TypeOK, States
    <3> QED
      BY <3>1, ElementOfSeq, LenProperties DEF ToSet
  <2>7. KeysKept(mem)'
    <3>1. \A k \in ToSet(mem.processed) : k <= mem'.cursor + MaxProcessed
      BY <2>3, <2>4, <2>6 DEF KeysKept
    <3>2. \A k \in ToSet(mem.processed), m \in Messages :
            mem'.cursor < m /\ m < k => m \in ToSet(mem.processed) \/ Dismissed(m)
      BY <2>3, <2>4, <2>6 DEF KeysKept
    <3> QED
      BY <1>2, <2>4, <3>1, <3>2, Zenon DEF KeysKept
  <2>8. Run(batch')
    BY <2>1, <2>3
  <2>9. Fits(mem'.cursor, ToSet(batch'), ToSet(mem'.processed))
    <3>1. ASSUME NEW n \in (mem.cursor + 1) .. last
          PROVE  n <= mem'.cursor + MaxProcessed
      <4>1. ~ (last > mem.cursor + MaxProcessed)
        BY <2>1, Zenon
      <4> QED
        BY <2>3, <2>4, <4>1
    <3>2. ASSUME NEW n \in (mem.cursor + 1) .. last, NEW m \in Messages, mem'.cursor < m, m < n
          PROVE  m \in (mem.cursor + 1) .. last
      BY <2>1, <2>3, <2>4, <3>2
    <3>3. ASSUME NEW n \in (mem.cursor + 1) .. last, NEW k \in ToSet(mem.processed), n < k
          PROVE  n \in ToSet(mem.processed) \/ Dismissed(n)
      <4>1. n \in Messages /\ mem.cursor < n
        BY <2>3
      <4> QED
        BY <3>3, <4>1 DEF KeysKept
    <3> QED
      BY <2>4, <2>5, <3>1, <3>2, <3>3 DEF Fits
  <2> QED
    BY <1>9, <2>7, <2>8, <2>9
<1>11. batch # <<>> =>
         /\ Run(Tail(batch)) /\ ToSet(batch) = {Current} \cup ToSet(Tail(batch))
         /\ Mark(mem, Current).cursor = mem.cursor
  BY BatchTail, CurrentMessage, MarkTouchesKeys DEF TypeOK
<1>12. CASE LeaveOut
  <2>1. batch # <<>> /\ batch' = Tail(batch)
    BY <1>12 DEF LeaveOut
  <2>2. /\ Run(batch') /\ ToSet(batch') \subseteq ToSet(batch)
        /\ \A n \in ToSet(batch) \ ToSet(batch') : n = Current
    BY <1>11, <2>1
  <2>3. CASE Skipped /\ mem' = mem /\ aged' = aged
    <3>1. IsProcessed(Current) \/ Dismissed(Current)
      BY <2>3 DEF Skipped, Dismissed
    <3>2. Fits(mem.cursor, ToSet(batch'), ToSet(mem.processed))
      BY <1>3, <2>2, <3>1, RestFits DEF IsProcessed
    <3> QED
      BY <1>5, <1>9, <2>2, <2>3, <3>2
  <2>4. CASE ~ Skipped /\ mem' = mem /\ aged' = Current
    <3>1. Current \in Messages /\ Current \in Nat
      BY <2>1, CurrentMessage, MessageNumbers
    <3>2. ASSUME NEW m \in Messages, m = Current
          PROVE  Dismissed(m)'
      BY <2>4, <3>1, <3>2 DEF Dismissed
    <3>3. \A n \in ToSet(batch'), m \in Messages :
            mem.cursor < m /\ m < n => m \in ToSet(mem.processed) \/ m \in ToSet(batch') \/ Dismissed(m)'
      BY <1>2, <1>3, <2>2, <3>2 DEF Fits
    <3>4. \A n \in ToSet(batch'), k \in ToSet(mem.processed) :
            n < k => n \in ToSet(mem.processed) \/ Dismissed(n)'
      <4>1. \A n \in ToSet(batch') : n \in Messages
        BY ElementOfSeq, LenProperties DEF ToSet, TypeOK
      <4> QED
        BY <1>2, <1>3, <2>2, <4>1 DEF Fits
    <3>5. \A n \in ToSet(batch') : n <= mem.cursor + MaxProcessed
      BY <1>3, <2>2 DEF Fits
    <3>6. BatchFits'
      BY <2>2, <2>4, <3>3, <3>4, <3>5, Zenon DEF BatchFits, IsProcessed
    <3> QED
      BY <1>5, <2>4, <3>6
  <2>5. CASE ~ Skipped /\ mem' = Mark(mem, Current) /\ aged' = aged
    <3>1. KeysKept(Mark(mem, Current)) /\ Current \in ToSet(Mark(mem, Current).processed)
      BY <2>1, <2>5, MarkKeeps
    <3>2. Fits(mem.cursor, ToSet(batch), ToSet(Mark(mem, Current).processed))
      BY <2>1, <2>5, MarkFits
    <3>3. Fits(mem.cursor, ToSet(batch'), ToSet(Mark(mem, Current).processed))
      BY <2>2, <3>1, <3>2, RestFits
    <3>4. KeysKept(mem)'
      BY <1>2, <2>5, <3>1, Zenon DEF KeysKept
    <3> QED
      BY <1>9, <1>11, <2>1, <2>2, <2>5, <3>3, <3>4
  <2> QED
    BY <1>12, <2>3, <2>4, <2>5 DEF LeaveOut
<1>13. CASE Succeeded \/ Failed
  <2>1. batch # <<>> /\ ~ Skipped /\ batch' = batch /\ mem' = Mark(mem, Current)
    BY <1>13 DEF Succeeded, Failed, BatchPlaces
  <2>2. KeysKept(Mark(mem, Current))
    BY <2>1, MarkKeeps
  <2>3. Fits(mem.cursor, ToSet(batch), ToSet(Mark(mem, Current).processed))
    BY <2>1, MarkFits
  <2>4. KeysKept(mem)'
    BY <1>2, <2>1, <2>2, Zenon DEF KeysKept
  <2> QED
    BY <1>3, <1>9, <1>11, <2>1, <2>3, <2>4
<1>14. CASE Save
  <2>1. mem' = mem /\ batch # <<>> /\ IsProcessed(Current) /\ aged' = aged
    BY <1>14 DEF Save, BatchPlaces
  <2>2. CASE batch' = batch
    BY <1>3, <1>5, <1>9, <2>1, <2>2
  <2>3. CASE batch' = Tail(batch)
    <3>1. Fits(mem.cursor, ToSet(batch'), ToSet(mem.processed))
      BY <1>3, <1>11, <2>1, <2>3, RestFits DEF IsProcessed
    <3> QED
      BY <1>5, <1>9, <1>11, <2>1, <2>3, <3>1
  <2> QED
    BY <1>14, <2>2, <2>3 DEF Save
<1> QED
  BY <1>1, <1>7, <1>8, <1>10, <1>12, <1>13, <1>14, QuietSteps DEF Next, LoopStep

(* Where the loop works, it has a message to work on.                      *)
LEMMA NextBatchPlaces ==
  ASSUME TypeOK, StatusHonest, BatchPlaces, Next
  PROVE  BatchPlaces'
<1> USE DEF Trouble, loop, command, history
<1> DEFINE Message == batch # <<>> /\ ~ Skipped
<1>1. Working => batch # <<>>
  BY DEF Working, BatchPlaces
<1>2. ASSUME Quiet
      PROVE  Message => Message'
  <2>1. Current' = Current
    BY <1>2 DEF Quiet, Current
  <2>2. batch' = batch /\ aged' = aged /\ ToSet(mem'.processed) = ToSet(mem.processed)
    BY <1>2 DEF Quiet
  <2> QED
    BY <2>1, <2>2, Zenon DEF Skipped, IsProcessed
<1>3. ToSet(<<>>) = {}
  BY NothingKept
<1>4. CASE Start \/ CannotStart \/ Stop \/ StopTells \/ PollFails \/ LoopEnds
  <2>1. Quiet
    BY <1>1, <1>4, QuietSteps
  <2>2. pc = "save" => Current' = Current /\ IsProcessed(Current)' = IsProcessed(Current)
    BY <2>1 DEF Quiet, Current, IsProcessed
  <2> QED
    BY <1>2, <1>3, <1>4, <2>1, <2>2 DEF BatchPlaces, StatusHonest, Quiet, Start, CannotStart, Stop, StopTells, PollFails, LoopEnds
<1>5. CASE Process
  <2>1. Quiet
    BY <1>1, <1>5, QuietSteps
  <2> QED
    BY <1>2, <1>5, <2>1 DEF BatchPlaces, Process
<1>6. CASE EnsureServer \/ Resume \/ NewThread \/ BeginTurn \/ Read \/ TurnFails \/ TurnStopped \/ Send
  <2>1. Quiet
    BY <1>1, <1>6, QuietSteps
  <2>2. /\ pc \in {"server", "thread", "turn", "reading", "sent", "failed"}
        /\ pc' \in {"server", "thread", "turn", "reading", "sent", "failed"}
    BY <1>6 DEF EnsureServer, Resume, NewThread, BeginTurn, Read, TurnFails, TurnStopped, Send, Goto
  <2> QED
    BY <1>2, <2>1, <2>2 DEF BatchPlaces
<1>7. CASE ServerResponds \/ ServerWrites
  <2>1. Quiet
    BY <1>1, <1>7, QuietSteps
  <2>2. pc' = pc /\ settled' = settled /\ batch' = batch
    BY <1>7 DEF ServerResponds, ServerWrites
  <2>3. Current' = Current /\ IsProcessed(Current)' = IsProcessed(Current)
    BY <2>1 DEF Quiet, Current, IsProcessed
  <2> QED
    BY <1>2, <2>1, <2>2, <2>3 DEF BatchPlaces
<1>8. CASE Load \/ Poll \/ Clear \/ LeaveOut \/ Break
  BY <1>8 DEF BatchPlaces, Load, Poll, Clear, LeaveOut, Break
<1>9. CASE SaveBatch \/ Crash
  BY <1>3, <1>9 DEF BatchPlaces, SaveBatch, Crash
<1>10. CASE Succeeded \/ Failed
  <2>1. /\ batch # <<>> /\ ~ Skipped /\ batch' = batch /\ mem' = Mark(mem, Current)
        /\ settled' = settled \cup {Current} /\ pc' = "save"
    BY <1>10 DEF Succeeded, Failed, BatchPlaces
  <2>2. Current \in ToSet(Mark(mem, Current).processed)
    BY <2>1, MarkKnows
  <2>3. Current' = Current
    BY <2>1 DEF Current
  <2>4. IsProcessed(Current)'
    BY <2>1, <2>2, <2>3, Zenon DEF IsProcessed
  <2> QED
    BY <2>1, <2>3, <2>4 DEF BatchPlaces
<1>11. CASE Save
  <2>1. batch # <<>> /\ Current \in settled
    BY <1>11 DEF Save, BatchPlaces
  <2>2. ToSet(batch) = {Current} \cup ToSet(Tail(batch))
    BY <2>1, BatchSplit
  <2> QED
    BY <1>11, <2>1, <2>2 DEF Save, BatchPlaces
<1> QED
  BY <1>4, <1>5, <1>6, <1>7, <1>8, <1>9, <1>10, <1>11 DEF Next, LoopStep

(* Every step keeps the key of an answered message that can come again.    *)
LEMMA NextAnswersKnown ==
  ASSUME TypeOK, StatusHonest, BatchPlaces, BatchFits, KeysKept(mem), AnswersKnown, Next
  PROVE  AnswersKnown'
<1> USE DEF Trouble, loop, command, history
<1>0. (replies' = replies => Answered' = Answered) /\ Unsaved \subseteq Answered
  BY DEF Answered, Unsaved
<1>1. Working => batch # <<>>
  BY DEF Working, BatchPlaces
<1>2. ASSUME Quiet
      PROVE  /\ Current' = Current /\ ToSet(batch') = ToSet(batch) /\ mem'.cursor = mem.cursor
             /\ ToSet(mem'.processed) = ToSet(mem.processed) /\ disk' = disk
  BY <1>2 DEF Quiet, Current
<1>3. ToSet(<<>>) = {}
  BY NothingKept
<1>4. CASE Start \/ CannotStart \/ Stop \/ StopTells \/ PollFails \/ LoopEnds
  <2>1. Quiet
    BY <1>1, <1>4, QuietSteps
  <2>2. Answered' = Answered /\ again' = again
    BY <1>0, <1>4 DEF Start, CannotStart, Stop, StopTells, PollFails, LoopEnds
  <2>3. CASE pc' = pc
    BY <1>2, <2>1, <2>2, <2>3, Zenon DEF AnswersKnown, IsProcessed
  <2>4. CASE \/ pc = "off" /\ pc' = "load"
             \/ pc = "load" /\ pc' = "ended"
             \/ pc = "poll" /\ pc' = "ended"
    BY <1>2, <2>1, <2>2, <2>4 DEF AnswersKnown, IsProcessed
  <2>5. CASE CannotStart
    BY <2>4, <2>5 DEF CannotStart
  <2>6. CASE Start
    <3>1. ~ runs /\ pc' = "load"
      BY <2>6 DEF Start
    <3>2. runs <=> pc # "off"
      BY DEF StatusHonest
    <3>3. pc = "off"
      BY <3>1, <3>2 DEF TypeOK
    <3> QED
      BY <2>4, <3>1, <3>3
  <2>7. CASE Stop \/ StopTells \/ PollFails
    BY <2>3, <2>7 DEF Stop, StopTells, PollFails
  <2>8. CASE LoopEnds
    BY <2>4, <2>8 DEF LoopEnds
  <2> QED
    BY <1>4, <2>5, <2>6, <2>7, <2>8
<1>5. CASE \/ Process \/ EnsureServer \/ Resume \/ NewThread \/ BeginTurn \/ Read
            \/ TurnFails \/ TurnStopped
  <2>1. Quiet
    BY <1>1, <1>5, QuietSteps
  <2>2. /\ Answered' = Answered /\ again' = again
        /\ pc \in {"batch", "server", "thread", "turn", "reading"}
        /\ pc' \in {"server", "thread", "turn", "reading", "failed"}
    BY <1>0, <1>5 DEF Process, EnsureServer, Resume, NewThread, BeginTurn, Read, TurnFails, TurnStopped, Goto
  <2> QED
    BY <1>2, <2>1, <2>2 DEF AnswersKnown, IsProcessed
<1>6. CASE ServerResponds \/ ServerWrites
  <2>1. Quiet
    BY <1>1, <1>6, QuietSteps
  <2>2. Answered' = Answered /\ again' = again /\ pc' = pc
    BY <1>0, <1>6 DEF ServerResponds, ServerWrites
  <2> QED
    BY <1>2, <2>1, <2>2, Zenon DEF AnswersKnown, IsProcessed
<1>7. CASE Send
  <2>1. Quiet
    BY <1>1, <1>7, QuietSteps
  <2>2. again' = again /\ pc = "reading"
    BY <1>7 DEF Send, Goto
  <2>3. \/ Answered' = Answered \cup {Current} /\ pc' = "sent"
        \/ Answered' = Answered /\ pc' = "failed"
    BY <1>7, SentAnswers
  <2> QED
    BY <1>2, <2>1, <2>2, <2>3 DEF AnswersKnown, IsProcessed
<1>8. CASE Break
  <2>1. Quiet
    BY <1>1, <1>8, QuietSteps
  <2>2. /\ Answered' = Answered /\ again' = again \cup ({Current} \cap Answered)
        /\ pc \in {"sent", "failed"} /\ pc' = "batch"
    BY <1>0, <1>8 DEF Break
  <2> QED
    BY <1>2, <2>1, <2>2 DEF AnswersKnown, IsProcessed
<1>9. CASE Load
  <2>1. /\ pc = "load" /\ pc' = "poll" /\ Answered' = Answered /\ batch = <<>> /\ batch' = batch
        /\ disk' = disk
        /\ (mem' = disk /\ again' = again) \/ again' = again \cup Answered
    BY <1>0, <1>9 DEF Load, BatchPlaces
  <2> QED
    BY <1>3, <2>1 DEF AnswersKnown, IsProcessed
<1>10. CASE Poll
  <2>1. PICK last \in mem.cursor .. Len(Kind), moves \in BOOLEAN :
          /\ mem' = IF moves THEN [mem EXCEPT !.cursor = last] ELSE mem
          /\ batch' = [i \in 1 .. (last - mem.cursor) |-> mem.cursor + i]
    BY <1>10 DEF Poll
  <2>2. /\ mem.cursor \in 0 .. Len(Kind) /\ mem.cursor \in Nat /\ last \in Nat /\ mem.cursor <= last
        /\ Answered \subseteq Nat
    BY MessageNumbers DEF TypeOK, States
  <2>3. mem'.processed = mem.processed /\ mem'.cursor \in {mem.cursor, last}
    BY <2>1 DEF TypeOK, States
  <2>4. ToSet(batch') = (mem.cursor + 1) .. last
    BY <2>1, <2>2, BatchOfMessages
  <2>5. pc = "poll" /\ pc' = "batch" /\ Answered' = Answered /\ again' = again
    BY <1>0, <1>10 DEF Poll
  <2>6. ASSUME NEW m \in Answered, m > mem'.cursor \/ m \in ToSet(batch')
        PROVE  m > mem.cursor
    BY <2>2, <2>3, <2>4, <2>6
  <2> QED
    BY <2>3, <2>5, <2>6 DEF AnswersKnown, IsProcessed
<1>11. CASE Clear
  <2>1. pc = "ended" /\ pc' = "off" /\ disk' = disk /\ Answered' = Answered /\ again' = again
    BY <1>0, <1>11 DEF Clear
  <2> QED
    BY <2>1 DEF AnswersKnown
<1>12. CASE Crash
  <2>1. pc' = "off" /\ disk' = disk /\ Answered' = Answered /\ again' = again \cup Unsaved
    BY <1>0, <1>12 DEF Crash
  <2> QED
    BY <2>1 DEF AnswersKnown, Unsaved
<1>13. CASE SaveBatch
  <2>1. pc = "batch" /\ batch' = <<>> /\ mem' = mem /\ Answered' = Answered
    BY <1>0, <1>13 DEF SaveBatch
  <2>2. CASE disk' = mem /\ pc' = "poll" /\ again' = again
    BY <1>3, <2>1, <2>2 DEF AnswersKnown, IsProcessed
  <2>3. CASE disk' = disk /\ pc' = "ended" /\ again' = again \cup Unsaved
    BY <1>3, <2>1, <2>3 DEF AnswersKnown, IsProcessed, Unsaved
  <2> QED
    BY <1>13, <2>2, <2>3 DEF SaveBatch
<1>14. batch # <<>> => ToSet(batch) = {Current} \cup ToSet(Tail(batch)) /\ Current \in ToSet(batch)
  BY BatchTail
<1>15. CASE Save
  <2>1. pc = "save" /\ batch # <<>> /\ mem' = mem /\ Answered' = Answered
    BY <1>0, <1>15 DEF Save, BatchPlaces
  <2>2. CASE disk' = mem /\ pc' = "batch" /\ again' = again /\ batch' = Tail(batch)
    BY <1>14, <2>1, <2>2 DEF AnswersKnown, IsProcessed
  <2>3. CASE disk' = disk /\ pc' = "ended" /\ again' = again \cup Unsaved /\ batch' = batch
    BY <2>1, <2>3 DEF AnswersKnown, IsProcessed, Unsaved
  <2> QED
    BY <1>15, <2>2, <2>3 DEF Save
<1>16. ASSUME batch # <<>>, ~ Skipped
       PROVE  /\ Current \in ToSet(Mark(mem, Current).processed)
              /\ Mark(mem, Current).cursor = mem.cursor
              /\ \A m \in ToSet(mem.processed) :
                   (m > mem.cursor \/ m \in ToSet(batch)) => m \in ToSet(Mark(mem, Current).processed)
  <2>1. /\ Current \in ToSet(Mark(mem, Current).processed)
        /\ \A m \in ToSet(mem.processed) :
             m \in ToSet(Mark(mem, Current).processed) \/ (m <= mem.cursor /\ m < Current)
    BY <1>16, MarkKeeps
  <2>2. Current \in Nat /\ mem.cursor \in Nat /\ \A n \in ToSet(batch) : n \in Nat /\ Current <= n
    <3>1. Current \in ToSet(batch) /\ \A n \in ToSet(batch) : n \in Messages /\ Current <= n
      BY <1>16, BatchTail
    <3>2. mem.cursor \in 0 .. Len(Kind)
      BY DEF TypeOK, States
    <3> QED
      BY <3>1, <3>2, MessageNumbers
  <2>3. \A m \in ToSet(mem.processed) : m \in Nat
    BY MessageNumbers, ElementOfSeq, LenProperties DEF ToSet, TypeOK, States
  <2>4. Mark(mem, Current).cursor = mem.cursor
    BY <1>16, CurrentMessage, MarkTouchesKeys DEF TypeOK
  <2> QED
    BY <2>1, <2>2, <2>3, <2>4
<1>17. CASE Succeeded \/ Failed
  <2>1. /\ batch # <<>> /\ ~ Skipped /\ batch' = batch /\ mem' = Mark(mem, Current)
        /\ Answered' = Answered /\ again' = again /\ pc \in {"sent", "failed"} /\ pc' = "save"
    BY <1>0, <1>17 DEF Succeeded, Failed, BatchPlaces
  <2> QED
    BY <1>16, <2>1 DEF AnswersKnown, IsProcessed
<1>18. CASE LeaveOut
  <2>1. /\ batch # <<>> /\ batch' = Tail(batch) /\ pc = "batch" /\ pc' = pc
        /\ Answered' = Answered /\ again' = again
        /\ mem' = mem \/ (~ Skipped /\ mem' = Mark(mem, Current))
    BY <1>0, <1>18 DEF LeaveOut
  <2> QED
    BY <1>14, <1>16, <2>1 DEF AnswersKnown, IsProcessed
<1> QED
  BY <1>4, <1>5, <1>6, <1>7, <1>8, <1>9, <1>10, <1>11, <1>12, <1>13, <1>15, <1>17, <1>18 DEF Next, LoopStep

-----------------------------------------------------------------------------
(* The theorems.                                                           *)

(* At the beginning no loop runs, and nothing is kept.                     *)
LEMMA InitLoopInv == Init => LoopInv
<1> SUFFICES ASSUME Init PROVE LoopInv
  OBVIOUS
<1>1. TypeOK
  <2>1. <<>> \in Seq(Messages) /\ <<>> \in Seq(Events)
    BY EmptySeq
  <2>2. Empty \in States
    BY <2>1, MessageNumbers DEF Empty, States
  <2>3. NoServer \in Servers
    BY <2>1 DEF NoServer, Servers
  <2>4. Answered = {}
    BY DEF Init, Answered
  <2>5. 0 \in 0 .. Len(Kind) /\ 0 \in 0 .. MaxTrouble
    BY MessageNumbers, BoundsAssumption
  <2> QED
    BY <2>1, <2>2, <2>3, <2>4, <2>5 DEF Init, TypeOK
<1>2. StatusHonest /\ TurnInv
  BY DEF Init, StatusHonest, TurnInv, NoServer, Empty
<1>3. KeysKept(mem) /\ KeysKept(disk)
  BY NothingKept, Zenon DEF Init
<1>4. BatchFits /\ BatchPlaces /\ AnswersKnown
  BY NothingKept DEF Init, BatchFits, BatchPlaces, AnswersKnown, Answered
<1> QED
  BY <1>1, <1>2, <1>3, <1>4 DEF LoopInv, KeysFit

(* No step of the loop, of the app-server or of the user breaks it.        *)
LEMMA NextLoopInv == LoopInv /\ [Next]_vars => LoopInv'
<1> SUFFICES ASSUME LoopInv, [Next]_vars PROVE LoopInv'
  OBVIOUS
<1>1. Working => batch # <<>>
  BY DEF LoopInv, Working, BatchPlaces
<1>2. CASE Next
  <2>1. TypeOK'
    BY <1>1, <1>2, NextTypeOK DEF LoopInv
  <2>2. StatusHonest' /\ TurnInv'
    BY <1>1, <1>2, NextStatusHonest, NextTurnInv DEF LoopInv
  <2>3. BatchPlaces'
    BY <1>2, NextBatchPlaces DEF LoopInv
  <2>4. ASSUME ~ flooded'
        PROVE  KeysFit'
    <3>1. ~ flooded
      BY <1>2, <2>4, FloodStays
    <3>2. KeysKept(mem) /\ KeysKept(disk) /\ BatchFits /\ AnswersKnown
      BY <3>1 DEF LoopInv, KeysFit
    <3>3. KeysKept(mem)' /\ KeysKept(disk)' /\ BatchFits'
      BY <1>1, <1>2, <2>1, <2>4, <3>2, NextDiskKept, NextKeysAndBatch DEF LoopInv
    <3>4. AnswersKnown'
      BY <1>2, <3>2, NextAnswersKnown DEF LoopInv
    <3> QED
      BY <3>3, <3>4 DEF KeysFit
  <2> QED
    BY <2>1, <2>2, <2>3, <2>4 DEF LoopInv
<1>3. CASE UNCHANGED vars
  <2>1. /\ pc' = pc /\ mem' = mem /\ disk' = disk /\ batch' = batch /\ server' = server /\ parts' = parts
        /\ seen' = seen /\ runs' = runs /\ stop' = stop /\ status' = status /\ telling' = telling
        /\ aged' = aged /\ trouble' = trouble /\ replies' = replies /\ again' = again /\ settled' = settled
        /\ flooded' = flooded
    BY <1>3 DEF vars, loop, command, history
  <2>2. /\ Current' = Current /\ Answered' = Answered /\ Peer' = Peer
        /\ ToSet(batch)' = ToSet(batch) /\ ToSet(mem.processed)' = ToSet(mem.processed)
        /\ \A m : Dismissed(m)' <=> Dismissed(m)
        /\ Skipped' <=> Skipped
    BY <2>1 DEF Current, Answered, Peer, Dismissed, Skipped, IsProcessed
  <2>3. TypeOK' /\ StatusHonest'
    BY <2>1, <2>2 DEF LoopInv, TypeOK, StatusHonest
  <2>4. TurnInv'
    BY <2>1, <2>2, Zenon DEF LoopInv, TurnInv
  <2>5. BatchPlaces'
    BY <2>1, <2>2, Zenon DEF LoopInv, BatchPlaces, IsProcessed
  <2>6. ASSUME KeysFit
        PROVE  KeysFit'
    <3>1. KeysKept(mem)' /\ KeysKept(disk)'
      BY <2>1, <2>2, <2>6, Zenon DEF KeysFit, KeysKept
    <3>2. BatchFits'
      BY <2>1, <2>2, <2>6, Zenon DEF KeysFit, BatchFits, IsProcessed
    <3>3. AnswersKnown'
      BY <2>1, <2>2, <2>6, Zenon DEF KeysFit, AnswersKnown, IsProcessed
    <3> QED
      BY <3>1, <3>2, <3>3 DEF KeysFit
  <2> QED
    BY <2>1, <2>3, <2>4, <2>5, <2>6 DEF LoopInv
<1> QED
  BY <1>2, <1>3

(* However messages come, commands are given and calls fail: the status is *)
(* honest, turns and conversations are not mixed and, as long as the       *)
(* gateway never sends more messages at once than keys are kept, the keys  *)
(* and the cursor leave no gap and an answered message that can come again *)
(* is known.                                                               *)
THEOREM LoopInvariant == Spec => []LoopInv
<1>1. Init => LoopInv
  BY InitLoopInv
<1>2. LoopInv /\ [Next]_vars => LoopInv'
  BY NextLoopInv
<1> QED
  BY <1>1, <1>2, PTL DEF Spec

(* A message is answered a second time only if its first answer was never  *)
(* saved, because the manager died, a save failed or a stop cut it off, or *)
(* the saved state could not be read, or if the gateway has sent more      *)
(* messages at once than keys are kept: otherwise it may send it again as  *)
(* often as it likes, although keys are dropped from the list.             *)
THEOREM NeverAnsweredTwice == Spec => []AnsweredOnce
<1>1. Init => AnsweredOnce
  BY DEF Init, AnsweredOnce
<1>2. LoopInv /\ AnsweredOnce /\ [Next]_vars => AnsweredOnce'
  <2> SUFFICES ASSUME LoopInv, AnsweredOnce, [Next]_vars PROVE AnsweredOnce'
    OBVIOUS
  <2>1. again \subseteq again' /\ (flooded => flooded')
    <3>1. again \subseteq again'
      BY DEF vars, loop, history, Next, LoopStep, Start, Stop, StopTells, Load, CannotStart, Poll, PollFails,
             LoopEnds, Clear, LeaveOut, Process, SaveBatch, EnsureServer, Resume, NewThread, BeginTurn, Read,
             TurnFails, TurnStopped, Send, Break, Succeeded, Failed, Save, ServerResponds, ServerWrites, Crash
    <3>2. flooded => flooded'
      BY FloodStays DEF vars, history
    <3> QED
      BY <3>1, <3>2
  <2>2. replies' = replies \/ Send
    BY DEF vars, loop, history, Next, LoopStep, Start, Stop, StopTells, Load, CannotStart, Poll, PollFails, LoopEnds,
           Clear, LeaveOut, Process, SaveBatch, EnsureServer, Resume, NewThread, BeginTurn, Read, TurnFails,
           TurnStopped, Break, Succeeded, Failed, Save, ServerResponds, ServerWrites, Crash
  <2>3. ASSUME Send, Reply.nth > 0
        PROVE  Reply.to \in again \/ flooded
    <3>1. pc = "reading" /\ batch # <<>> /\ ~ IsProcessed(Current) /\ Current \in ToSet(batch)
      BY <2>3, BatchSplit DEF Send, LoopInv, BatchPlaces, Skipped
    <3>2. Current \notin Answered \ again \/ flooded
      BY <3>1 DEF LoopInv, KeysFit, AnswersKnown
    <3>3. Reply.to = Current /\ Reply.nth = Cardinality({r \in replies : r.to = Current})
      BY DEF Reply
    <3>4. {r \in replies : r.to = Current} # {}
      <4> DEFINE first == {r \in replies : r.to = Current}
      <4>1. Cardinality({}) = 0
        BY FS_EmptySet
      <4>2. Cardinality(first) > 0
        BY <2>3, <3>3, Zenon
      <4> HIDE DEF first
      <4>3. first # {}
        BY <4>1, <4>2
      <4> QED
        BY <4>3 DEF first
    <3>5. Current \in Answered
      BY <3>4 DEF Answered
    <3> QED
      BY <3>2, <3>3, <3>5
  <2>4. CASE replies' = replies
    BY <2>1, <2>4 DEF AnsweredOnce
  <2>5. CASE Send
    <3>1. \A r \in replies' : r \in replies \/ r = Reply
      BY <2>5, SentAnswers
    <3> QED
      BY <2>1, <2>3, <2>5, <3>1 DEF AnsweredOnce
  <2> QED
    BY <2>2, <2>4, <2>5
<1> QED
  BY <1>1, <1>2, LoopInvariant, PTL DEF Spec

(* Every message the cursor has passed was answered, refused with an       *)
(* apology, or left out for a reason, but for those of a batch that was    *)
(* cut off, and those the loop still has before it.                        *)
THEOREM NoMessageSkipped == Spec => []NothingSkipped
<1>1. Init => NothingSkipped
  BY MessageNumbers DEF Init, NothingSkipped, Empty
<1>2. LoopInv /\ NothingSkipped /\ [Next]_vars => NothingSkipped'
  <2> SUFFICES ASSUME LoopInv, NothingSkipped, [Next]_vars PROVE NothingSkipped'
    OBVIOUS
  <2> USE DEF loop, history
  <2>1. Working => batch # <<>>
    BY DEF LoopInv, Working, BatchPlaces
  <2>2. ToSet(<<>>) = {} /\ Empty.cursor = 0 /\ \A m \in Messages : ~ (m <= 0) /\ m \in Nat
    BY NothingKept, MessageNumbers
  <2>3. batch # <<>> =>
          /\ ToSet(batch) = {Current} \cup ToSet(Tail(batch))
          /\ Mark(mem, Current).cursor = mem.cursor
    BY BatchSplit, CurrentMessage, MarkTouchesKeys DEF LoopInv, TypeOK
  <2>4. CASE UNCHANGED vars
    BY <2>4 DEF vars, NothingSkipped
  <2>5. CASE \/ Start \/ CannotStart \/ Stop \/ StopTells \/ PollFails \/ LoopEnds \/ Process
             \/ EnsureServer \/ Resume \/ NewThread \/ BeginTurn \/ Read \/ TurnFails \/ TurnStopped \/ Send
             \/ Break \/ ServerResponds \/ ServerWrites
    <3>1. Quiet
      BY <2>1, <2>5, QuietSteps DEF LoopInv
    <3>2. settled' = settled
      BY <2>5 DEF Start, CannotStart, Stop, StopTells, PollFails, LoopEnds, Process, EnsureServer, Resume, NewThread,
         BeginTurn, Read, TurnFails, TurnStopped, Send, Break, ServerResponds, ServerWrites
    <3> QED
      BY <3>1, <3>2 DEF Quiet, NothingSkipped
  <2>6. CASE Load \/ Clear \/ Crash
    BY <2>2, <2>6 DEF Load, Clear, Crash, NothingSkipped, LoopInv, BatchPlaces
  <2>7. CASE Poll
    <3>1. PICK last \in mem.cursor .. Len(Kind), moves \in BOOLEAN :
            /\ mem' = IF moves THEN [mem EXCEPT !.cursor = last] ELSE mem
            /\ batch' = [i \in 1 .. (last - mem.cursor) |-> mem.cursor + i]
      BY <2>7 DEF Poll
    <3>2. mem.cursor \in 0 .. Len(Kind) /\ mem.cursor \in Nat /\ last \in Nat
      BY MessageNumbers DEF LoopInv, TypeOK, States
    <3>3. mem'.cursor \in {mem.cursor, last}
      BY <3>1 DEF LoopInv, TypeOK, States
    <3>4. ToSet(batch') = (mem.cursor + 1) .. last
      BY <3>1, <3>2, BatchOfMessages
    <3>5. disk' = disk /\ settled' = settled /\ ToSet(batch) = {}
      BY <2>2, <2>7 DEF Poll, LoopInv, BatchPlaces
    <3>6. ASSUME NEW m \in Messages, m <= mem'.cursor
          PROVE  m <= mem.cursor \/ m \in ToSet(batch')
      BY <2>2, <3>2, <3>3, <3>4, <3>6
    <3> QED
      BY <3>5, <3>6 DEF NothingSkipped
  <2>8. CASE LeaveOut
    BY <2>3, <2>8 DEF LeaveOut, NothingSkipped
  <2>9. CASE SaveBatch
    BY <2>2, <2>9 DEF SaveBatch, NothingSkipped
  <2>10. CASE Succeeded \/ Failed
    BY <2>1, <2>3, <2>10 DEF Succeeded, Failed, NothingSkipped, Working
  <2>11. CASE Save
    BY <2>1, <2>3, <2>11 DEF Save, NothingSkipped, LoopInv, BatchPlaces
  <2> QED
    BY <2>4, <2>5, <2>6, <2>7, <2>8, <2>9, <2>10, <2>11 DEF Next, LoopStep
<1> QED
  BY <1>1, <1>2, LoopInvariant, PTL DEF Spec

(* A reply holds nothing but what the app-server said in answer to that    *)
(* very message, in the conversation of the peer who gets it.              *)
THEOREM RepliesArePrivate == Spec => []RepliesPrivate
<1>1. Init => RepliesPrivate
  BY DEF Init, RepliesPrivate
<1>2. LoopInv /\ RepliesPrivate /\ [Next]_vars => RepliesPrivate'
  <2> SUFFICES ASSUME LoopInv, RepliesPrivate, [Next]_vars PROVE RepliesPrivate'
    OBVIOUS
  <2>1. replies' = replies \/ Send
    BY DEF vars, loop, history, Next, LoopStep, Start, Stop, StopTells, Load, CannotStart, Poll, PollFails, LoopEnds,
           Clear, LeaveOut, Process, SaveBatch, EnsureServer, Resume, NewThread, BeginTurn, Read, TurnFails,
           TurnStopped, Break, Succeeded, Failed, Save, ServerResponds, ServerWrites, Crash
  <2>2. CASE replies' = replies
    BY <2>2 DEF RepliesPrivate
  <2>3. CASE Send
    <3>1. \A r \in replies' : r \in replies \/ r = Reply
      BY <2>3, SentAnswers
    <3>2. parts \subseteq {Current} /\ mem.thread[Peer] = Peer
      BY <2>3 DEF Send, LoopInv, TurnInv
    <3>3. Reply.says \subseteq {Reply.to} /\ Reply.thread = Reply.peer /\ Reply.peer = From[Reply.to]
      BY <3>2 DEF Reply, Peer
    <3> QED
      BY <3>1, <3>3, Zenon DEF RepliesPrivate
  <2> QED
    BY <2>1, <2>2, <2>3
<1> QED
  BY <1>1, <1>2, LoopInvariant, PTL DEF Spec
=============================================================================
