--------------------------- MODULE WeixinConnect ---------------------------
(***************************************************************************)
(* The Weixin connection of the manager (connect/mod.rs and its parts): a  *)
(* loop polls the gateway for messages, has Codex's app-server answer each *)
(* in the conversation of its sender, sends the reply back and saves what  *)
(* it has done.  The user starts and stops it; the manager, the app-server *)
(* and every call may fail.                                                *)
(*                                                                         *)
(* The app-server is modelled from how the loop uses it: it answers        *)
(* requests in order on one stream, on which the events of a turn come as  *)
(* well, "turn/completed" together with the change to idle.                *)
(***************************************************************************)
EXTENDS Naturals, Sequences, FiniteSets, SequencesExt

CONSTANTS
  Kind,          \* Kind[m], of the messages in the order of the gateway: "ask",
                 \* "noise" (unfinished, or of a peer not allowed), "wordless"
                 \* (without text or context token)
  From,          \* From[m]: the peer who sent m
  Users, Nobody,
  MaxProcessed,  \* MAX_PROCESSED_IDS
  MaxBatch,      \* bound: messages in one answer of the gateway
  MaxTrouble     \* bound: crashes, stops and failed calls

Messages == DOMAIN Kind

ASSUME MessagesAssumption ==
  /\ Kind \in Seq({"ask", "noise", "wordless"}) /\ From \in [Messages -> Users]
  /\ Nobody \notin Users
ASSUME BoundsAssumption == MaxProcessed \in Nat \ {0} /\ MaxBatch \in Nat /\ MaxTrouble \in Nat

VARIABLES
  pc,        \* where the loop is; "off": none runs
  mem,       \* ConnectState: the cursor, the threads, the processed keys
  disk,      \* the saved ConnectState
  batch,     \* messages of the last poll that are left, the current one first
  server,    \* the app-server: [up, turn, owes, out]
  parts,     \* run_turn: the answered messages whose text was collected
  seen,      \* run_turn: which of "response" and "completed" has been read
  runs,      \* weixin_runtime() is set
  stop,      \* its stop flag
  status,    \* SharedWeixinConnectStatus.state
  telling,   \* what weixin_connect_stop will write into the status
  aged,      \* the last message found to be older than five minutes
  trouble,
  replies,   \* history: complete replies sent
  again,     \* history: messages answered whose saving was cut off
  flooded,   \* history: an answer of the gateway held more than MaxProcessed
  settled    \* history: answered, refused with an apology, left out, or of a
             \*          batch that was cut off

loop == <<pc, mem, batch, server, parts, seen>>
command == <<runs, stop, telling>>
history == <<replies, again, settled, flooded>>
vars == <<loop, disk, command, status, aged, trouble, history>>

NoServer == [up |-> FALSE, turn |-> 0, owes |-> 0, out |-> <<>>]
Started == [NoServer EXCEPT !.up = TRUE]
Empty == [cursor |-> 0, thread |-> [u \in Users |-> Nobody], processed |-> <<>>]

Init ==
  /\ pc = "off" /\ mem = Empty /\ disk = Empty
  /\ batch = <<>> /\ server = NoServer /\ parts = {} /\ seen = {}
  /\ runs = FALSE /\ stop = FALSE /\ telling = "nothing" /\ status = "stopped"
  /\ aged = 0 /\ trouble = 0
  /\ replies = {} /\ again = {} /\ settled = {} /\ flooded = FALSE

Trouble == trouble < MaxTrouble /\ trouble' = trouble + 1

Current == Head(batch)
Peer == From[Current]
IsProcessed(m) == m \in ToSet(mem.processed)
Answered == {r.to : r \in replies}
Unsaved == {m \in Answered : m > disk.cursor /\ m \notin ToSet(disk.processed)}

(* mark_processed: the keys beyond the limit are dropped, the oldest first. *)
Mark(state, m) ==
  IF IsProcessed(m) THEN state
  ELSE LET keys == Append(state.processed, m)
       IN  [state EXCEPT !.processed =
              IF Len(keys) > MaxProcessed THEN Tail(keys) ELSE keys]

-----------------------------------------------------------------------------
(* The commands of the manager, one at a time on its main thread.          *)

(* spawn_weixin_connect refuses while a runtime is there.                  *)
Start ==
  /\ ~ runs /\ telling = "nothing"
  /\ runs' = TRUE /\ stop' = FALSE
  /\ status' = "starting" /\ pc' = "load"
  /\ UNCHANGED <<aged, mem, batch, server, parts, seen, disk, telling, trouble, history>>

(* weixin_connect_stop raises the flag, if there is a runtime, saves the   *)
(* settings and only then writes the status.                               *)
Stop ==
  /\ telling = "nothing" /\ Trouble
  /\ stop' = runs  \* the flag of the runtime, if there is one
  /\ telling' = IF runs THEN "stopping" ELSE "stopped"
  /\ UNCHANGED <<aged, loop, disk, runs, status, history>>

StopTellsStopped ==  \* mutant: the loop is called stopped as soon as it was told
  /\ telling # "nothing"
  /\ status' = "stopped" /\ telling' = "nothing"
  /\ UNCHANGED <<aged, loop, disk, runs, stop, trouble, history>>

StopTells ==
  /\ telling # "nothing"
  /\ status' = telling /\ telling' = "nothing"
  /\ UNCHANGED <<aged, loop, disk, runs, stop, trouble, history>>

-----------------------------------------------------------------------------
(* run_weixin_connect.                                                     *)

(* A state that cannot be read is taken for an empty one.                  *)
Load ==
  /\ pc = "load"
  /\ \/ mem' = disk /\ UNCHANGED <<trouble, again>>
     \/ /\ Trouble
        /\ mem' = Empty /\ again' = again \cup Answered
  /\ status' = "running" /\ pc' = "poll"
  /\ UNCHANGED <<aged, batch, server, parts, seen, disk, command, replies, settled, flooded>>

(* No token, no working directory or no client: the task ends before it    *)
(* looked at anything.                                                     *)
CannotStart ==
  /\ pc = "load" /\ Trouble
  /\ status' = "error" /\ pc' = "ended"
  /\ UNCHANGED <<aged, mem, batch, server, parts, seen, disk, command, history>>

(* The gateway has the messages after the cursor; an answer may come       *)
(* without a new cursor, and then the same messages come again.            *)
Poll ==
  /\ pc = "poll" /\ ~ stop
  /\ \E last \in mem.cursor .. Len(Kind), moves \in BOOLEAN :
       /\ last <= mem.cursor + MaxBatch
       /\ mem' = IF moves THEN [mem EXCEPT !.cursor = last] ELSE mem
       /\ batch' = [i \in 1..(last - mem.cursor) |-> mem.cursor + i]
       /\ flooded' = (flooded \/ last > mem.cursor + MaxProcessed)
  /\ pc' = "batch"
  /\ UNCHANGED <<server, parts, seen, disk, command, status, aged, trouble, replies, again, settled>>

PollFails ==
  /\ pc = "poll" /\ ~ stop
  /\ status' = "retrying"
  /\ UNCHANGED <<aged, loop, disk, command, trouble, history>>

LoopPollsAgain ==  \* mutant: the flag ends the batch and not the loop
  /\ pc = "poll" /\ stop
  /\ pc' = "batch"
  /\ UNCHANGED <<mem, batch, server, parts, seen, disk, command, status, aged, trouble, history>>

(* The flag is seen at the head of the loop: the server is closed.         *)
LoopEnds ==
  /\ pc = "poll" /\ stop
  /\ server' = NoServer
  /\ status' = "stopped" /\ pc' = "ended"
  /\ UNCHANGED <<aged, mem, batch, parts, seen, disk, command, trouble, history>>

(* The task clears the runtime it was started with.                        *)
Clear ==
  /\ pc = "ended"
  /\ runs' = FALSE /\ stop' = FALSE /\ pc' = "off"
  /\ batch' = <<>> /\ parts' = {} /\ seen' = {} /\ mem' = Empty
  /\ UNCHANGED <<server, disk, telling, status, aged, trouble, history>>

(* Messages come in the order they were sent in: the earlier ones are at   *)
(* least as old.                                                           *)
Skipped == Kind[Current] = "noise" \/ Current <= aged \/ IsProcessed(Current)

LeaveOutBatch ==  \* mutant: the first message to leave out ends the batch
  /\ pc = "batch" /\ batch # <<>> /\ ~ stop
  /\ \/ Skipped /\ UNCHANGED <<mem, aged>>
     \/ ~ Skipped /\ UNCHANGED mem /\ aged' = Current
     \/ ~ Skipped /\ Kind[Current] = "wordless" /\ mem' = Mark(mem, Current) /\ UNCHANGED aged
  /\ settled' = settled \cup {Current}
  /\ batch' = <<>>
  /\ UNCHANGED <<pc, server, parts, seen, disk, command, status, trouble, replies, again, flooded>>

LeaveOut ==
  /\ pc = "batch" /\ batch # <<>> /\ ~ stop
  /\ \/ Skipped /\ UNCHANGED <<mem, aged>>
     \/ ~ Skipped /\ UNCHANGED mem /\ aged' = Current
     \/ ~ Skipped /\ Kind[Current] = "wordless" /\ mem' = Mark(mem, Current) /\ UNCHANGED aged
  /\ settled' = settled \cup {Current}
  /\ batch' = Tail(batch)
  /\ UNCHANGED <<pc, server, parts, seen, disk, command, status, trouble, replies, again, flooded>>

Process ==
  /\ pc = "batch" /\ batch # <<>> /\ ~ stop
  /\ ~ Skipped /\ Kind[Current] = "ask"
  /\ pc' = "server"
  /\ UNCHANGED <<mem, batch, server, parts, seen, disk, command, status, aged, trouble, history>>

(* The end of a batch, and of one that was cut off by the flag: the cursor *)
(* is past the messages that are left.                                     *)
SaveBatch ==
  /\ pc = "batch" /\ (batch = <<>> \/ stop)
  /\ \/ /\ disk' = mem /\ pc' = "poll" /\ UNCHANGED <<status, server, trouble, again>>
     \/ /\ Trouble
        /\ server' = NoServer /\ status' = "error" /\ pc' = "ended"
        /\ again' = again \cup Unsaved
        /\ UNCHANGED disk
  /\ settled' = settled \cup ToSet(batch) /\ batch' = <<>>
  /\ UNCHANGED <<aged, mem, parts, seen, command, replies, flooded>>

-----------------------------------------------------------------------------
(* process_weixin_message.                                                 *)

Goto(place) == pc' = place /\ UNCHANGED <<mem, batch, parts, seen>>

EnsureServer ==
  /\ pc = "server"
  /\ \/ server' = (IF server.up THEN server ELSE Started)
        /\ Goto("thread") /\ UNCHANGED trouble
     \/ ~ server.up /\ Trouble /\ Goto("failed") /\ UNCHANGED server
  /\ UNCHANGED <<aged, disk, command, status, history>>

(* A request is answered on the stream of events: what comes before its    *)
(* answer is dropped.                                                      *)
Drained == [server EXCEPT !.out = <<>>]

Resume ==
  /\ pc = "thread" /\ mem.thread[Peer] # Nobody
  /\ \/ /\ Goto("turn") /\ server' = Drained /\ UNCHANGED trouble
     \/ /\ Trouble
        /\ mem' = [mem EXCEPT !.thread[Peer] = Nobody]
        /\ UNCHANGED <<pc, batch, parts, seen, server>>
  /\ UNCHANGED <<aged, disk, command, status, history>>

NewThread ==
  /\ pc = "thread" /\ mem.thread[Peer] = Nobody
  /\ \/ /\ mem' = [mem EXCEPT !.thread[Peer] = Peer]
        /\ pc' = "turn" /\ server' = Drained
        /\ UNCHANGED <<batch, parts, seen, trouble>>
     \/ Trouble /\ Goto("failed") /\ UNCHANGED server
  /\ UNCHANGED <<aged, disk, command, status, history>>

BeginTurn ==
  /\ pc = "turn"
  /\ server' = [server EXCEPT !.turn = Current, !.owes = Current]
  /\ parts' = {} /\ seen' = {} /\ pc' = "reading"
  /\ UNCHANGED <<mem, batch, disk, command, status, aged, trouble, history>>

(* The app-server: the answer to turn/start, the text, the end of a turn.  *)
Says(event) == [server EXCEPT !.out = Append(@, event)]

ServerResponds ==
  /\ server.owes # 0
  /\ server' = [Says([is |-> "response", of |-> server.owes]) EXCEPT !.owes = 0]
  /\ UNCHANGED <<pc, mem, batch, parts, seen, disk, command, status, aged, trouble, history>>

ServerWrites ==
  /\ server.turn # 0
  /\ \E text \in {<<>>, <<[is |-> "text", of |-> server.turn]>>} :
       server' = [server EXCEPT !.turn = 0,
                    !.out = @ \o text \o <<[is |-> "completed", of |-> server.turn],
                                           [is |-> "idle", of |-> server.turn]>>]
  /\ UNCHANGED <<pc, mem, batch, parts, seen, disk, command, status, aged, trouble, history>>

(* One message of the stream; the notifications are not compared with the  *)
(* thread or the turn.                                                     *)
Read ==
  /\ pc = "reading" /\ seen # {"response", "completed"} /\ server.out # <<>>
  /\ LET event == Head(server.out)
     IN  /\ parts' = parts \cup (IF event.is = "text" THEN {event.of} ELSE {})
         /\ seen' = seen \cup (CASE event.is = "response" /\ event.of = Current -> {"response"}
                                 [] event.is \in {"completed", "idle"} -> {"completed"}
                                 [] OTHER -> {})
  /\ server' = [server EXCEPT !.out = Tail(@)]
  /\ UNCHANGED <<pc, mem, batch, disk, command, status, aged, trouble, history>>

(* An error, the end of the stream, or no answer within the time limit.    *)
TurnFails ==
  /\ pc = "reading" /\ seen # {"response", "completed"} /\ Trouble
  /\ Goto("failed")
  /\ UNCHANGED <<aged, server, disk, command, status, history>>

(* The flag is looked at every 200 ms while the turn runs.                 *)
TurnStopped ==
  /\ pc = "reading" /\ stop /\ seen # {"response", "completed"}
  /\ Goto("failed")
  /\ UNCHANGED <<server, disk, command, status, aged, trouble, history>>

Reply == [to |-> Current, peer |-> Peer, thread |-> mem.thread[Peer], says |-> parts,
          nth |-> Cardinality({r \in replies : r.to = Current})]

Send ==
  /\ pc = "reading" /\ seen = {"response", "completed"}
  /\ \/ replies' = replies \cup {Reply} /\ Goto("sent") /\ UNCHANGED trouble
     \/ Trouble /\ Goto("failed") /\ UNCHANGED replies
  /\ UNCHANGED <<aged, server, disk, command, status, again, settled, flooded>>

-----------------------------------------------------------------------------
(* After process_weixin_message.                                           *)

(* With the flag raised the result is dropped, and the batch with it.      *)
Break ==
  /\ pc \in {"sent", "failed"} /\ stop
  /\ server' = NoServer /\ pc' = "batch"
  /\ again' = again \cup ({Current} \cap Answered)
  /\ UNCHANGED <<aged, mem, batch, parts, seen, disk, command, status, trouble, replies, settled, flooded>>

SucceededUnmarked ==  \* mutant: an answered message is not marked
  /\ pc = "sent" /\ ~ stop
  /\ settled' = settled \cup {Current}
  /\ status' = "running" /\ pc' = "save"
  /\ UNCHANGED <<aged, mem, batch, server, parts, seen, disk, command, trouble, replies, again, flooded>>

Succeeded ==
  /\ pc = "sent" /\ ~ stop
  /\ mem' = Mark(mem, Current) /\ settled' = settled \cup {Current}
  /\ status' = "running" /\ pc' = "save"
  /\ UNCHANGED <<aged, batch, server, parts, seen, disk, command, trouble, replies, again, flooded>>

FailedKeepsServer ==  \* mutant: the app-server is used again after a failure
  /\ pc = "failed" /\ ~ stop
  /\ mem' = Mark(mem, Current) /\ settled' = settled \cup {Current}
  /\ status' = "error" /\ pc' = "save"
  /\ UNCHANGED <<aged, batch, server, parts, seen, disk, command, trouble, replies, again, flooded>>

(* The server is killed, and the peer is told, whether that arrives or not. *)
Failed ==
  /\ pc = "failed" /\ ~ stop
  /\ server' = NoServer
  /\ mem' = Mark(mem, Current) /\ settled' = settled \cup {Current}
  /\ status' = "error" /\ pc' = "save"
  /\ UNCHANGED <<aged, batch, parts, seen, disk, command, trouble, replies, again, flooded>>

Save ==
  /\ pc = "save"
  /\ \/ /\ disk' = mem /\ pc' = "batch" /\ batch' = Tail(batch)
        /\ UNCHANGED <<server, status, trouble, again, settled>>
     \/ /\ Trouble
        /\ server' = NoServer /\ status' = "error" /\ pc' = "ended"
        /\ again' = again \cup Unsaved /\ settled' = settled \cup ToSet(Tail(batch))
        /\ UNCHANGED <<disk, batch>>
  /\ UNCHANGED <<aged, mem, parts, seen, command, replies, flooded>>

(* The manager dies.                                                       *)
Crash ==
  /\ pc # "off" /\ Trouble
  /\ pc' = "off" /\ mem' = Empty /\ batch' = <<>> /\ server' = NoServer
  /\ parts' = {} /\ seen' = {}
  /\ runs' = FALSE /\ stop' = FALSE /\ telling' = "nothing" /\ status' = "stopped"
  /\ again' = again \cup Unsaved /\ settled' = settled \cup ToSet(batch)
  /\ UNCHANGED <<aged, disk, replies, flooded>>

LoopStep ==
  \/ Load \/ CannotStart \/ Poll \/ PollFails \/ LoopEnds \/ Clear \/ LeaveOut \/ Process \/ SaveBatch
  \/ EnsureServer \/ Resume \/ NewThread \/ BeginTurn \/ Read \/ TurnFails \/ TurnStopped
  \/ Send \/ Break \/ Succeeded \/ Failed \/ Save

Next ==
  \/ Start \/ Stop \/ StopTells
  \/ LoopStep
  \/ ServerResponds \/ ServerWrites
  \/ Crash

Spec == Init /\ [][Next]_vars

(* tokio runs the task of the loop; every wait of it has a time limit.     *)
FairSpec == Spec /\ WF_vars(LoopStep)
-----------------------------------------------------------------------------

States == [cursor : 0..Len(Kind), thread : [Users -> Users \cup {Nobody}],
           processed : Seq(Messages)]
Events == [is : {"response", "text", "completed", "idle"}, of : Messages]
Servers == [up : BOOLEAN, turn : Messages \cup {0}, owes : Messages \cup {0}, out : Seq(Events)]

TypeOK ==
  /\ pc \in {"off", "load", "poll", "batch", "server", "thread", "turn", "reading",
             "sent", "failed", "save", "ended"}
  /\ mem \in States /\ disk \in States
  /\ batch \in Seq(Messages)
  /\ server \in Servers
  /\ parts \subseteq Messages /\ seen \subseteq {"response", "completed"}
  /\ runs \in BOOLEAN /\ stop \in BOOLEAN /\ telling \in {"nothing", "stopping", "stopped"}
  /\ status \in {"stopped", "starting", "running", "retrying", "error", "stopping"}
  /\ aged \in 0..Len(Kind) /\ trouble \in 0..MaxTrouble
  /\ Answered \subseteq Messages /\ again \subseteq Messages /\ settled \subseteq Messages
  /\ flooded \in BOOLEAN

(* A message is answered a second time only if the first answer was never  *)
(* saved, the saved state could not be read, or the gateway sent more      *)
(* messages at once than keys are kept: gateways that send a message again *)
(* and keys that were dropped from the list do not do it alone.            *)
AnsweredOnce == \A r \in replies : r.nth > 0 => r.to \in again \/ flooded

(* The cursor never passes a message that was not answered, refused or     *)
(* left out for a reason, but for those of a batch that a stop, a failed   *)
(* save or the end of the manager cut off: they are never answered.        *)
NothingSkipped ==
  \A m \in Messages :
    m <= disk.cursor \/ m <= mem.cursor => m \in settled \cup ToSet(batch)

(* A reply consists of what was said in answer to that very message, in    *)
(* the conversation of the peer who gets it, although the events of the    *)
(* stream are not compared with the turn.                                  *)
RepliesPrivate ==
  \A r \in replies : r.says \subseteq {r.to} /\ r.thread = r.peer /\ r.peer = From[r.to]

(* The status never claims that a loop runs which does not, nor that one   *)
(* is stopped which does, whatever commands are under way.  Only "stopping" *)
(* may stay behind, when the loop ended before the command could say so.   *)
StatusHonest ==
  /\ runs <=> pc # "off"
  /\ telling = "stopped" => ~ runs
  /\ pc \in {"off", "ended"} => status \in {"stopped", "error", "stopping"}
  /\ status = "stopped" => pc \in {"off", "ended"}

(* Left out whenever it comes.                                             *)
Dismissed(m) == Kind[m] = "noise" \/ m <= aged

(* What a state has of the messages: it keeps the latest keys in their     *)
(* order, none further from the cursor than there are keys, and between    *)
(* the cursor and a key nothing is missing that would be answered if it    *)
(* came again.                                                             *)
KeysKept(state) ==
  LET keys == state.processed
  IN  /\ Len(keys) <= MaxProcessed
      /\ \A i, j \in DOMAIN keys : i <= j => keys[j] >= keys[i] + (j - i)
      /\ \A k \in ToSet(keys) : k <= state.cursor + MaxProcessed
      /\ \A k \in ToSet(keys), m \in Messages :
           state.cursor < m /\ m < k => m \in ToSet(keys) \/ Dismissed(m)

(* The batch is a run of messages, the first of them the next one that is  *)
(* missing; what is behind a key is known.                                 *)
BatchFits ==
  /\ \A i, j \in DOMAIN batch : i <= j => batch[j] = batch[i] + (j - i)
  /\ \A n \in ToSet(batch) : n <= mem.cursor + MaxProcessed
  /\ \A n \in ToSet(batch), m \in Messages :
       mem.cursor < m /\ m < n => IsProcessed(m) \/ m \in ToSet(batch) \/ Dismissed(m)
  /\ \A n \in ToSet(batch), k \in ToSet(mem.processed) : n < k => IsProcessed(n) \/ Dismissed(n)

(* The loop works on a message that is neither left out nor answered       *)
(* before; after a batch every message of it is settled.                   *)
BatchPlaces ==
  /\ pc \in {"off", "load", "poll"} => batch = <<>>
  /\ pc = "ended" => ToSet(batch) \subseteq settled
  /\ pc \in {"server", "thread", "turn", "reading", "sent", "failed"} => batch # <<>> /\ ~ Skipped
  /\ pc = "save" => batch # <<>> /\ Current \in settled /\ IsProcessed(Current)

(* An answered message that can come again is known to the loop by its     *)
(* key, and, while the loop has nothing to save, to the saved state.       *)
AnswersKnown ==
  /\ pc \notin {"off", "load", "ended"} =>
       \A m \in Answered \ again :
         m > mem.cursor \/ m \in ToSet(batch) => IsProcessed(m) \/ (pc = "sent" /\ m = Current)
  /\ pc \in {"off", "load", "poll", "ended"} =>
       \A m \in Answered \ again : m > disk.cursor => m \in ToSet(disk.processed)

(* The app-server is idle and has said nothing when a turn begins, and     *)
(* what it says during the turn belongs to that turn; a conversation is    *)
(* used only for the peer it was begun for.                                *)
TurnInv ==
  /\ pc \notin {"reading", "failed"} => server.turn = 0 /\ server.owes = 0
  /\ pc = "turn" => server.out = <<>>
  /\ pc \in {"turn", "reading"} => mem.thread[Peer] = Peer
  /\ pc = "reading" =>
       /\ parts \subseteq {Current}
       /\ {server.turn, server.owes} \subseteq {0, Current}
       /\ \A i \in DOMAIN server.out :
            /\ server.out[i].of = Current
            /\ server.out[i].is \in {"completed", "idle"} => server.turn = 0
            /\ server.out[i].is = "response" => server.owes = 0
       /\ "completed" \in seen => server.turn = 0
       /\ "response" \in seen => server.owes = 0
  /\ \A u \in Users : mem.thread[u] \in {u, Nobody} /\ disk.thread[u] \in {u, Nobody}

(* How the cursor, the keys, the batch and the answers belong together.    *)
KeysFit == KeysKept(mem) /\ KeysKept(disk) /\ BatchFits /\ AnswersKnown

(* The state of the loop, what the status and the batch say of it, and,    *)
(* as long as the gateway never sent more messages at once than keys are   *)
(* kept, that no answered message is forgotten.                            *)
LoopInv ==
  /\ TypeOK /\ StatusHonest /\ TurnInv /\ BatchPlaces
  /\ flooded \/ KeysFit

(* A stop ends the loop, whatever the gateway and the app-server do.       *)
StopEnds == (stop /\ runs) ~> ~ runs
=============================================================================
