---------------------------- MODULE ChatHistory ----------------------------
(***************************************************************************)
(* The conversion of a Codex history (the "input" items of a Responses     *)
(* request) into the messages of a Chat Completions request,               *)
(* protocol_proxy.rs: responses_to_chat_completions.                       *)
(*                                                                         *)
(* Each action reads the next item (append_responses_item); calls and      *)
(* reasoning are held back until a message can carry them.  Convert is the *)
(* rest of the function: the last flushes and the passes over the whole    *)
(* list, in the code's order.                                              *)
(*                                                                         *)
(* Texts are abstracted to where they come from: the contents of a message *)
(* are the positions in the history of the items it carries.  The          *)
(* instructions of the request are the first item.                         *)
(***************************************************************************)
EXTENDS Integers, Sequences, SequencesExt, FiniteSets

CONSTANTS Ids,        \* ids of tool calls
          MaxItems,   \* bound: length of the history
          MaxOdd      \* bound: messages that are blank or hold an image

ASSUME ChatHistoryAssumption == MaxItems \in Nat /\ MaxOdd \in Nat

Speakers == {"user", "assistant", "system"}

\* Items: a call, an output, a message, a reasoning, or an item without
\* content ("other").  The form says what the upstream gets for its content: a
\* text, a blank text, or an array, because there is an image in it.
Item(kind, id, form) == [kind |-> kind, id |-> id, form |-> form]
NoId == "none"
Forms == {"text", "blank", "image"}

VARIABLES
  history,     \* the items read so far
  messages,    \* the chat messages made so far
  calls,       \* pending_tool_calls: positions of call items
  reasoning,   \* pending_reasoning: positions of reasoning items
  seen,        \* seen_tool_call_ids
  result       \* the converted messages; <<>> until Convert

vars == <<history, messages, calls, reasoning, seen, result>>

\* Stands for the fixed text of ensure_tool_call_reasoning_content.
Placeholder == 0

Message(role, says, called, thought) ==
  [role |-> role, says |-> says, calls |-> called, thought |-> thought,
   images |-> <<>>]

Init == /\ history = <<>> /\ messages = <<>>
        /\ calls = <<>> /\ reasoning = <<>>
        /\ seen = {} /\ result = <<>>

----------------------------------------------------------------------------
(* What is held back: a state of the conversion is [ms, cs, rs].           *)

Held == [ms |-> messages, cs |-> calls, rs |-> reasoning]

LastIsAssistant(ms) == ms # <<>> /\ Last(ms).role = "assistant"

ReplaceLast(ms, m) == Append(Front(ms), m)

\* flush_tool_calls: into the last message when it is the assistant's, and
\* the reasoning stays pending then; else into a message of their own.
FlushCalls(h) ==
  IF h.cs = <<>> THEN h
  ELSE IF LastIsAssistant(h.ms)
  THEN [h EXCEPT !.ms = ReplaceLast(h.ms, [Last(h.ms) EXCEPT !.calls = @ \o h.cs]),
                 !.cs = <<>>]
  ELSE [ms |-> Append(h.ms, Message("assistant", <<>>, h.cs, h.rs)),
        cs |-> <<>>, rs |-> <<>>]

\* flush_reasoning
FlushReasoning(h) ==
  IF h.rs = <<>> THEN h
  ELSE IF LastIsAssistant(h.ms)
  THEN [h EXCEPT !.ms = ReplaceLast(h.ms, [Last(h.ms) EXCEPT !.thought = @ \o h.rs]),
                 !.rs = <<>>]
  ELSE [h EXCEPT !.ms = Append(h.ms, Message("assistant", <<>>, <<>>, h.rs)),
                 !.rs = <<>>]

Add(h, m) == [h EXCEPT !.ms = Append(@, m)]

----------------------------------------------------------------------------
(* The items.                                                              *)

Here == Len(history) + 1

IsOdd(item) == item.kind \in Speakers /\ item.form # "text"

Read(item) == /\ result = <<>>
              /\ Len(history) < MaxItems
              /\ IsOdd(item) => Len(SelectSeq(history, IsOdd)) < MaxOdd
              /\ history' = Append(history, item)
              /\ result' = result

Becomes(h) == messages' = h.ms /\ calls' = h.cs /\ reasoning' = h.rs

Positions(kind, id) == {i \in DOMAIN history : history[i].kind = kind /\ history[i].id = id}

\* A call id is given to one call (Codex: ids are unique in a history).
ReadCall(id) ==
  /\ Read(Item("call", id, "text"))
  /\ Positions("call", id) = {}
  /\ Becomes([Held EXCEPT !.cs = Append(@, Here)])
  /\ seen' = seen \cup {id}

OutputMessage(form) ==
  [Message("tool", <<Here>>, <<>>, <<>>)
     EXCEPT !.images = IF form = "image" THEN <<Here>> ELSE <<>>]

\* orphan_tool_output_message: a user's message, its images inline.
OrphanMessage(form) == [OutputMessage(form) EXCEPT !.role = "user"]

ReadOutput(id, form) ==
  /\ Read(Item("output", id, form))
  /\ Positions("output", id) = {}
  /\ IF id \in seen
     THEN Becomes(Add(FlushCalls(Held), OutputMessage(form)))
     ELSE Becomes(Add(FlushReasoning(FlushCalls(Held)), OrphanMessage(form)))
  /\ UNCHANGED seen

ReadReasoning ==
  /\ Read(Item("reasoning", NoId, "text"))
  /\ Becomes([Held EXCEPT !.rs = Append(@, Here)])
  /\ UNCHANGED seen

\* Plausible bug: the pending reasoning is copied, not taken.
SaidByAssistantCopies(h) == Add(h, Message("assistant", <<Here>>, <<>>, h.rs))

\* The assistant's own message takes the pending reasoning with it.
SaidByAssistant(h) ==
  [Add(h, Message("assistant", <<Here>>, <<>>, h.rs)) EXCEPT !.rs = <<>>]

\* instructions: a system message before any item of the input.
ReadInstructions(form) ==
  /\ history = <<>>
  /\ Read(Item("system", NoId, form))
  /\ Becomes(Add(Held, Message("system", <<Here>>, <<>>, <<>>)))
  /\ UNCHANGED seen

ReadMessage(role, form) ==
  /\ Read(Item(role, NoId, form))
  /\ LET h == FlushCalls(Held)
     IN Becomes(IF role = "assistant" THEN SaidByAssistant(h)
                ELSE Add(FlushReasoning(h), Message(role, <<Here>>, <<>>, <<>>)))
  /\ UNCHANGED seen

\* An item without content (a web search, additional tools).
ReadOther ==
  /\ Read(Item("other", NoId, "text"))
  /\ Becomes(FlushCalls(Held))
  /\ UNCHANGED seen

----------------------------------------------------------------------------
(* The passes over the whole list.                                         *)

\* The tool messages that directly follow message i.
Followers(ms, i) ==
  {j \in (i + 1)..Len(ms) : \A k \in (i + 1)..j : ms[k].role = "tool"}

IdAt(i) == history[i].id

Answered(ms, i) == {IdAt(Head(ms[j].says)) : j \in Followers(ms, i)}


AtTail(ms, i) == i + Cardinality(Followers(ms, i)) >= Len(ms)

\* enforce_tool_call_pairing of one message: calls the history went on
\* without answering become notes in the text.
Paired(ms, i) ==
  LET kept(c) == IdAt(c) \in Answered(ms, i)
      lost(c) == ~kept(c)
  IN IF ms[i].role # "assistant" \/ AtTail(ms, i) THEN ms[i]
     ELSE [ms[i] EXCEPT !.calls = SelectSeq(@, kept),
                        !.says = @ \o SelectSeq(ms[i].calls, lost)]

EnforcePairing(ms) == [i \in DOMAIN ms |-> Paired(ms, i)]

\* relocate_tool_output_images: behind the last message of a run of tool
\* messages, a user's message with the images of the whole run.
ImagesBefore(ms, i) ==
  LET run == {j \in 1..i : \A k \in j..i : ms[k].role = "tool"}
  IN FlattenSeq([k \in 1..Cardinality(run) |-> ms[i - Cardinality(run) + k].images])

EndsRun(ms, i) ==
  ms[i].role = "tool" /\ (i = Len(ms) \/ ms[i + 1].role # "tool")

\* Plausible bug: the images of each tool message directly behind it.
RelocatedEach(ms, i) ==
  IF ms[i].role = "tool" /\ ms[i].images # <<>>
  THEN <<[ms[i] EXCEPT !.images = <<>>],
         [Message("user", <<>>, <<>>, <<>>) EXCEPT !.images = ms[i].images]>>
  ELSE <<ms[i]>>

Relocated(ms, i) ==
  LET text == IF ms[i].role = "tool" THEN [ms[i] EXCEPT !.images = <<>>] ELSE ms[i]
  IN IF EndsRun(ms, i) /\ ImagesBefore(ms, i) # <<>>
     THEN <<text, [Message("user", <<>>, <<>>, <<>>)
                     EXCEPT !.images = ImagesBefore(ms, i)]>>
     ELSE <<text>>

RelocateImages(ms) == FlattenSeq([i \in DOMAIN ms |-> Relocated(ms, i)])

\* The note of an abandoned call is a text too.
HasText(m) == \E k \in DOMAIN m.says : history[m.says[k]].form # "blank"

\* ensure_tool_call_reasoning_content
Explained(m) ==
  IF m.calls # <<>> /\ ~HasText(m) /\ m.thought = <<>>
  THEN [m EXCEPT !.thought = <<Placeholder>>] ELSE m

EnsureReasoning(ms) == [i \in DOMAIN ms |-> Explained(ms[i])]

\* collapse_system_messages_to_head: one system message with all the texts
\* that are not blank; a system message with an image stays where it is.
CollapseSystem(ms) ==
  LET isMoved(m) == m.role = "system" /\ history[Head(m.says)].form # "image"
      isRest(m) == ~isMoved(m)
      isSaid(m) == isMoved(m) /\ HasText(m)
      said == SelectSeq(ms, isSaid)
      head == Message("system", FlattenSeq([i \in DOMAIN said |-> said[i].says]),
                      <<>>, <<>>)
  IN (IF said = <<>> THEN <<>> ELSE <<head>>) \o SelectSeq(ms, isRest)

Flushed == FlushReasoning(FlushCalls(Held)).ms

Passes(ms) == CollapseSystem(EnsureReasoning(RelocateImages(EnforcePairing(ms))))

Convert ==
  /\ result = <<>> /\ history # <<>>
  /\ Passes(Flushed) # <<>>
  /\ result' = Passes(Flushed)
  /\ UNCHANGED <<history, messages, calls, reasoning, seen>>

Next ==
  \/ \E id \in Ids : ReadCall(id)
  \/ \E id \in Ids, form \in {"text", "image"} : ReadOutput(id, form)
  \/ \E form \in {"text", "blank"} : ReadInstructions(form)
  \/ ReadMessage("user", "text")
  \/ \E form \in {"text", "blank"} : ReadMessage("assistant", form)
  \/ \E form \in Forms : ReadMessage("system", form)
  \/ ReadReasoning
  \/ ReadOther
  \/ Convert

Spec == Init /\ [][Next]_vars

----------------------------------------------------------------------------
(* Properties.                                                             *)

Positive == 1..MaxItems

MessageType ==
  [role : Speakers \cup {"tool"}, says : Seq(Positive), calls : Seq(Positive),
   thought : Seq(Positive \cup {Placeholder}), images : Seq(Positive)]

\* Only calls are held as calls and only reasoning as reasoning, and a
\* message made by the reading carries something: append_responses_item never
\* pushes an empty assistant message.
TypeOK ==
  /\ history \in Seq([kind : Speakers \cup {"call", "output", "reasoning", "other"},
                      id : Ids \cup {NoId}, form : Forms])
  /\ messages \in Seq(MessageType) /\ result \in Seq(MessageType)
  /\ seen \subseteq Ids
  /\ \A i \in DOMAIN calls : history[calls[i]].kind = "call"
  /\ \A i \in DOMAIN reasoning : history[reasoning[i]].kind = "reasoning"
  /\ \A i \in DOMAIN messages :
       messages[i].says \o messages[i].calls \o messages[i].thought # <<>>

IsImages(m) == m.role = "user" /\ m.says = <<>> /\ m.images # <<>>

\* Every call of message i is answered by a tool message directly behind it.
AllAnswered(i) ==
  \A c \in DOMAIN result[i].calls : IdAt(result[i].calls[c]) \in Answered(result, i)

\* What the conversation goes on with after message i and its answers.
After(i) == ((i + 1)..Len(result)) \ Followers(result, i)


\* Between a call and its output there are only calls, then only outputs
\* (besides reasoning and items without content): how Codex records a turn
\* with parallel calls.
Tidy ==
  \A i, j \in DOMAIN history :
    history[i].kind = "call" /\ history[j].kind = "output"
      /\ history[j].id = history[i].id /\ i < j =>
    /\ \A k \in i..j : history[k].kind \notin Speakers
    /\ \A k, l \in i..j : history[k].kind = "output" /\ history[l].kind = "call" => l < k
    /\ \A k \in i..j : history[k].kind = "output" =>
         \E l \in 1..k : history[l].kind = "call" /\ history[l].id = history[k].id

\* In a tidy history no output is left without its call: each tool message
\* stands in the run of tool messages behind the assistant message that still
\* carries the call (an upstream refuses a tool message anywhere else).
OutputsBelongToCalls ==
  Tidy => \A j \in DOMAIN result :
            result[j].role = "tool" =>
              \E i \in 1..j : /\ j \in Followers(result, i)
                              /\ \E c \in DOMAIN result[i].calls :
                                   IdAt(result[i].calls[c]) = IdAt(Head(result[j].says))

\* Where an item's text is in the result, in a text, a call or a reasoning.
Carriers(i) ==
  {<<j, part>> \in (DOMAIN result) \X {"says", "calls", "thought"} :
     \E k \in DOMAIN result[j][part] : result[j][part][k] = i}

IsBlankSystem(i) == history[i].kind = "system" /\ history[i].form = "blank"

\* No item is lost and none is sent twice: a text, a reasoning, a call (as a
\* call or as the note of an abandoned call) and an output are each in one
\* place of the request, and so is the image of an output.  Only a blank system
\* text is left out.
NothingLost ==
  result # <<>> =>
    \A i \in DOMAIN history :
      /\ history[i].kind # "other" /\ ~IsBlankSystem(i) => Cardinality(Carriers(i)) = 1
      /\ history[i].kind = "output" /\ history[i].form = "image" =>
           Cardinality({j \in DOMAIN result : i \in ToSet(result[j].images)}) = 1

PlaceOf(i) == (CHOOSE p \in Carriers(i) : TRUE)[1]

Ordered == {i \in DOMAIN history : history[i].kind \in {"user", "assistant", "call", "output"}}

\* What was said, called and answered keeps its order, and the images of an
\* output come behind it and before everything that was said later: a
\* conversation is never told in another order, whatever was moved, merged or
\* inserted.
OrderKept ==
  result # <<>> =>
    /\ \A i, j \in Ordered : i < j => PlaceOf(i) <= PlaceOf(j)
    /\ \A m \in DOMAIN result : \A i \in ToSet(result[m].images) :
         /\ PlaceOf(i) <= m
         /\ \A j \in Ordered : i < j /\ history[j].kind # "output" => m < PlaceOf(j)

\* The whole conversation, once and in order, in messages of the right form.
ToldWhole == TypeOK /\ NothingLost /\ OrderKept
=============================================================================
