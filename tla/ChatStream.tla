------------------------------ MODULE ChatStream ------------------------------
(***************************************************************************)
(* The conversion of a Chat Completions event stream into a Responses      *)
(* event stream (ChatSseToResponsesConverter of protocol_proxy.rs and the  *)
(* loop that feeds it in launcher.rs): blocks of the upstream come in, the *)
(* events made from one block are written before the next block is read.   *)
(* Text is a sequence of tokens, one of them white space; the opening tag  *)
(* of an inline think block is two tokens, so that it can arrive in pieces.*)
(* Usage, models, item contents other than their text, and the splitting   *)
(* of bytes into blocks are left out; a last block without its blank line  *)
(* is lost by the code and is therefore no block here.                     *)
(***************************************************************************)
EXTENDS Naturals, Sequences, FiniteSets, SequencesExt

CONSTANTS Calls,      \* indices of the tool calls the upstream streams
          Patches,    \* those that call the custom tool of the request
          LateBlocks, \* the upstream may send blocks after [DONE] or an error
          MaxBlocks   \* bound: blocks of one upstream stream

ASSUME ChatStreamAssumption ==
    /\ Calls \subseteq Nat /\ IsFiniteSet(Calls) /\ Patches \subseteq Calls
    /\ LateBlocks \in BOOLEAN /\ MaxBlocks \in Nat

VARIABLES st,         \* the converter: ChatSseState and the failed flag
          out,        \* events made and not yet written
          upstream,   \* "open", "done" ([DONE] or an error was sent), "closed"
          fed,        \* history: content up to the first tool_calls, after it
          blocks,     \* blocks received
          started, items, ended,  \* what Codex has read: see ResponseStream
          output      \* the output of the final response it read

streamVars == <<st, out, upstream, fed, blocks, started, items, ended, output>>
reader == <<started, items, ended, output>>

Open == <<"<th", "ink>">>
Close == "</think>"
Space == " "
Fragments == {<<"<th">>, <<"ink>", "x">>, <<Close, Space>>, <<Space, "y">>, <<Space>>, <<"x">>}
Nothing == <<>>

NoItem == [added |-> FALSE, done |-> FALSE, index |-> 0, id |-> <<>>, text |-> <<>>]
NoCall == [added |-> FALSE, done |-> FALSE, index |-> 0, id |-> <<>>, text |-> <<>>,
           call |-> "", name |-> ""]

Start(custom) ==
    [custom |-> custom, started |-> FALSE, completed |-> FALSE, failed |-> FALSE,
     next |-> 1, message |-> NoItem, reasoning |-> NoItem, mode |-> "Detecting",
     buffer |-> <<>>, tools |-> [c \in Calls |-> NoCall], seen |-> {}, closed |-> <<>>,
     events |-> <<>>]

StreamInit ==
    /\ \E custom \in BOOLEAN : st = Start(custom)
    /\ out = <<>>
    /\ upstream = "open"
    /\ fed = <<Nothing>>
    /\ blocks = 0
    /\ started = FALSE /\ items = <<>> /\ ended = "-" /\ output = <<>>

-----------------------------------------------------------------------------
(* The converter, as functions from its state to its state; the events of  *)
(* one block are collected in "events".                                    *)

Emit(s, e) == [s EXCEPT !.events = Append(@, e)]

EnsureStarted(s) ==
    IF s.started THEN s ELSE Emit([s EXCEPT !.started = TRUE], [ev |-> "created"])

AddedEvent(kind, item) ==
    [ev |-> "added", index |-> item.index, kind |-> kind, id |-> item.id]
DeltaEvent(item, text) == [ev |-> "delta", index |-> item.index, text |-> text]
DoneEvent(item) == [ev |-> "done", index |-> item.index, id |-> item.id]

Opened(s, kind, id) ==
    LET item == [NoItem EXCEPT !.added = TRUE, !.index = s.next, !.id = id]
    IN  Emit([s EXCEPT !.next = @ + 1, ![kind] = item], AddedEvent(kind, item))

(* push_reasoning_delta_into, push_text_delta_into: the item is opened with *)
(* its first delta.                                                        *)
PushDelta(s, kind, text) ==
    LET t == IF s[kind].added THEN s ELSE Opened(s, kind, <<kind, "">>)
    IN  Emit([t EXCEPT ![kind].text = @ \o text], DeltaEvent(t[kind], text))

(* finalize_reasoning_into, finalize_text_into                             *)
Finalize(s, kind) ==
    LET item == s[kind]
    IN  IF ~item.added \/ item.done THEN s
        ELSE Emit([s EXCEPT ![kind].done = TRUE,
                            !.closed = Append(@, [index |-> item.index, text |-> item.text])],
                  DoneEvent(item))

-----------------------------------------------------------------------------
(* Inline think blocks.                                                    *)

(* Text without the white space before it, and around it.                  *)
Ink(b) == {i \in DOMAIN b : b[i] # Space}
Stripped(b) == IF Ink(b) = {} THEN <<>> ELSE SubSeq(b, Min(Ink(b)), Len(b))
Trimmed(b) == IF Ink(b) = {} THEN <<>> ELSE SubSeq(b, Min(Ink(b)), Max(Ink(b)))

(* leading_think_prefix_decision                                           *)
Opens(b) == Len(Stripped(b)) >= 2 /\ SubSeq(Stripped(b), 1, 2) = Open
MayOpen(b) == Stripped(b) \in {<<>>, <<"<th">>}

(* split_leading_think_block, strip_leading_think_open_tag: the thought is *)
(* trimmed, the answer loses the white space before it that is there.      *)
Closes(b) == \E i \in DOMAIN b : b[i] = Close
ClosedAt(b) == CHOOSE i \in DOMAIN b : b[i] = Close /\ \A j \in 1..(i - 1) : b[j] # Close

Inside(b) == SubSeq(b, 3, IF Closes(b) THEN ClosedAt(b) - 1 ELSE Len(b))
Behind(b) == IF Closes(b) THEN SubSeq(b, ClosedAt(b) + 1, Len(b)) ELSE <<>>

ThoughtOf(b) == Trimmed(Inside(Stripped(b)))
AnswerOf(b) == Stripped(Behind(Stripped(b)))

PushThought(s, text) ==
    IF text = <<>> THEN s ELSE Finalize(PushDelta(s, "reasoning", text), "reasoning")
PushAnswer(s, text) == IF text = <<>> THEN s ELSE PushDelta(s, "message", text)

Drained(s) == [s EXCEPT !.mode = "Text", !.buffer = <<>>]

DrainThink(s) ==
    IF ~Closes(s.buffer) THEN s
    ELSE PushAnswer(PushThought(Drained(s), ThoughtOf(s.buffer)), AnswerOf(s.buffer))

PushContent(s, text) ==
    LET b == [s EXCEPT !.buffer = @ \o text]
    IN  CASE s.mode = "Text" -> PushDelta(Finalize(s, "reasoning"), "message", text)
          [] s.mode = "Reasoning" -> DrainThink(b)
          [] s.mode = "Detecting" /\ Opens(b.buffer) ->
                DrainThink([b EXCEPT !.mode = "Reasoning"])
          [] s.mode = "Detecting" /\ MayOpen(b.buffer) -> b
          [] OTHER -> PushDelta(Finalize(Drained(b), "reasoning"), "message", b.buffer)

FlushThinkOnly(s) ==  \* mutant: a started tag that never came is not given back
    LET t == Drained(s)
    IN  CASE s.mode = "Text" -> s
          [] s.mode = "Reasoning" ->
                PushAnswer(PushThought(t, ThoughtOf(s.buffer)), AnswerOf(s.buffer))
          [] OTHER -> t

(* flush_inline_think_at_boundary_into                                     *)
FlushThink(s) ==
    LET t == Drained(s)
    IN  CASE s.mode = "Text" -> s
          [] s.mode = "Reasoning" ->
                PushAnswer(PushThought(t, ThoughtOf(s.buffer)), AnswerOf(s.buffer))
          [] OTHER -> IF s.buffer = <<>> THEN t
                      ELSE PushDelta(Finalize(t, "reasoning"), "message", s.buffer)

-----------------------------------------------------------------------------
(* Tool calls.  A delta may bring the id, the name and one argument token. *)

CustomName == "apply_patch"
IsCustom(s, name) == s.custom /\ name = CustomName
CallKind(s, call) == IF IsCustom(s, call.name) THEN "custom_tool_call" ELSE "function_call"

(* tool_call_item_id: the kind is part of the id.                          *)
ItemId(s, call) == <<CallKind(s, call), call.call>>

AnnouncesAtOnce(s, call) ==  \* mutant: a custom tool's name is not waited for
    call.call # "" \/ call.name # ""

(* A call is announced once it has an id or a name; with custom tools in   *)
(* the request only once it has a name.                                    *)
Announces(s, call) ==
    /\ call.call # "" \/ call.name # ""
    /\ ~s.custom \/ call.name # ""

Announce(s, c) ==
    LET named == [s.tools[c] EXCEPT !.call = IF @ = "" THEN "generated" ELSE @,
                                    !.name = IF @ = "" THEN "unknown_tool" ELSE @,
                                    !.added = TRUE, !.index = s.next]
        call == [named EXCEPT !.id = ItemId(s, named)]
    IN  Emit([s EXCEPT !.next = @ + 1, !.tools[c] = call], AddedEvent(CallKind(s, call), call))

ArgumentsDelta(s, c, text) ==
    IF text = <<>> \/ IsCustom(s, s.tools[c].name) THEN s
    ELSE Emit(s, DeltaEvent(s.tools[c], text))

PushToolCallForgets(s, d) ==  \* mutant: arguments that came before the name are not sent
    LET old == s.tools[d.index]
        call == [old EXCEPT !.call = IF d.id /\ ~old.added THEN "given" ELSE @,
                            !.name = IF d.name # "" THEN d.name ELSE @,
                            !.text = @ \o d.arguments]
        t == [s EXCEPT !.tools[d.index] = call, !.seen = @ \cup {d.index}]
    IN  IF old.added THEN ArgumentsDelta(t, d.index, d.arguments)
        ELSE IF Announces(s, call) THEN ArgumentsDelta(Announce(t, d.index), d.index, d.arguments)
        ELSE t

PushToolCall(s, d) ==
    LET old == s.tools[d.index]
        call == [old EXCEPT !.call = IF d.id /\ ~old.added THEN "given" ELSE @,
                            !.name = IF d.name # "" THEN d.name ELSE @,
                            !.text = @ \o d.arguments]
        t == [s EXCEPT !.tools[d.index] = call, !.seen = @ \cup {d.index}]
    IN  IF old.added THEN ArgumentsDelta(t, d.index, d.arguments)
        ELSE IF Announces(s, call) THEN ArgumentsDelta(Announce(t, d.index), d.index, call.text)
        ELSE t

PushToolCalls(s, calls) ==
    LET upTo[n \in 0..Len(calls)] == IF n = 0 THEN s ELSE PushToolCall(upTo[n - 1], calls[n])
    IN  upTo[Len(calls)]

FinalizeTool(s, c) ==
    IF c \notin s.seen \/ s.tools[c].done THEN s
    ELSE LET t == IF s.tools[c].added THEN s ELSE Announce(s, c)
             call == t.tools[c]
             sent == IF IsCustom(t, call.name) THEN Emit(t, DeltaEvent(call, call.text)) ELSE t
         IN  Emit([sent EXCEPT !.tools[c].done = TRUE,
                               !.closed = Append(@, [index |-> call.index, text |-> call.text])],
                  [ev |-> "done", index |-> call.index, id |-> ItemId(t, call)])

(* finalize_tools_into: in the order of the indices; of those between them *)
(* the upstream has sent nothing.                                          *)
FinalizeTools(s) ==
    LET count == Max(Calls \cup {0}) + 1
        upTo[n \in 0..count] == IF n = 0 THEN s ELSE FinalizeTool(upTo[n - 1], n - 1)
    IN  upTo[count]

-----------------------------------------------------------------------------
(* Ends of the stream.                                                     *)

(* completed_output_items: sorted by the index, which no two items share.  *)
InIndexOrder(closed) ==
    LET Rank(j) == Cardinality({k \in DOMAIN closed : closed[k].index <= closed[j].index})
    IN  [i \in DOMAIN closed |-> closed[CHOOSE j \in DOMAIN closed : Rank(j) = i]]

(* finalize_into                                                           *)
FinalizeAll(s) ==
    IF s.completed THEN s
    ELSE LET t == FinalizeTools(Finalize(Finalize(FlushThink(EnsureStarted(s)), "reasoning"),
                                         "message"))
         IN  Emit([t EXCEPT !.completed = TRUE],
                  [ev |-> "completed", output |-> InIndexOrder(t.closed)])

(* failed_into                                                             *)
Fail(s) == Emit([s EXCEPT !.completed = TRUE, !.failed = TRUE],
                [ev |-> "failed"])

(* finish: after a failure nothing is added.                               *)
FinishStream(s) == IF s.failed THEN s ELSE FinalizeAll(s)

(* handle_chat_chunk_into: a tool_calls array, even an empty one, ends the *)
(* think block and the reasoning.                                          *)
HandleChunk(s, chunk) ==
    LET a == EnsureStarted(s)
        b == IF chunk.reasoning THEN PushDelta(a, "reasoning", <<"r">>) ELSE a
        c == IF chunk.content # <<>> THEN PushContent(b, chunk.content) ELSE b
    IN  IF ~chunk.tools THEN c
        ELSE PushToolCalls(Finalize(FlushThink(c), "reasoning"), chunk.calls)

-----------------------------------------------------------------------------
(* The loop of the helper: one block in, its events out.                   *)

Chunk(reasoning, content, tools, calls) ==
    [reasoning |-> reasoning, content |-> content, tools |-> tools, calls |-> calls]

(* A chunk with several parts is handled like its parts one after another. *)
(* The upstream gives a call its id and its name once.                     *)
CallDeltas ==
    [index : Calls, id : BOOLEAN, name : {"", "shell", CustomName}, arguments : {<<>>, <<"a">>}]

MayCome(d) ==
    LET call == st.tools[d.index]
    IN  /\ d.id => call.call # "given"
        /\ d.name # "" => /\ call.name \in {"", "unknown_tool"}
                          /\ d.name = IF d.index \in Patches THEN CustomName ELSE "shell"

Chunks ==
    {Chunk(TRUE, <<>>, FALSE, <<>>), Chunk(FALSE, <<>>, TRUE, <<>>)}
        \cup {Chunk(FALSE, f, FALSE, <<>>) : f \in Fragments}
        \cup {Chunk(FALSE, <<>>, TRUE, <<d>>) : d \in {e \in CallDeltas : MayCome(e)}}

(* The events of a block are written before the next one is read.          *)
Make(s) == st' = [s EXCEPT !.events = <<>>] /\ out' = s.events

(* push_bytes handles every block it is given; only within one call does   *)
(* it stop at an error.  The end of its stream is the upstream's affair.   *)
Sending == upstream = "open" \/ (LateBlocks /\ upstream = "done")

ReceiveChunk ==
    /\ Sending /\ out = <<>>
    /\ blocks < MaxBlocks
    /\ blocks' = blocks + 1
    /\ \E chunk \in Chunks :
          /\ Make(HandleChunk(st, chunk))
          /\ LET more == [fed EXCEPT ![Len(fed)] = @ \o chunk.content]
             IN  fed' = IF chunk.tools /\ Len(fed) = 1 THEN Append(more, Nothing) ELSE more
    /\ UNCHANGED <<upstream, reader>>

(* [DONE], or an error block.                                              *)
ReceiveDone ==
    /\ Sending /\ out = <<>>
    /\ Make(FinalizeAll(st))
    /\ upstream' = "done"
    /\ UNCHANGED <<fed, blocks, reader>>

ReceiveError ==
    /\ Sending /\ out = <<>>
    /\ Make(Fail(st))
    /\ upstream' = "done"
    /\ UNCHANGED <<fed, blocks, reader>>

(* The connection breaks, before or after its last block ...               *)
ReadFails ==
    /\ upstream # "closed" /\ out = <<>>
    /\ Make(Fail(st))
    /\ upstream' = "closed"
    /\ UNCHANGED <<fed, blocks, reader>>

(* ... or ends, with or without [DONE].                                    *)
EndOfStream ==
    /\ upstream # "closed" /\ out = <<>>
    /\ Make(FinishStream(st))
    /\ upstream' = "closed"
    /\ UNCHANGED <<fed, blocks, reader>>

(* Codex reads the next event.  An event that does not fit what was read   *)
(* so far (a wrong index, another id) breaks the stream.                   *)
Fits(e) ==
    CASE e.ev = "added" -> e.index = Len(items) + 1
      [] e.ev = "delta" -> e.index \in DOMAIN items
      [] e.ev = "done" -> e.index \in DOMAIN items /\ items[e.index].id = e.id
      [] OTHER -> TRUE

Read ==
    /\ out # <<>>
    /\ out' = Tail(out)
    /\ LET e == Head(out)
           i == e.index
       IN  /\ started' = (started \/ e.ev = "created")
           /\ ended' = CASE ~Fits(e) -> "broken"
                         [] e.ev \in {"completed", "failed"} -> e.ev
                         [] OTHER -> ended
           /\ items' = CASE ~Fits(e) -> items
                         [] e.ev = "added" ->
                              Append(items, [kind |-> e.kind, id |-> e.id, text |-> <<>>, closed |-> 0])
                         [] e.ev = "delta" -> [items EXCEPT ![i].text = @ \o e.text]
                         [] e.ev = "done" -> [items EXCEPT ![i].closed = @ + 1]
                         [] OTHER -> items
           /\ output' = IF e.ev = "completed" THEN e.output ELSE output
    /\ UNCHANGED <<st, upstream, fed, blocks>>

StreamNext ==
    \/ ReceiveChunk \/ ReceiveDone \/ ReceiveError \/ ReadFails \/ EndOfStream \/ Read

StreamSpec == StreamInit /\ [][StreamNext]_streamVars

-----------------------------------------------------------------------------
(* Properties.                                                             *)

(* Types; the converter counts the indices it gave out, and what it has    *)
(* closed is what Codex has seen closed or will with the events to come.   *)
StreamTypeOK ==
    /\ upstream \in {"open", "done", "closed"}
    /\ blocks \in 0..MaxBlocks
    /\ started \in BOOLEAN
    /\ ended \in {"-", "completed", "failed"}
    /\ st.mode \in {"Detecting", "Reasoning", "Text"}
    /\ st.mode = "Text" => st.buffer = <<>>
    /\ st.seen \subseteq Calls
    /\ out = <<>> =>
          /\ Len(items) = st.next - 1
          /\ Cardinality({i \in DOMAIN items : items[i].closed = 1}) = Len(st.closed)
          /\ st.completed = (ended # "-")

(* What Codex reads is a well-formed Responses stream.                     *)
Promised == INSTANCE ResponseStream

WellFormed == Promised!Spec

(* The response a completed stream ends with lists every item once, in the *)
(* order of the indices, with the text its deltas added up to.  Only       *)
(* reasoning that resumed after its item was closed is missing there, and  *)
(* only a call that had neither id nor name before the end, or whose       *)
(* custom tool was never named, has its arguments there alone.             *)
CompletedIsWhole ==
    ended = "completed" =>
        /\ Len(output) = Len(items)
        /\ \A i \in DOMAIN items :
              /\ output[i].index = i
              /\ CASE items[i].kind = "reasoning" -> IsPrefix(output[i].text, items[i].text)
                   [] items[i].kind = "function_call" /\ items[i].text = <<>> ->
                        \E c \in Calls :
                           /\ st.tools[c].index = i
                           /\ st.tools[c].name = "unknown_tool" \/ output[i].text = <<>>
                   [] OTHER -> output[i].text = items[i].text

(* What the converter knows, and what the response it ends with says.      *)
StreamInv == StreamTypeOK /\ CompletedIsWhole

(* However the upstream cut its content into chunks, the message is the    *)
(* one the whole content gives: a leading think block is taken off, nothing *)
(* else is lost, doubled or reordered, not even a tag that only began.     *)
(* Only of the white space between the think block and its answer the part *)
(* that comes after the chunk with the closing tag stays.  A tool_calls    *)
(* array ends the think block, closed or not.                              *)
TextIn(kind) ==
    LET texts == SelectSeq(items, LAMBDA item : item.kind = kind)
    IN  IF texts = <<>> THEN <<>> ELSE texts[1].text

(* What is left of the white space in front of the answer.                 *)
Separators(b) ==
    LET behind == Behind(Stripped(b))
        gap == Len(behind) - Len(Stripped(behind))
    IN  {SubSeq(behind, k, gap) : k \in 1..(gap + 1)}

SameAsWhole ==
    ended = "completed" =>
        LET whole == fed[1]
            rest == IF Len(fed) = 2 THEN fed[2] ELSE <<>>
        IN  /\ \E space \in IF Opens(whole) THEN Separators(whole) ELSE {<<>>} :
                  TextIn("message")
                    = space \o (IF Opens(whole) THEN AnswerOf(whole) ELSE whole) \o rest
            /\ SelectSeq(TextIn("reasoning"), LAMBDA x : x # "r")
                 = IF Opens(whole) THEN ThoughtOf(whole) ELSE <<>>
=============================================================================
