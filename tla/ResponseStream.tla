---------------------------- MODULE ResponseStream ----------------------------
(***************************************************************************)
(* What Codex may rely on when it reads a Responses event stream from the  *)
(* protocol proxy: the response is created once and first, every output    *)
(* item is opened under the next index, extended while it is open and      *)
(* closed once under the same id, and the response is completed only when  *)
(* every item is closed.  Two liberties are the proxy's own: reasoning     *)
(* that resumes after its item was closed is still sent as a delta, and a  *)
(* broken connection is reported even after the response was completed.    *)
(***************************************************************************)
EXTENDS Naturals, Sequences

VARIABLES started,   \* response.created was received
          items,     \* output items by index: kind, id, text received, times closed
          ended      \* "-", "completed", "failed"

Kinds == {"reasoning", "message", "function_call", "custom_tool_call"}

Init == started = FALSE /\ items = <<>> /\ ended = "-"

Created ==
    /\ ~started
    /\ started' = TRUE
    /\ UNCHANGED <<items, ended>>

Running == started /\ ended = "-"

Added ==
    /\ Running
    /\ \E kind \in Kinds : \E id \in {items'[i].id : i \in DOMAIN items'} :
          items' = Append(items, [kind |-> kind, id |-> id, text |-> <<>>, closed |-> 0])
    /\ UNCHANGED <<started, ended>>

(* One item grows, and nothing else of it changes.                         *)
Delta ==
    /\ Running
    /\ \E i \in DOMAIN items :
          /\ items[i].closed = 0 \/ items[i].kind = "reasoning"
          /\ DOMAIN items' = DOMAIN items
          /\ \E n \in 1..Len(items'[i].text) :
                LET more == SubSeq(items'[i].text, n, Len(items'[i].text))
                IN  items' = [items EXCEPT ![i].text = @ \o more]
    /\ UNCHANGED <<started, ended>>

Done ==
    /\ Running
    /\ \E i \in DOMAIN items :
          /\ items[i].closed = 0
          /\ items' = [items EXCEPT ![i].closed = 1]
    /\ UNCHANGED <<started, ended>>

Completed ==
    /\ Running
    /\ \A i \in DOMAIN items : items[i].closed = 1
    /\ ended' = "completed"
    /\ UNCHANGED <<started, items>>

Failed ==
    /\ ended # "failed"
    /\ ended' = "failed"
    /\ UNCHANGED <<started, items>>

Next == Created \/ Added \/ Delta \/ Done \/ Completed \/ Failed

Spec == Init /\ [][Next]_<<started, items, ended>>
=============================================================================
