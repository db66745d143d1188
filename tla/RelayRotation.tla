--------------------------- MODULE RelayRotation ---------------------------
(***************************************************************************)
(* The aggregate relay: which upstream serves a proxied request            *)
(* (crates/codex-plus-core/src/relay_rotation.rs and the retry loop of     *)
(* protocol_proxy.rs).                                                     *)
(*                                                                         *)
(* Every request reads the settings for itself, asks the one selector of   *)
(* the process for a member of the active aggregate, and then tries that   *)
(* member and the others in turn until one answers.  Requests run side by  *)
(* side; only the calls on the selector exclude each other; the settings   *)
(* may change at any time.                                                 *)
(***************************************************************************)
EXTENDS Naturals, Sequences, SequencesExt, FiniteSets

CONSTANTS
  Requests,        \* proxied requests that can run at the same time
  Aggregates,      \* aggregate profiles: strategy, and members with weights
  Plain,           \* an ordinary relay, active instead of an aggregate
  Conversations,
  MaxTurns,        \* bound: responses of a conversation a request can name
  None,
  MaxPicks         \* bound: selections counted since the selector was built

Strategies == {"failover", "conversation", "request", "weighted"}
Relays == {Plain} \cup UNION {{a.members[i].relay : i \in DOMAIN a.members} : a \in Aggregates}
MemberSet(a) == {a.members[i].relay : i \in DOMAIN a.members}

ASSUME AggregatesAssumption ==
  \A a \in Aggregates :
    /\ a.strategy \in Strategies
    /\ a.members \in Seq(Range(a.members)) /\ a.members # <<>>
    /\ \A i \in DOMAIN a.members : a.members[i].weight \in Nat
    /\ \A i, j \in DOMAIN a.members : a.members[i].relay = a.members[j].relay => i = j
ASSUME NoneAssumption == None \notin Relays \cup Aggregates \cup Conversations
ASSUME BoundsAssumption == MaxTurns \in Nat /\ MaxPicks \in Nat

VARIABLES
  sel,        \* GLOBAL_SELECTOR
  req,        \* req[r]: the request that runs in slot r, or the last one
  turns,      \* history: selections since sel was built
  picks,      \* history: those of each relay
  served      \* history: who got which relay since sel was built

history == <<turns, picks, served>>
vars == <<sel, req, history>>

(* conversation_id_from_responses_request: the conversation's own id, or   *)
(* the id of the response the request continues, or neither.               *)
Keys(c) == {c, None} \cup {<<c, turn>> : turn \in 1..MaxTurns}
AllKeys == (UNION {Keys(c) : c \in Conversations}) \ {None}

NoSelector == [agg |-> None]
Fresh(a) ==
  [agg |-> a, failover |-> 0, request |-> 0, weighted |-> 0,
   assigned |-> [k \in AllKeys |-> None]]

NoRequest ==
  [step |-> "idle", agg |-> None, intact |-> TRUE, conv |-> None, key |-> None,
   todo |-> <<>>, tried |-> <<>>, answer |-> "none"]

Init ==
  /\ sel = NoSelector
  /\ req = [r \in Requests |-> NoRequest]
  /\ turns = 0
  /\ picks = [m \in Relays |-> 0]
  /\ served = {}

-----------------------------------------------------------------------------
(* RelayRotationSelector.                                                  *)

Size(a) == Len(a.members)
Member(a, index) == a.members[(index % Size(a)) + 1].relay

(* weighted_schedule: every member as often as its weight says, and once   *)
(* when that is zero.                                                      *)
Weight(a, i) == IF a.members[i].weight = 0 THEN 1 ELSE a.members[i].weight
Slots(a, i) == UNION {{j} \X (1..Weight(a, j)) : j \in 1..(i - 1)}
Before(a, i) == Cardinality(Slots(a, i))
Rounds(a) == Before(a, Size(a) + 1)
Scheduled(a, index) ==
  a.members[CHOOSE i \in DOMAIN a.members :
              /\ Before(a, i) <= index % Rounds(a)
              /\ index % Rounds(a) < Before(a, i + 1)].relay

(* The relay that select returns for a key.                                *)
Choice(s, key) ==
  CASE s.agg.strategy = "failover" -> Member(s.agg, s.failover)
    [] s.agg.strategy = "weighted" -> Scheduled(s.agg, s.weighted)
    [] s.agg.strategy = "conversation" /\ key # None /\ s.assigned[key] # None -> s.assigned[key]
    [] OTHER -> Member(s.agg, s.request)

(* What select leaves behind.                                              *)
AfterForgetful(s, key) ==  \* mutant: a conversation is assigned anew each time
  CASE s.agg.strategy = "failover" -> s
    [] s.agg.strategy = "weighted" -> [s EXCEPT !.weighted = (@ + 1) % Rounds(s.agg)]
    [] OTHER -> [s EXCEPT !.request = (@ + 1) % Size(s.agg)]

AfterSkipping(s, key) ==  \* mutant: the schedule is advanced by members, not by rounds
  CASE s.agg.strategy = "failover" -> s
    [] s.agg.strategy = "weighted" -> [s EXCEPT !.weighted = (@ + 1) % Size(s.agg)]
    [] OTHER -> [s EXCEPT !.request = (@ + 1) % Size(s.agg)]

After(s, key) ==
  CASE s.agg.strategy = "failover" -> s
    [] s.agg.strategy = "weighted" -> [s EXCEPT !.weighted = (@ + 1) % Rounds(s.agg)]
    [] s.agg.strategy = "conversation" /\ key # None ->
         IF s.assigned[key] # None THEN s
         ELSE [s EXCEPT !.request = (@ + 1) % Size(s.agg),
                        !.assigned[key] = Member(s.agg, s.request)]
    [] OTHER -> [s EXCEPT !.request = (@ + 1) % Size(s.agg)]

(* The selector for an aggregate: kept, or built anew when the current one *)
(* is of another aggregate.                                                *)
SelectorFor(a) == IF sel.agg = a THEN sel ELSE Fresh(a)

-----------------------------------------------------------------------------
(* A request: open_responses_proxy_request and the models probe.           *)

At(r, step) == req[r].step = step
Finish(r, what) ==
  req' = [req EXCEPT ![r].step = "idle", ![r].answer = what, ![r].todo = <<>>,
                     ![r].conv = None, ![r].key = None]
(* select takes the key of the request with it.                            *)
Send(r, todo) ==
  req' = [req EXCEPT ![r].step = "sending", ![r].todo = todo,
                     ![r].conv = None, ![r].key = None]

(* The settings are read from their file: since the last request the user  *)
(* may have switched to any relay and edited the members of an aggregate,  *)
(* so that not all of them have a usable profile.                          *)
Load(r) ==
  /\ At(r, "idle")
  /\ \E agg \in Aggregates \cup {None}, intact \in BOOLEAN, c \in Conversations :
       \E k \in Keys(c) :
         req' = [req EXCEPT ![r] = [NoRequest EXCEPT
                   !.step = "loaded", !.agg = agg, !.intact = intact, !.conv = c, !.key = k]]
  /\ UNCHANGED <<sel, history>>

FallbackFromStart(a, m) ==  \* mutant: the others are counted from the first member
  [i \in 1..(Size(a) - 1) |-> Member(a, i - 1)]

(* fallback_relays_after: the members after m, round to the one before it. *)
FallbackAfter(a, m) ==
  LET at == CHOOSE i \in DOMAIN a.members : a.members[i].relay = m
  IN  [i \in 1..(Size(a) - 1) |-> Member(a, at + i - 1)]

(* select_relay_for_request with an aggregate.                             *)
Select(r) ==
  /\ At(r, "loaded")
  /\ req[r].agg # None /\ req[r].intact
  /\ LET a == req[r].agg
         s == SelectorFor(a)
         m == Choice(s, req[r].key)
         taken == IF sel.agg = a THEN turns ELSE 0
         counted == IF sel.agg = a THEN picks ELSE [x \in Relays |-> 0]
         known == IF sel.agg = a THEN served ELSE {}
     IN  /\ taken < MaxPicks
         /\ sel' = After(s, req[r].key)
         /\ turns' = IF a.strategy = "failover" THEN taken ELSE taken + 1
         /\ picks' = IF a.strategy = "failover" THEN counted ELSE [counted EXCEPT ![m] = @ + 1]
         /\ served' = IF a.strategy # "conversation" THEN known
                      ELSE known \cup {[conv |-> req[r].conv, key |-> req[r].key, relay |-> m]}
         /\ Send(r, <<m>> \o FallbackAfter(a, m))

(* A member without a usable profile makes select fail; the selector stays *)
(* as it is.                                                               *)
SelectFails(r) ==
  /\ At(r, "loaded")
  /\ req[r].agg # None /\ ~ req[r].intact
  /\ Finish(r, "refused")
  /\ UNCHANGED <<sel, history>>

(* An ordinary relay is active: select_relay_for_request drops the         *)
(* selector, a model route does not ask for one.                           *)
SelectPlain(r) ==
  /\ At(r, "loaded")
  /\ req[r].agg = None
  /\ sel' \in {sel, NoSelector}
  /\ Send(r, <<Plain>>)
  /\ UNCHANGED history

(* open_models_proxy_request looks at the selection without advancing it.  *)
Probe(r) ==
  /\ At(r, "loaded")
  /\ IF req[r].agg = None THEN sel' = NoSelector /\ UNCHANGED history
     ELSE /\ req[r].intact
          /\ sel' = SelectorFor(req[r].agg)
          /\ turns' = IF sel.agg = req[r].agg THEN turns ELSE 0
          /\ picks' = IF sel.agg = req[r].agg THEN picks ELSE [m \in Relays |-> 0]
          /\ served' = IF sel.agg = req[r].agg THEN served ELSE {}
  /\ Finish(r, "probed")

(* record_relay_request_event, with the settings the request began with    *)
(* and the selector as it is now.                                          *)
Record(r, ok) ==
  sel' = IF req[r].agg = None THEN NoSelector
         ELSE IF ~ ok /\ sel # NoSelector /\ sel.agg.strategy = "failover"
              THEN [sel EXCEPT !.failover = (@ + 1) % Size(sel.agg)]
              ELSE sel

(* The candidate answers with a 2xx status.                                *)
Answered(r) ==
  /\ At(r, "sending")
  /\ Record(r, TRUE)
  /\ req' = [req EXCEPT ![r].step = "idle", ![r].answer = "ok", ![r].todo = <<>>,
                        ![r].tried = Append(@, Head(req[r].todo))]
  /\ UNCHANGED history

(* It cannot be reached, is too slow or answers with another status: the   *)
(* next candidate is tried, and after the last one the client is told.     *)
Failed(r) ==
  /\ At(r, "sending")
  /\ Record(r, FALSE)
  /\ LET left == Tail(req[r].todo)
     IN  req' = [req EXCEPT ![r].todo = left, ![r].tried = Append(@, Head(req[r].todo)),
                            ![r].step = IF left = <<>> THEN "idle" ELSE "sending",
                            ![r].answer = IF left = <<>> THEN "exhausted" ELSE "none"]
  /\ UNCHANGED history

(* The upstream request cannot be put together: no other candidate is      *)
(* tried and nothing is recorded.                                          *)
PrepareFails(r) ==
  /\ At(r, "sending")
  /\ Finish(r, "refused")
  /\ UNCHANGED <<sel, history>>

Next ==
  \E r \in Requests :
       \/ Load(r) \/ Select(r) \/ SelectFails(r) \/ SelectPlain(r) \/ Probe(r)
       \/ Answered(r) \/ Failed(r) \/ PrepareFails(r)

Spec == Init /\ [][Next]_vars

-----------------------------------------------------------------------------
(* Properties.                                                             *)

Selectors ==
  [agg : Aggregates, failover : Nat, request : Nat, weighted : Nat,
   assigned : [AllKeys -> Relays \cup {None}]]
Running ==
  [step : {"idle", "loaded", "sending"}, agg : Aggregates \cup {None}, intact : BOOLEAN,
   conv : Conversations \cup {None}, key : AllKeys \cup {None},
   todo : Seq(Relays), tried : Seq(Relays),
   answer : {"none", "ok", "exhausted", "refused", "probed"}]
Sent(r) == req[r].tried \o req[r].todo

(* Every variable has its type, and every index of the selector points     *)
(* into its own aggregate's members or schedule.                           *)
TypeOK ==
  /\ sel \in Selectors \cup {NoSelector}
  /\ sel # NoSelector =>
       /\ sel.failover < Size(sel.agg)
       /\ sel.request < Size(sel.agg)
       /\ sel.weighted < Rounds(sel.agg)
       /\ \A k \in AllKeys : sel.assigned[k] \in MemberSet(sel.agg) \cup {None}
  /\ req \in [Requests -> Running]
  /\ \A r \in Requests :
       /\ At(r, "sending") <=> req[r].todo # <<>>
       /\ At(r, "loaded") => req[r].tried = <<>>
       /\ ~ At(r, "idle") => req[r].answer = "none"
  /\ turns \in 0..MaxPicks
  /\ picks \in [Relays -> 0..turns]
  /\ served \subseteq [conv : Conversations \cup {None}, key : AllKeys \cup {None}, relay : Relays]

(* How the counts of the members come from the place in the rotation: a    *)
(* number of full rounds, and in the current round the members, or the     *)
(* slots of the schedule, before the index.                                *)
Part(a, i, index) ==
  IF index <= Before(a, i) THEN 0
  ELSE IF index < Before(a, i + 1) THEN index - Before(a, i) ELSE Weight(a, i)
RoundsInv ==
  sel # NoSelector =>
    /\ sel.agg.strategy = "request" =>
         \E q \in 0..turns : \A i \in DOMAIN sel.agg.members :
           picks[sel.agg.members[i].relay] = IF i <= sel.request THEN q + 1 ELSE q
    /\ sel.agg.strategy = "weighted" =>
         \E q \in 0..turns : \A i \in DOMAIN sel.agg.members :
           picks[sel.agg.members[i].relay]
             = q * Weight(sel.agg, i) + Part(sel.agg, i, sel.weighted)

(* Round robin and weights hold across requests that run side by side: as  *)
(* long as the selector is not rebuilt, the members have been selected     *)
(* equally often up to one, or by weight up to one round, and exactly by   *)
(* weight when the schedule begins anew.                                   *)
FairShares ==
  sel # NoSelector =>
    /\ sel.agg.strategy = "request" =>
         \A m, n \in MemberSet(sel.agg) : picks[m] <= picks[n] + 1
    /\ sel.agg.strategy = "weighted" =>
         \E q \in 0..turns : \A i \in DOMAIN sel.agg.members :
           LET share == q * Weight(sel.agg, i)
           IN  /\ picks[sel.agg.members[i].relay] \in share..(share + Weight(sel.agg, i))
               /\ sel.weighted = 0 => picks[sel.agg.members[i].relay] = share

(* A request gives up only after it has tried every member of the          *)
(* aggregate it began with exactly once, whatever other requests and the   *)
(* user did to selector and settings meanwhile; and it never tries a relay *)
(* twice or one of another aggregate.                                      *)
Candidates(r) == IF req[r].agg = None THEN {Plain} ELSE MemberSet(req[r].agg)
EveryMemberTried ==
  \A r \in Requests :
    /\ IsInjective(Sent(r))
    /\ ToSet(Sent(r)) \subseteq Candidates(r)
    /\ At(r, "sending") => ToSet(Sent(r)) = Candidates(r)
    /\ req[r].answer = "exhausted" => ToSet(req[r].tried) = Candidates(r)

(* Requests that carry the same conversation key get the same member for   *)
(* as long as the selector is not rebuilt, in whatever order they arrive.  *)
KeysStick ==
  \A x, y \in served : x.key = y.key /\ x.key # None => x.relay = y.relay

(* That is the member the selector has for the key.                        *)
KeysAssigned ==
  sel # NoSelector => \A x \in served : x.key # None => x.relay = sel.assigned[x.key]

(* The indices point into the aggregate they belong to, going round with   *)
(* them gives everybody the share due, and what was served is remembered.  *)
RotationInv == TypeOK /\ RoundsInv /\ FairShares /\ KeysAssigned
=============================================================================
