-------------------------- MODULE MCRelayRotation --------------------------
(***************************************************************************)
(* Instances of RelayRotation for TLC: aggregates of two or three members  *)
(* with the four strategies.                                               *)
(***************************************************************************)
EXTENDS RelayRotation, TLC

CONSTANTS relayA, relayB, relayC, c1

Of(strategy, relays, weights) ==
  [strategy |-> strategy,
   members |-> [i \in DOMAIN relays |-> [relay |-> relays[i], weight |-> weights[i]]]]

Ones == <<1, 1, 1>>

Mixed ==
  {Of("failover", <<relayA, relayB, relayC>>, Ones), Of("weighted", <<relayA, relayB, relayC>>, <<2, 0, 1>>),
   Of("conversation", <<relayA, relayB>>, Ones), Of("request", <<relayA, relayB>>, Ones)}

(* Requests are told apart by what they do only.                           *)
Symmetry == Permutations(Requests)
=============================================================================
