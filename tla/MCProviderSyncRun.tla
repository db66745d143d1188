------------------------- MODULE MCProviderSyncRun -------------------------
(***************************************************************************)
(* Histories for TLC: two threads, a database with the threads and one     *)
(* with a copy of some and the catalog.  Each thread follows one of the    *)
(* profiles of the repository's tests.                                     *)
(***************************************************************************)
EXTENDS ProviderSyncRun

CONSTANTS d1, d2, t1, t2

TwoDbs == <<d1, d2>>
TwoFiles == <<t1, t2>>

Text(meta, agent) == [meta |-> meta, agent |-> agent, event |-> TRUE, body |-> 1]
Row(provider, mark, archived, event, at) ==
  [provider |-> provider, mark |-> mark, archived |-> archived, event |-> event,
   filed |-> TRUE, at |-> at]
Unfiled(row) == [row EXCEPT !.filed = FALSE]
Listed(provider, mark) == [provider |-> provider, mark |-> mark]

None == {}   \* no row

(* file; the row in each database; the catalog row; edges and jobs in d1   *)
Thread(text, r1, r2, c, edge, work) ==
  [text |-> text, r1 |-> r1, r2 |-> r2, c |-> c, edge |-> edge, work |-> work]

Fresh == {Row("openai", "plain", FALSE, FALSE, 0)}
Profiles == {
  (* of another provider, no user event yet, not in the catalog *)
  Thread({Text({"openai", "target"}, FALSE)}, Fresh, None, None, FALSE, FALSE),
  (* a user's although an edge names it, copied with another provider *)
  Thread({Text({"openai"}, FALSE)}, {Row("target", "user", FALSE, TRUE, 0)},
         {Row("other", "user", FALSE, TRUE, 1)}, {Listed("other", "plain")}, TRUE, FALSE),
  (* two copies of one age, one of them archived, still listed *)
  Thread({Text({"target"}, FALSE)}, {Row("target", "plain", FALSE, TRUE, 0)},
         {Row("target", "plain", TRUE, TRUE, 0)}, {Listed("target", "plain")}, FALSE, FALSE),
  (* a child by its edge, and listed *)
  Thread({Text({"openai"}, FALSE)}, Fresh, None, {Listed("openai", "plain")}, TRUE, FALSE),
  (* an agent by what the file says *)
  Thread({Text({"other"}, TRUE)}, {Row("other", "user", FALSE, TRUE, 0)}, None, None, FALSE, FALSE),
  (* an agent by what the catalog says, live in its row *)
  Thread({Text({"openai"}, FALSE)}, {Row("openai", "plain", FALSE, TRUE, 0)}, None,
         {Listed("openai", "agent")}, FALSE, FALSE),
  (* an agent's by a job of the first database, copied to the second *)
  Thread({Text({"openai"}, FALSE)}, {Row("openai", "plain", FALSE, TRUE, 0)},
         {Row("openai", "plain", FALSE, TRUE, 1)}, None, FALSE, TRUE),
  (* a row that names no rollout, and none is there *)
  Thread(None, {Unfiled(Row("openai", "plain", FALSE, TRUE, 0))}, None, None, FALSE, FALSE),
  (* a user's, of another provider, listed under the default one *)
  Thread({Text({"other"}, FALSE)}, {Row("other", "user", FALSE, TRUE, 1)}, None,
         {Listed("openai", "user")}, FALSE, FALSE)
}

Of(values, t) == [x \in {u \in {t} : values # {}} |-> CHOOSE v \in values : TRUE]
Both(f, g) == [x \in DOMAIN f \cup DOMAIN g |-> IF x \in DOMAIN f THEN f[x] ELSE g[x]]
Home(p, q) ==
  LET Pair(v, w) == Both(Of(v, t1), Of(w, t2))
  IN  [file |-> Pair(p.text, q.text),
       db |-> [d \in {d1, d2} |->
                 IF d = d1
                 THEN [threads |-> Pair(p.r1, q.r1), catalog |-> <<>>,
                       edges |-> {t \in {t1} : p.edge} \cup {t \in {t2} : q.edge},
                       jobs |-> {t \in {t1} : p.work} \cup {t \in {t2} : q.work}]
                 ELSE [threads |-> Pair(p.r2, q.r2), catalog |-> Pair(p.c, q.c),
                       edges |-> {}, jobs |-> {}]],
       global |-> IF p.r2 = None THEN "raw" ELSE "normal"]

(* The second thread: a user's that needs a rewrite and is listed under    *)
(* another provider.                                                       *)
Partner == CHOOSE p \in Profiles : \E text \in p.text : text.meta = {"other"} /\ ~ text.agent
Homes == {Home(p, Partner) : p \in Profiles}
=============================================================================
