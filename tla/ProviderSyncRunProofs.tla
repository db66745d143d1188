------------------------ MODULE ProviderSyncRunProofs ------------------------
(***************************************************************************)
(* Proofs about ProviderSyncRun, for every set of histories, every number  *)
(* of files and databases, of runs, failures and writes of Codex.          *)
(***************************************************************************)
EXTENDS ProviderSyncRun, FiniteSetTheorems, WellFoundedInduction, TLAPS

-----------------------------------------------------------------------------
(* The operators of the model.                                             *)

(* A set of numbers that is not empty has a least one.                     *)
LEMMA Least ==
  ASSUME NEW S, S \subseteq Nat, S # {}
  PROVE  \E x \in S : \A y \in S : x <= y
<1> DEFINE Less == {ss \in Nat \X Nat : ss[1] < ss[2]}
<1>1. IsWellFoundedOn(Less, Nat)
  BY NatLessThanWellFounded DEF OpToRel
<1>2. PICK x \in S : \A y \in S : <<y, x>> \notin Less
  BY <1>1, WFMin
<1>3. ASSUME NEW y \in S PROVE x <= y
  <2>1. x \in Nat /\ y \in Nat
    OBVIOUS
  <2>2. ~ (y < x)
    BY <1>2, <2>1
  <2> QED
    BY <2>1, <2>2
<1> QED
  BY <1>3

(* The file a rewrite takes next is one it has to do.                      *)
LEMMA FirstIn ==
  ASSUME NEW threads \in SUBSET Threads, threads # {}
  PROVE  First(threads) \in threads
<1> DEFINE S == {i \in DOMAIN Files : Files[i] \in threads}
<1>1. DOMAIN Files \subseteq Nat
  BY FilesAssumption
<1>2. PICK t \in threads : TRUE
  OBVIOUS
<1>3. PICK n \in DOMAIN Files : Files[n] = t
  BY <1>2 DEF Threads, Range
<1>4. S # {} /\ S \subseteq Nat
  BY <1>1, <1>2, <1>3
<1>5. \E i \in S : \A j \in S : i <= j
  BY <1>4, Least
<1>6. \E i \in DOMAIN Files : /\ Files[i] \in threads
                              /\ \A j \in DOMAIN Files : Files[j] \in threads => i <= j
  BY <1>5
<1> QED
  BY <1>6 DEF First

(* Of finitely many places of numbers some place has the largest number.   *)
LEMMA Largest ==
  ASSUME NEW S, S # {}, IsFiniteSet(S), NEW f, \A i \in S : f[i] \in Nat
  PROVE  \E i \in S : \A j \in S : f[j] <= f[i]
<1> DEFINE Above(i) == {j \in S : f[j] > f[i]}
<1> DEFINE Counts == {Cardinality(Above(i)) : i \in S}
<1>1. \A i \in S : IsFiniteSet(Above(i)) /\ Cardinality(Above(i)) \in Nat
  BY FS_Subset, FS_CardinalityType
<1>2. Counts \subseteq Nat /\ Counts # {}
  BY <1>1
<1>3. PICK c \in Counts : \A d \in Counts : c <= d
  BY <1>2, Least
<1>4. PICK i \in S : c = Cardinality(Above(i))
  BY <1>3
<1>5. ASSUME NEW j \in S, ~ (f[j] <= f[i]) PROVE FALSE
  <2>1. j \in Above(i) /\ j \notin Above(j)
    BY <1>5
  <2>2. Above(j) \subseteq Above(i)
    BY <1>5
  <2>3. Cardinality(Above(j)) <= Cardinality(Above(i)) /\ Cardinality(Above(j)) # Cardinality(Above(i))
    BY <2>1, <2>2, <1>1, FS_Subset
  <2>4. Cardinality(Above(i)) <= Cardinality(Above(j))
    BY <1>3, <1>4
  <2>5. Cardinality(Above(i)) \in Nat /\ Cardinality(Above(j)) \in Nat
    BY <1>1
  <2> HIDE DEF Above
  <2> QED
    BY <2>3, <2>4, <2>5
<1> QED
  BY <1>5

(* What marks say is what some row says.                                   *)
LEMMA MarkedMember ==
  ASSUME NEW b, NEW mark, NEW t
  PROVE  t \in Marked(b, mark) <=>
           \E d \in Dbs : \/ t \in DOMAIN b[d].threads /\ b[d].threads[t].mark = mark
                          \/ t \in DOMAIN b[d].catalog /\ b[d].catalog[t].mark = mark
BY DEF Marked, Rows

(* Two states of the databases name the same agents when the marks, edges  *)
(* and jobs are the same.                                                  *)
SameMarks(b, c) ==
  \A d \in Dbs :
    /\ b[d].edges = c[d].edges /\ b[d].jobs = c[d].jobs
    /\ DOMAIN b[d].threads = DOMAIN c[d].threads
    /\ \A t \in DOMAIN b[d].threads : b[d].threads[t].mark = c[d].threads[t].mark
    /\ DOMAIN b[d].catalog = DOMAIN c[d].catalog
    /\ \A t \in DOMAIN b[d].catalog : b[d].catalog[t].mark = c[d].catalog[t].mark

(* Who is a subagent depends on nothing else.                              *)
LEMMA SameMarksSameAgents ==
  ASSUME NEW b, NEW c, SameMarks(b, c)
  PROVE  Subagents(b) = Subagents(c)
<1>1. ASSUME NEW mark PROVE Marked(b, mark) = Marked(c, mark)
  <2>1. ASSUME NEW t PROVE t \in Marked(b, mark) <=> t \in Marked(c, mark)
    BY MarkedMember DEF SameMarks
  <2> QED
    BY <2>1
<1>2. \A d \in Dbs : Filtered(d, b) = Filtered(d, c)
  BY DEF SameMarks, Filtered
<1>3. Called(b) = Called(c)
  BY <1>2 DEF Called
<1> QED
  BY <1>1, <1>3 DEF Subagents, ExplicitUsers

(* Agents are threads.                                                     *)
LEMMA AgentsAreThreads ==
  ASSUME NEW f, NEW b, IsHistory(f, b)
  PROVE  Subagents(b) \subseteq Threads
<1> SUFFICES ASSUME NEW t \in Subagents(b) PROVE t \in Threads
  OBVIOUS
<1>1. CASE \E d \in Dbs : t \in Filtered(d, b)
  BY <1>1 DEF IsHistory, IsDb, Filtered
<1>2. CASE t \in Marked(b, "agent")
  <2>1. PICK d \in Dbs : t \in DOMAIN b[d].threads \/ t \in DOMAIN b[d].catalog
    BY <1>2, MarkedMember
  <2>2. IsTable(b[d].threads, ThreadRecs) /\ IsTable(b[d].catalog, CatalogRecs)
    BY <2>1 DEF IsHistory, IsDb
  <2> QED
    BY <2>1, <2>2 DEF IsTable
<1>3. t \in Called(b) \/ t \in Marked(b, "agent")
  BY DEF Subagents
<1> QED
  BY <1>1, <1>2, <1>3 DEF Called

(* Of the rows of a thread some is newest, and the first of some of these  *)
(* can be named: so the thread is observed in a row of its own.            *)
LEMMA ObservedPlace ==
  ASSUME NEW f, NEW b, IsHistory(f, b), NEW t, Observations(t, b) # {}, NEW choice,
         choice = Newest(t, b) \/ (choice # {} /\ choice \subseteq Newest(t, b))
  PROVE  (CHOOSE i \in choice : \A j \in choice : i <= j) \in Observations(t, b)
<1> DEFINE at == [i \in Observations(t, b) |-> RowAt(i, t, b).at]
<1>1. /\ Observations(t, b) \subseteq Nat
      /\ IsFiniteSet(Observations(t, b))
  <2>1. DOMAIN Paths = 1..Len(Paths) /\ Len(Paths) \in Nat
    BY PathsAssumption
  <2>2. Observations(t, b) \subseteq 1..Len(Paths)
    BY <2>1 DEF Observations
  <2>3. IsFiniteSet(1..Len(Paths))
    BY <2>1, FS_Interval
  <2> QED
    BY <2>1, <2>2, <2>3, FS_Subset
<1>2. ASSUME NEW i \in Observations(t, b)
      PROVE  /\ Paths[i] \in Dbs /\ t \in DOMAIN b[Paths[i]].threads /\ t \notin Filtered(Paths[i], b)
             /\ RowAt(i, t, b) \in ThreadRecs
  <2>1. Paths[i] \in Dbs /\ t \in DOMAIN b[Paths[i]].threads /\ t \notin Filtered(Paths[i], b)
    BY DEF Observations, Dbs, Range
  <2>2. IsTable(b[Paths[i]].threads, ThreadRecs)
    BY <2>1 DEF IsHistory, IsDb
  <2> QED
    BY <2>1, <2>2 DEF IsTable, RowAt
<1>3. \A i \in Observations(t, b) : at[i] \in Nat
  BY <1>2 DEF ThreadRecs
<1>4. PICK m \in Observations(t, b) : \A j \in Observations(t, b) : at[j] <= at[m]
  BY <1>1, <1>3, Largest
<1>5. Newest(t, b) # {} /\ Newest(t, b) \subseteq Observations(t, b)
  BY <1>4 DEF Newest
<1>6. choice # {} /\ choice \subseteq Observations(t, b)
  BY <1>5
<1>7. \E i \in choice : \A j \in choice : i <= j
  BY <1>1, <1>6, Least
<1> QED
  BY <1>6, <1>7

(* What is observed of a thread is one of its rows that the catalog does   *)
(* not filter out.                                                         *)
LEMMA ObservedIsRow ==
  ASSUME NEW f, NEW b, IsHistory(f, b), NEW t, Observations(t, b) # {}
  PROVE  \E d \in Dbs : /\ t \in DOMAIN b[d].threads /\ t \notin Filtered(d, b)
                        /\ Observed(t, b, f) = b[d].threads[t]
<1> DEFINE refuse == {i \in Newest(t, b) : ~ Eligible(t, RowAt(i, t, b), b, f)}
           choice == IF refuse = {} THEN Newest(t, b) ELSE refuse
           it == CHOOSE i \in choice : \A j \in choice : i <= j
<1>1. choice = Newest(t, b) \/ (choice # {} /\ choice \subseteq Newest(t, b))
  OBVIOUS
<1>2. it \in Observations(t, b)
  BY <1>1, ObservedPlace
<1>3. Observed(t, b, f) = RowAt(it, t, b)
  BY DEF Observed
<1> HIDE DEF it
<1>4. Paths[it] \in Dbs /\ t \in DOMAIN b[Paths[it]].threads /\ t \notin Filtered(Paths[it], b)
  BY <1>2 DEF Observations, Dbs, Range
<1> QED
  BY <1>3, <1>4 DEF RowAt

(* The parts of a history.                                                 *)
LEMMA TableRow ==
  ASSUME NEW f, NEW Recs, IsTable(f, Recs), NEW t \in DOMAIN f
  PROVE  t \in Threads /\ f[t] \in Recs
BY DEF IsTable

(* A database is its four parts, each of its type.                         *)
LEMMA DbParts ==
  ASSUME NEW f, NEW b, IsHistory(f, b), NEW d \in Dbs
  PROVE  /\ b[d] = [threads |-> b[d].threads, catalog |-> b[d].catalog,
                    edges |-> b[d].edges, jobs |-> b[d].jobs]
         /\ IsTable(b[d].threads, ThreadRecs) /\ IsTable(b[d].catalog, CatalogRecs)
         /\ b[d].edges \subseteq Threads /\ b[d].jobs \subseteq Threads
         /\ d \notin Catalogs => b[d].catalog = <<>>
<1>1. IsDb(b[d], d)
  BY DEF IsHistory
<1> QED
  BY <1>1 DEF IsDb

(* A row with other values in some columns is a row.                       *)
LEMMA RowParts ==
  /\ \A r \in ThreadRecs :
       /\ r.provider \in Providers /\ r.mark \in Marks /\ r.archived \in BOOLEAN
       /\ r.event \in BOOLEAN /\ r.at \in Nat
       /\ [r EXCEPT !.provider = "target"] \in ThreadRecs
       /\ [r EXCEPT !.provider = "target"].provider = "target"
       /\ [r EXCEPT !.provider = "target"].event = r.event
       /\ [r EXCEPT !.provider = "target"].mark = r.mark
       /\ [r EXCEPT !.event = TRUE] \in ThreadRecs
       /\ [r EXCEPT !.event = TRUE].provider = r.provider
       /\ [r EXCEPT !.event = TRUE].event
       /\ [r EXCEPT !.event = TRUE].mark = r.mark
       /\ r.provider = "target" => [r EXCEPT !.provider = "target"] = r
       /\ r.event => [r EXCEPT !.event = TRUE] = r
  /\ \A r \in CatalogRecs :
       /\ r.provider \in Providers /\ r.mark \in Marks
       /\ [r EXCEPT !.provider = "target"] \in CatalogRecs
       /\ [r EXCEPT !.provider = "target"].provider = "target"
       /\ [r EXCEPT !.provider = "target"].mark = r.mark
       /\ r.provider = "target" => [r EXCEPT !.provider = "target"] = r
<1> USE DEF Providers
<1>1. ASSUME NEW r \in ThreadRecs
      PROVE  /\ r.provider \in Providers /\ r.mark \in Marks /\ r.archived \in BOOLEAN
             /\ r.event \in BOOLEAN /\ r.at \in Nat
             /\ [r EXCEPT !.provider = "target"] \in ThreadRecs
             /\ [r EXCEPT !.provider = "target"].provider = "target"
             /\ [r EXCEPT !.provider = "target"].event = r.event
             /\ [r EXCEPT !.provider = "target"].mark = r.mark
             /\ [r EXCEPT !.event = TRUE] \in ThreadRecs
             /\ [r EXCEPT !.event = TRUE].provider = r.provider
             /\ [r EXCEPT !.event = TRUE].event
             /\ [r EXCEPT !.event = TRUE].mark = r.mark
             /\ r.provider = "target" => [r EXCEPT !.provider = "target"] = r
             /\ r.event => [r EXCEPT !.event = TRUE] = r
  BY DEF ThreadRecs
<1>2. ASSUME NEW r \in CatalogRecs
      PROVE  /\ r.provider \in Providers /\ r.mark \in Marks
             /\ [r EXCEPT !.provider = "target"] \in CatalogRecs
             /\ [r EXCEPT !.provider = "target"].provider = "target"
             /\ [r EXCEPT !.provider = "target"].mark = r.mark
             /\ r.provider = "target" => [r EXCEPT !.provider = "target"] = r
  BY DEF CatalogRecs
<1> QED
  BY <1>1, <1>2

(* A rewrite changes the meta lines of a text and nothing else.            *)
LEMMA RewrittenFacts ==
  ASSUME NEW text \in Texts
  PROVE  /\ Rewritten(text) \in Texts
         /\ Rewritten(text).body = text.body
         /\ Rewritten(text).agent = text.agent
         /\ Rewritten(text).event = text.event
         /\ text.meta # {} => Rewritten(text).meta # {}
         /\ job.kind = "sync" => Rewritten(text).meta = {"target"}
<1> DEFINE m == IF job.kind = "sync" THEN {"target"}
                ELSE {IF p = "openai" THEN "target" ELSE p : p \in text.meta}
<1>1. m \subseteq Providers /\ (text.meta # {} => m # {}) /\ (job.kind = "sync" => m = {"target"})
  <2>1. text.meta \subseteq Providers
    BY DEF Texts
  <2> QED
    BY <2>1 DEF Providers
<1>2. Rewritten(text) = [text EXCEPT !.meta = m]
  BY DEF Rewritten
<1> HIDE DEF m
<1> QED
  BY <1>1, <1>2 DEF Texts

(* apply_sqlite_update keeps what it excludes, and moves the rest.         *)
LEMMA UpdatedFacts ==
  ASSUME IsHistory(file, db), NEW d \in Dbs
  PROVE  /\ IsDb(Updated(d), d)
         /\ Updated(d).edges = db[d].edges /\ Updated(d).jobs = db[d].jobs
         /\ DOMAIN Updated(d).threads = DOMAIN db[d].threads
         /\ DOMAIN Updated(d).catalog = DOMAIN db[d].catalog
         /\ \A t \in DOMAIN db[d].threads :
              /\ Updated(d).threads[t].mark = db[d].threads[t].mark
              /\ t \in job.excluded => Updated(d).threads[t] = db[d].threads[t]
              /\ t \notin job.excluded => /\ Updated(d).threads[t].provider = "target"
                                          /\ t \in job.events => Updated(d).threads[t].event
              /\ RowsAtTarget(d, job.excluded, job.events) => Updated(d).threads[t] = db[d].threads[t]
         /\ \A t \in DOMAIN db[d].catalog :
              /\ Updated(d).catalog[t].mark = db[d].catalog[t].mark
              /\ t \notin job.excluded => Updated(d).catalog[t].provider = "target"
              /\ RowsAtTarget(d, job.excluded, job.events) => Updated(d).catalog[t] = db[d].catalog[t]
<1> DEFINE th == db[d].threads
           ct == db[d].catalog
           nt == WithEvents(AtTarget(th))
           nc == AtTarget(ct)
<1>1. /\ db[d] = [threads |-> th, catalog |-> ct, edges |-> db[d].edges, jobs |-> db[d].jobs]
      /\ IsTable(th, ThreadRecs) /\ IsTable(ct, CatalogRecs)
      /\ db[d].edges \subseteq Threads /\ db[d].jobs \subseteq Threads
      /\ d \notin Catalogs => ct = <<>>
  BY DbParts
<1>2. Updated(d) = [threads |-> nt, catalog |-> nc, edges |-> db[d].edges, jobs |-> db[d].jobs]
  <2>1. Updated(d) = [db[d] EXCEPT !.threads = nt, !.catalog = nc]
    BY DEF Updated
  <2> HIDE DEF nt, nc
  <2> QED
    BY <1>1, <2>1
<1>3. /\ nc = [t \in DOMAIN ct |-> IF t \in job.excluded THEN ct[t] ELSE [ct[t] EXCEPT !.provider = "target"]]
      /\ AtTarget(th) = [t \in DOMAIN th |-> IF t \in job.excluded THEN th[t] ELSE [th[t] EXCEPT !.provider = "target"]]
  BY DEF AtTarget
<1>4. nt = [t \in DOMAIN th |-> IF t \in job.events \ job.excluded THEN [AtTarget(th)[t] EXCEPT !.event = TRUE]
                                ELSE AtTarget(th)[t]]
  <2> HIDE DEF th, nc
  <2>1. DOMAIN AtTarget(th) = DOMAIN th
    BY <1>3
  <2> QED
    BY <2>1 DEF WithEvents
<1> DEFINE moved(t) == [th[t] EXCEPT !.provider = "target"]
<1> HIDE DEF th, ct, nt, nc
<1>5. \A t \in DOMAIN th : th[t] \in ThreadRecs /\ t \in Threads
  BY <1>1, TableRow
<1>6. \A t \in DOMAIN ct : ct[t] \in CatalogRecs /\ t \in Threads
  BY <1>1, TableRow
<1>7. RowsAtTarget(d, job.excluded, job.events) =>
        /\ \A t \in DOMAIN th \ job.excluded :
             th[t].provider = "target" /\ (t \in job.events => th[t].event)
        /\ \A t \in DOMAIN ct \ job.excluded : ct[t].provider = "target"
  BY DEF RowsAtTarget, th, ct
<1>8. ASSUME NEW t \in DOMAIN th
      PROVE  /\ nt[t] \in ThreadRecs
             /\ nt[t].mark = th[t].mark
             /\ t \in job.excluded => nt[t] = th[t]
             /\ t \notin job.excluded => /\ nt[t].provider = "target"
                                         /\ t \in job.events => nt[t].event
             /\ RowsAtTarget(d, job.excluded, job.events) => nt[t] = th[t]
  <2>1. th[t] \in ThreadRecs
    BY <1>5
  <2>2. CASE t \in job.excluded
    <3>1. nt[t] = th[t]
      BY <1>3, <1>4, <2>2
    <3> QED
      BY <2>1, <2>2, <3>1
  <2>3. CASE t \notin job.excluded /\ t \notin job.events
    <3>1. nt[t] = moved(t)
      BY <1>3, <1>4, <2>3
    <3> HIDE DEF moved
    <3>2. moved(t) \in ThreadRecs /\ moved(t).mark = th[t].mark /\ moved(t).provider = "target"
          /\ (th[t].provider = "target" => moved(t) = th[t])
      BY <2>1, RowParts DEF moved
    <3> QED
      BY <1>7, <2>3, <3>1, <3>2
  <2>4. CASE t \notin job.excluded /\ t \in job.events
    <3>1. nt[t] = [moved(t) EXCEPT !.event = TRUE]
      BY <1>3, <1>4, <2>4
    <3> HIDE DEF moved
    <3>2. moved(t) \in ThreadRecs /\ moved(t).mark = th[t].mark /\ moved(t).provider = "target"
          /\ moved(t).event = th[t].event /\ (th[t].provider = "target" => moved(t) = th[t])
      BY <2>1, RowParts DEF moved
    <3> DEFINE m == moved(t)
    <3> HIDE DEF m
    <3>3. m \in ThreadRecs
      BY <3>2 DEF m
    <3>4. /\ [m EXCEPT !.event = TRUE] \in ThreadRecs
          /\ [m EXCEPT !.event = TRUE].mark = m.mark
          /\ [m EXCEPT !.event = TRUE].provider = m.provider
          /\ [m EXCEPT !.event = TRUE].event
          /\ m.event => [m EXCEPT !.event = TRUE] = m
      BY <3>3, RowParts
    <3>5. nt[t] = [m EXCEPT !.event = TRUE] /\ m = moved(t)
      BY <3>1 DEF m
    <3>6. /\ nt[t] \in ThreadRecs /\ nt[t].mark = th[t].mark /\ nt[t].provider = "target"
          /\ nt[t].event
      BY <3>2, <3>4, <3>5
    <3>7. RowsAtTarget(d, job.excluded, job.events) => nt[t] = th[t]
      BY <1>7, <2>4, <3>2, <3>4, <3>5
    <3> QED
      BY <2>4, <3>6, <3>7
  <2> QED
    BY <2>2, <2>3, <2>4
<1>9. ASSUME NEW t \in DOMAIN ct
      PROVE  /\ nc[t] \in CatalogRecs
             /\ nc[t].mark = ct[t].mark
             /\ t \notin job.excluded => nc[t].provider = "target"
             /\ RowsAtTarget(d, job.excluded, job.events) => nc[t] = ct[t]
  <2>1. ct[t] \in CatalogRecs
    BY <1>6
  <2>2. CASE t \in job.excluded
    BY <1>3, <2>1, <2>2
  <2>3. CASE t \notin job.excluded
    <3>1. nc[t] = [ct[t] EXCEPT !.provider = "target"]
      BY <1>3, <2>3
    <3>2. nc[t] \in CatalogRecs /\ nc[t].mark = ct[t].mark /\ nc[t].provider = "target"
          /\ (ct[t].provider = "target" => nc[t] = ct[t])
      BY <2>1, <3>1, RowParts
    <3> QED
      BY <1>7, <2>3, <3>2
  <2> QED
    BY <2>2, <2>3
<1>10. DOMAIN nt = DOMAIN th /\ DOMAIN nc = DOMAIN ct
  BY <1>3, <1>4
<1>11. IsTable(nt, ThreadRecs) /\ IsTable(nc, CatalogRecs)
  <2>1. nt \in [DOMAIN th -> ThreadRecs] /\ nc \in [DOMAIN ct -> CatalogRecs]
    BY <1>3, <1>4, <1>8, <1>9, <1>10
  <2> QED
    BY <1>5, <1>6, <1>10, <2>1 DEF IsTable
<1>12. d \notin Catalogs => nc = <<>>
  <2>1. ct = <<>> => nc = <<>>
    BY <1>3
  <2> QED
    BY <1>1, <2>1
<1>13. IsDb(Updated(d), d)
  BY <1>1, <1>2, <1>11, <1>12 DEF IsDb
<1>14. Updated(d).threads = nt /\ Updated(d).catalog = nc
       /\ Updated(d).edges = db[d].edges /\ Updated(d).jobs = db[d].jobs
  BY <1>2
<1>15. th = db[d].threads /\ ct = db[d].catalog
  BY DEF th, ct
<1> QED
  BY <1>8, <1>9, <1>10, <1>13, <1>14, <1>15

(* The transaction of the catalog repair keeps rows, or inserts those of   *)
(* the plan.                                                               *)
LEMMA RepairedFacts ==
  ASSUME IsHistory(file, db), NEW d \in Dbs, NEW plan, IsPlan(plan)
  PROVE  /\ IsDb(Repaired(d, plan), d)
         /\ Repaired(d, plan).threads = db[d].threads
         /\ Repaired(d, plan).edges = db[d].edges /\ Repaired(d, plan).jobs = db[d].jobs
         /\ \A t \in DOMAIN Repaired(d, plan).catalog :
              \/ /\ t \in DOMAIN db[d].catalog /\ (job.kind = "sync" => t \notin plan.remove[d])
                 /\ Repaired(d, plan).catalog[t] = db[d].catalog[t]
              \/ /\ t \in DOMAIN plan.insert
                 /\ Repaired(d, plan).catalog[t].provider = "target"
                 /\ Repaired(d, plan).catalog[t].mark = plan.insert[t]
         /\ d \in Catalogs => DOMAIN plan.insert \subseteq DOMAIN Repaired(d, plan).catalog
<1> DEFINE ct == db[d].catalog
           kept == DOMAIN ct \ (IF job.kind = "sync" THEN plan.remove[d] ELSE {})
           new == DOMAIN plan.insert \ kept
           nc == [t \in kept \cup new |-> IF t \in kept THEN ct[t]
                                          ELSE [provider |-> "target", mark |-> plan.insert[t]]]
<1>1. /\ db[d] = [threads |-> db[d].threads, catalog |-> ct, edges |-> db[d].edges, jobs |-> db[d].jobs]
      /\ IsTable(db[d].threads, ThreadRecs) /\ IsTable(ct, CatalogRecs)
      /\ db[d].edges \subseteq Threads /\ db[d].jobs \subseteq Threads
      /\ d \notin Catalogs => ct = <<>>
  BY DbParts
<1>2. CASE d \notin Catalogs
  <2>1. Repaired(d, plan) = db[d] /\ DOMAIN ct = {}
    BY <1>1, <1>2 DEF Repaired
  <2>2. IsDb(db[d], d)
    BY DEF IsHistory
  <2> QED
    BY <1>2, <2>1, <2>2
<1>3. CASE d \in Catalogs
  <2>1. Repaired(d, plan) = [db[d] EXCEPT !.catalog = nc]
    BY <1>3 DEF Repaired
  <2>2. Repaired(d, plan) = [threads |-> db[d].threads, catalog |-> nc,
                             edges |-> db[d].edges, jobs |-> db[d].jobs]
    <3> HIDE DEF nc
    <3> QED
      BY <1>1, <2>1
  <2>3. \A t \in DOMAIN plan.insert : plan.insert[t] \in Marks /\ t \in Threads
    BY TableRow DEF IsPlan
  <2>4. \A t \in DOMAIN ct : ct[t] \in CatalogRecs /\ t \in Threads
    BY <1>1, TableRow
  <2>5. kept \subseteq DOMAIN ct /\ new \subseteq DOMAIN plan.insert /\ DOMAIN plan.insert \subseteq kept \cup new
        /\ (job.kind = "sync" => kept \cap plan.remove[d] = {})
    OBVIOUS
  <2> HIDE DEF kept, new, ct
  <2>6. IsTable(nc, CatalogRecs)
    <3>1. ASSUME NEW t \in kept \cup new PROVE nc[t] \in CatalogRecs
      <4>1. CASE t \in kept
        BY <2>4, <2>5, <4>1
      <4>2. CASE t \notin kept
        BY <2>3, <2>5, <4>2 DEF CatalogRecs, Providers
      <4> QED
        BY <4>1, <4>2
    <3>2. kept \cup new \subseteq Threads
      BY <2>3, <2>4, <2>5
    <3> QED
      BY <3>1, <3>2 DEF IsTable
  <2>7. ASSUME NEW t \in DOMAIN nc
        PROVE  \/ /\ t \in DOMAIN ct /\ (job.kind = "sync" => t \notin plan.remove[d])
                  /\ nc[t] = ct[t]
               \/ /\ t \in DOMAIN plan.insert
                  /\ nc[t].provider = "target"
                  /\ nc[t].mark = plan.insert[t]
    <3>1. CASE t \in kept
      BY <2>5, <3>1
    <3>2. CASE t \notin kept
      <4>1. t \in new /\ nc[t] = [provider |-> "target", mark |-> plan.insert[t]]
        BY <3>2
      <4> QED
        BY <2>5, <4>1
    <3> QED
      BY <3>1, <3>2
  <2>8. DOMAIN plan.insert \subseteq DOMAIN nc
    BY <2>5
  <2> HIDE DEF nc
  <2>9. IsDb(Repaired(d, plan), d)
    BY <1>1, <1>3, <2>2, <2>6 DEF IsDb
  <2>10. Repaired(d, plan).catalog = nc /\ Repaired(d, plan).threads = db[d].threads
         /\ Repaired(d, plan).edges = db[d].edges /\ Repaired(d, plan).jobs = db[d].jobs
    BY <2>2
  <2> QED
    BY <2>7, <2>8, <2>9, <2>10 DEF ct
<1> QED
  BY <1>2, <1>3

(* The rows a repair of one thread moves are rows of the same kind.        *)
LEMMA MovedFacts ==
  ASSUME NEW rows, NEW from, NEW Recs, Recs \in {ThreadRecs, CatalogRecs}, IsTable(rows, Recs)
  PROVE  IsTable(Moved(rows, from), Recs) /\ (rows = <<>> => Moved(rows, from) = <<>>)
<1>1. Moved(rows, from) = [t \in DOMAIN rows |-> IF t \in job.who /\ rows[t].provider \in from
                            THEN [rows[t] EXCEPT !.provider = "target"] ELSE rows[t]]
  BY DEF Moved
<1>2. ASSUME NEW t \in DOMAIN rows
      PROVE  t \in Threads /\ rows[t] \in Recs /\ [rows[t] EXCEPT !.provider = "target"] \in Recs
  BY RowParts, TableRow
<1> QED
  BY <1>1, <1>2 DEF IsTable

-----------------------------------------------------------------------------
(* The plan of the catalogs.                                               *)

Fit(b, f, only) == {t \in ObservedIds(b) \cap only : Eligible(t, Observed(t, b, f), b, f)}
UsersOf(b, f, only) == {t \in ObservedIds(b) \cap only : Observed(t, b, f).mark = "user"}
Suspect(b, d) == {t \in DOMAIN b[d].catalog : NonRoot(t, b[d].catalog[t].mark, b)}

(* What the plan of the catalogs takes from a database.                    *)
LEMMA PlanRemove ==
  ASSUME NEW b, NEW f, NEW only, NEW d \in Dbs
  PROVE  CatalogPlan(b, f, only).remove[d] =
           ((ObservedIds(b) \cap only) \ Fit(b, f, only)) \cup ((Suspect(b, d) \cap only) \ UsersOf(b, f, only))
<1> DEFINE suspect == [e \in Dbs |-> Suspect(b, e)]
<1>1. CatalogPlan(b, f, only).remove =
        [e \in Dbs |-> ((ObservedIds(b) \cap only) \ Fit(b, f, only))
                         \cup ((suspect[e] \cap only) \ UsersOf(b, f, only))]
  BY DEF CatalogPlan, Fit, UsersOf, Suspect
<1> QED
  BY <1>1

(* What the plan of the catalogs enters into each of them.                 *)
LEMMA PlanInsert ==
  ASSUME NEW b, NEW f, NEW only
  PROVE  /\ DOMAIN CatalogPlan(b, f, only).insert = Fit(b, f, only)
         /\ \A t \in Fit(b, f, only) : CatalogPlan(b, f, only).insert[t] = Observed(t, b, f).mark
<1>1. CatalogPlan(b, f, only).insert = [t \in Fit(b, f, only) |-> Observed(t, b, f).mark]
  BY DEF CatalogPlan, Fit
<1> QED
  BY <1>1

(* A thread is observed in a thread row of its own, if in any.             *)
LEMMA ObservedIdsRow ==
  ASSUME NEW f, NEW b, IsHistory(f, b), NEW t \in ObservedIds(b)
  PROVE  /\ t \in Threads
         /\ \E d \in Dbs : /\ t \in DOMAIN b[d].threads /\ t \notin Filtered(d, b)
                           /\ Observed(t, b, f) = b[d].threads[t]
<1>1. Observations(t, b) # {}
  BY DEF ObservedIds
<1>2. PICK d \in Dbs : /\ t \in DOMAIN b[d].threads /\ t \notin Filtered(d, b)
                       /\ Observed(t, b, f) = b[d].threads[t]
  BY <1>1, ObservedIsRow
<1>3. t \in Threads
  BY <1>2, DbParts, TableRow
<1> QED
  BY <1>2, <1>3

(* A plan of the catalogs has the type of one.                             *)
LEMMA PlanTyped ==
  ASSUME NEW f, NEW b, IsHistory(f, b), NEW only \in SUBSET Threads
  PROVE  IsPlan(CatalogPlan(b, f, only))
<1> DEFINE suspect == [d \in Dbs |-> Suspect(b, d)]
           ins == [t \in Fit(b, f, only) |-> Observed(t, b, f).mark]
           rem == [d \in Dbs |-> ((ObservedIds(b) \cap only) \ Fit(b, f, only))
                                    \cup ((suspect[d] \cap only) \ UsersOf(b, f, only))]
<1>1. \A t \in Fit(b, f, only) : t \in Threads /\ Observed(t, b, f).mark \in Marks
  BY DEF Fit, Eligible, Marks
<1>2. IsTable(ins, Marks)
  BY <1>1 DEF IsTable
<1>3. rem \in [Dbs -> SUBSET Threads]
  OBVIOUS
<1>4. CatalogPlan(b, f, only) = [insert |-> ins, remove |-> rem]
  BY DEF CatalogPlan, Fit, UsersOf, Suspect
<1> HIDE DEF ins, rem
<1> QED
  BY <1>2, <1>3, <1>4 DEF IsPlan

(* The plan depends on the threads, edges and jobs of all databases, and   *)
(* for each database on its own catalog only.                              *)
SameThreads(b, c) ==
  \A d \in Dbs : b[d].threads = c[d].threads /\ b[d].edges = c[d].edges /\ b[d].jobs = c[d].jobs

(* The plan depends on the threads of the databases; what it removes       *)
(* depends on their catalogs too.                                          *)
LEMMA SamePlan ==
  ASSUME NEW f, NEW g, NEW b, NEW c, SameThreads(b, c), DOMAIN f = DOMAIN g, NEW only,
         IsHistory(f, b)
  PROVE  /\ ObservedIds(b) = ObservedIds(c)
         /\ Fit(b, f, only) = Fit(c, g, only) /\ UsersOf(b, f, only) = UsersOf(c, g, only)
         /\ CatalogPlan(b, f, only).insert = CatalogPlan(c, g, only).insert
         /\ \A t, mark : NonRoot(t, mark, b) <=> NonRoot(t, mark, c)
         /\ \A d \in Dbs : b[d].catalog = c[d].catalog =>
              CatalogPlan(b, f, only).remove[d] = CatalogPlan(c, g, only).remove[d]
<1>1. \A d \in Dbs : Filtered(d, b) = Filtered(d, c)
  BY DEF SameThreads, Filtered
<1>2. Spawned(b) = Spawned(c)
  BY DEF SameThreads, Spawned
<1>3. \A i \in DOMAIN Paths : Paths[i] \in Dbs
  BY DEF Dbs, Range
<1>4. \A t, mark : NonRoot(t, mark, b) <=> NonRoot(t, mark, c)
  BY <1>2 DEF NonRoot
<1>5. \A t, r : Eligible(t, r, b, f) <=> Eligible(t, r, c, g)
  BY <1>4 DEF Eligible
<1>6. ASSUME NEW t PROVE Observations(t, b) = Observations(t, c)
  BY <1>1, <1>3 DEF Observations, SameThreads
<1>7. ASSUME NEW t, NEW i \in DOMAIN Paths PROVE RowAt(i, t, b) = RowAt(i, t, c)
  BY <1>3 DEF RowAt, SameThreads
<1>8. ASSUME NEW t PROVE Newest(t, b) = Newest(t, c) /\ Newest(t, b) \subseteq DOMAIN Paths
  <2>1. Observations(t, b) \subseteq DOMAIN Paths
    BY DEF Observations
  <2> QED
    BY <1>6, <1>7, <2>1 DEF Newest
<1>10. ASSUME NEW t, Observations(t, b) # {} PROVE Observed(t, b, f) = Observed(t, c, g)
  <2> DEFINE refuse(h, k) == {i \in Newest(t, h) : ~ Eligible(t, RowAt(i, t, h), h, k)}
             choice(h, k) == IF refuse(h, k) = {} THEN Newest(t, h) ELSE refuse(h, k)
             it(h, k) == CHOOSE i \in choice(h, k) : \A j \in choice(h, k) : i <= j
  <2>1. refuse(b, f) = refuse(c, g)
    BY <1>5, <1>7, <1>8
  <2>2. choice(b, f) = choice(c, g)
    <3> HIDE DEF refuse
    <3> QED
      BY <1>8, <2>1
  <2>3. it(b, f) = it(c, g)
    <3> HIDE DEF choice
    <3> QED
      BY <2>2
  <2>4. Observed(t, b, f) = RowAt(it(b, f), t, b) /\ Observed(t, c, g) = RowAt(it(c, g), t, c)
    BY DEF Observed
  <2>5. choice(b, f) = Newest(t, b) \/ (choice(b, f) # {} /\ choice(b, f) \subseteq Newest(t, b))
    OBVIOUS
  <2>6. it(b, f) \in Observations(t, b)
    BY <1>10, <2>5, ObservedPlace
  <2> HIDE DEF it
  <2>7. it(b, f) \in DOMAIN Paths
    BY <2>6 DEF Observations
  <2> QED
    BY <1>7, <2>3, <2>4, <2>7
<1>11. ObservedIds(b) = ObservedIds(c) /\ \A t \in ObservedIds(b) : Observations(t, b) # {}
  <2>1. ASSUME NEW t PROVE t \in ObservedIds(b) <=> t \in ObservedIds(c)
    BY <1>6 DEF ObservedIds, SameThreads
  <2> QED
    BY <2>1 DEF ObservedIds
<1>12. Fit(b, f, only) = Fit(c, g, only) /\ UsersOf(b, f, only) = UsersOf(c, g, only)
  BY <1>5, <1>10, <1>11 DEF Fit, UsersOf
<1>13. CatalogPlan(b, f, only).insert = CatalogPlan(c, g, only).insert
  <2>1. \A t \in Fit(b, f, only) : Observed(t, b, f).mark = Observed(t, c, g).mark
    BY <1>10, <1>11 DEF Fit
  <2>2. [t \in Fit(b, f, only) |-> Observed(t, b, f).mark] = [t \in Fit(c, g, only) |-> Observed(t, c, g).mark]
    BY <1>12, <2>1
  <2>3. CatalogPlan(b, f, only).insert = [t \in Fit(b, f, only) |-> Observed(t, b, f).mark]
    BY DEF CatalogPlan, Fit
  <2>4. CatalogPlan(c, g, only).insert = [t \in Fit(c, g, only) |-> Observed(t, c, g).mark]
    BY DEF CatalogPlan, Fit
  <2> QED
    BY <2>2, <2>3, <2>4
<1>14. ASSUME NEW d \in Dbs, b[d].catalog = c[d].catalog
       PROVE  CatalogPlan(b, f, only).remove[d] = CatalogPlan(c, g, only).remove[d]
  <2>1. Suspect(b, d) = Suspect(c, d)
    BY <1>4, <1>14 DEF Suspect
  <2>2. CatalogPlan(b, f, only).remove[d] =
          ((ObservedIds(b) \cap only) \ Fit(b, f, only)) \cup ((Suspect(b, d) \cap only) \ UsersOf(b, f, only))
    BY PlanRemove
  <2>3. CatalogPlan(c, g, only).remove[d] =
          ((ObservedIds(c) \cap only) \ Fit(c, g, only)) \cup ((Suspect(c, d) \cap only) \ UsersOf(c, g, only))
    BY PlanRemove
  <2> QED
    BY <1>11, <1>12, <2>1, <2>2, <2>3
<1> QED
  BY <1>4, <1>11, <1>12, <1>13, <1>14

-----------------------------------------------------------------------------
(* What a step makes of the variables of the run.                          *)

SameRun == job'.kind = job.kind /\ job'.who = job.who /\ job'.quiet = job.quiet
SameTexts == job'.excluded = job.excluded /\ job'.events = job.events /\ job'.changes = job.changes
SameWork == /\ job'.todo = job.todo /\ job'.applied = job.applied
            /\ job'.skipped = job.skipped /\ job'.undo = job.undo
SameDbs == job'.paths = job.paths /\ job'.plan = job.plan /\ job'.backup = job.backup
ToStep(step) == SameRun /\ SameTexts /\ SameWork /\ SameDbs /\ job'.step = step

(* The run returns or dies.                                                *)
Ended ==
  /\ job # Idle /\ job' = Idle
  /\ UNCHANGED <<file, db, global, runs, written, start>>
  /\ backups' \subseteq backups /\ (Prune \/ backups' = backups)
  /\ answer' = "synced" => Prune \/ job.kind = "recovery"
  /\ answer' = "up to date" => UpToDate \/ job.kind = "recovery"
  /\ hit' = hit \/ (At("write") /\ hit' = hit \cup {This})
  /\ At("write") => This \in hit'
  /\ settled' \in BOOLEAN
  /\ settled' => /\ Prune \/ UpToDate
                 /\ job.kind = "sync" /\ job.quiet /\ job.skipped = {}
                 /\ Subagents(db) = Subagents(start.db)

Began(kind, who, step) ==
  /\ job = Idle /\ job' = [Idle EXCEPT !.kind = kind, !.who = who, !.step = step]
  /\ runs' = runs + 1 /\ runs < MaxRuns /\ start' = Snapshot
  /\ answer' = "none"
  /\ UNCHANGED <<file, db, global, backups, written, hit, settled>>
Begun ==
  \/ Began("sync", Threads, "kinds")
  \/ \E t \in Threads : Began("finalize", {t}, "lookup") \/ Began("recovery", {t}, "known")

(* Something writes that is not the run.                                   *)
Shaken ==
  \/ job = Idle /\ job' = Idle
  \/ /\ job'.kind = job.kind /\ job'.who = job.who /\ job'.step = job.step /\ job'.quiet = FALSE
     /\ SameTexts /\ SameWork /\ SameDbs /\ job' # Idle /\ job # Idle

CollectedFrom(L) ==
  LET ids      == {t \in L : file[t].meta # {}}
      agents   == {t \in ids : file[t].agent}
      included == ids \ (agents \cup job.excluded)
  IN  /\ L \subseteq DOMAIN file
      /\ SameRun /\ SameDbs /\ job'.step = "count"
      /\ job'.applied = job.applied /\ job'.undo = job.undo
      /\ job'.excluded = job.excluded \cup agents
      /\ job'.skipped = DOMAIN file \ L
      /\ job'.changes = [t \in included |-> [old |-> file[t], new |-> Rewritten(file[t])]]
      /\ job'.events = {t \in included : file[t].event}
      /\ job'.todo = RewriteNeeded(included)
Collects == At("collect") /\ UNCHANGED <<disk, answer, runs, history>> /\ \E L : CollectedFrom(L)

Skips ==
  /\ Opened /\ UNCHANGED <<disk, answer, runs, history>>
  /\ ~ job.undo \/ file[This] # Old(This)
  /\ SameRun /\ SameTexts /\ SameDbs /\ job'.step = "open"
  /\ job'.applied = job.applied /\ job'.undo = job.undo
  /\ job'.todo = job.todo \ {This}
  /\ job'.skipped = IF job.undo THEN job.skipped ELSE job.skipped \cup {This}

Undoes ==
  /\ job.step \in {"update", "plan", "repair", "rows", "global", "text", "copy", "copy text", "prune"}
  /\ job.kind = "sync"
  /\ UNCHANGED <<disk, answer, runs, history>>
  /\ SameRun /\ SameTexts /\ SameDbs /\ job'.step = "open"
  /\ job'.applied = job.applied /\ job'.skipped = job.skipped
  /\ job'.undo = TRUE /\ job'.todo = job.applied

Finds ==
  /\ At("lookup") /\ UNCHANGED <<disk, answer, runs, history>>
  /\ SameRun /\ SameDbs /\ job'.step = "backup"
  /\ job'.excluded = job.excluded /\ job'.events = job.events
  /\ job'.applied = job.applied /\ job'.skipped = job.skipped /\ job'.undo = job.undo
  /\ \E t \in DOMAIN file :
       /\ file[t].meta # {}
       /\ job'.changes = [u \in {t} |-> [old |-> file[t], new |-> Rewritten(file[t])]]
       /\ job'.todo = RewriteNeeded({t})

(* A job is a record of these fields, and an idle one is at no step of a   *)
(* run.                                                                    *)
LEMMA JobFields ==
  ASSUME TypeOK
  PROVE  /\ DOMAIN job = {"kind", "step", "who", "excluded", "events", "changes", "todo", "applied",
                          "skipped", "undo", "paths", "plan", "backup", "quiet"}
         /\ job.undo \in BOOLEAN /\ job.quiet \in BOOLEAN
         /\ job = Idle => job.step = "idle"
<1>1. DOMAIN job = {"kind", "step", "who", "excluded", "events", "changes", "todo", "applied",
                    "skipped", "undo", "paths", "plan", "backup", "quiet"}
      /\ job.undo \in BOOLEAN /\ job.quiet \in BOOLEAN
  BY DEF TypeOK
<1>2. job = Idle => job.step = "idle"
  BY DEF Idle
<1> QED
  BY <1>1, <1>2

(* The fields of the run's record after each of its steps.                 *)
LEMMA OwnSteps ==
  ASSUME TypeOK
  PROVE  /\ ReadKinds => /\ SameRun /\ SameWork /\ SameDbs /\ job'.step = "collect"
                         /\ job'.excluded = Subagents(db)
                         /\ job'.events = job.events /\ job'.changes = job.changes
         /\ Count => ToStep("backup")
         /\ MakeBackup => /\ SameRun /\ SameTexts /\ SameWork /\ job'.step = "marker"
                          /\ job'.paths = job.paths /\ job'.plan = job.plan /\ job'.backup = runs
         /\ MarkBackup => ToStep("open")
         /\ Open => ToStep("truncate")
         /\ Truncate => ToStep("write")
         /\ Write => ToStep("verify")
         /\ Verify => /\ SameRun /\ SameTexts /\ SameDbs /\ job'.step = "open"
                      /\ job'.skipped = job.skipped /\ job'.undo = job.undo
                      /\ job'.todo = job.todo \ {This}
                      /\ job'.applied = IF job.undo THEN job.applied ELSE job.applied \cup {This}
         /\ UpdateDb \/ RepairDb \/ MoveRows =>
              /\ SameRun /\ SameTexts /\ SameWork /\ job'.step = job.step
              /\ job'.paths = Tail(job.paths) /\ job'.plan = job.plan /\ job'.backup = job.backup
         /\ Plan => /\ SameRun /\ SameTexts /\ SameWork /\ job'.step = "repair"
                    /\ job'.paths = job.paths /\ job'.backup = job.backup
                    /\ job'.plan = CatalogPlan(db, file, job.who)
<1>1. DOMAIN job = {"kind", "step", "who", "excluded", "events", "changes", "todo", "applied",
                    "skipped", "undo", "paths", "plan", "backup", "quiet"}
  BY JobFields
<1> USE <1>1 DEF SameRun, SameTexts, SameWork, SameDbs, ToStep, Goto, NextPath
<1>2. ReadKinds => /\ SameRun /\ SameWork /\ SameDbs /\ job'.step = "collect"
                   /\ job'.excluded = Subagents(db)
                   /\ job'.events = job.events /\ job'.changes = job.changes
  BY DEF ReadKinds
<1>3. Count => ToStep("backup")
  BY DEF Count
<1>4. MakeBackup => /\ SameRun /\ SameTexts /\ SameWork /\ job'.step = "marker"
                    /\ job'.paths = job.paths /\ job'.plan = job.plan /\ job'.backup = runs
  BY DEF MakeBackup
<1>5. MarkBackup => ToStep("open")
  BY DEF MarkBackup
<1>6. (Open => ToStep("truncate")) /\ (Truncate => ToStep("write")) /\ (Write => ToStep("verify"))
  BY DEF Open, Truncate, Write
<1>7. Verify => /\ SameRun /\ SameTexts /\ SameDbs /\ job'.step = "open"
                /\ job'.skipped = job.skipped /\ job'.undo = job.undo
                /\ job'.todo = job.todo \ {This}
                /\ job'.applied = IF job.undo THEN job.applied ELSE job.applied \cup {This}
  BY DEF Verify
<1>8. UpdateDb \/ RepairDb \/ MoveRows =>
        /\ SameRun /\ SameTexts /\ SameWork /\ job'.step = job.step
        /\ job'.paths = Tail(job.paths) /\ job'.plan = job.plan /\ job'.backup = job.backup
  BY DEF UpdateDb, RepairDb, MoveRows
<1>9. Plan => /\ SameRun /\ SameTexts /\ SameWork /\ job'.step = "repair"
              /\ job'.paths = job.paths /\ job'.backup = job.backup
              /\ job'.plan = CatalogPlan(db, file, job.who)
  BY DEF Plan
<1> QED
  BY <1>2, <1>3, <1>4, <1>5, <1>6, <1>7, <1>8, <1>9

(* The steps that go on to the next phase.                                 *)
Onward(from, to) ==
  /\ At(from) /\ SameRun /\ SameTexts /\ SameWork
  /\ job'.step = to /\ job'.plan = job.plan /\ job'.backup = job.backup
  /\ UNCHANGED <<disk, answer, runs, history>>

(* A phase is over when every path of it is done, and the next one begins. *)
LEMMA PhaseSteps ==
  ASSUME TypeOK, PhaseDone
  PROVE  /\ job'.paths = Paths
         /\ \/ /\ job.todo = {} /\ ~ job.undo
               /\ Onward("open", IF job.kind = "sync" THEN "update" ELSE "match")
            \/ job.paths = <<>> /\ Onward("update", "plan")
            \/ job.paths = <<>> /\ Onward("repair", IF job.kind = "sync" THEN "global" ELSE "rows")
            \/ job.kind = "finalize" /\ Onward("rows", "prune")
<1>1. DOMAIN job = {"kind", "step", "who", "excluded", "events", "changes", "todo", "applied",
                    "skipped", "undo", "paths", "plan", "backup", "quiet"}
  BY JobFields
<1>2. ASSUME NEW step, Enter(step)
      PROVE  /\ job'.step = step /\ job'.paths = Paths /\ job'.plan = job.plan
             /\ job'.backup = job.backup /\ SameRun /\ SameTexts /\ SameWork
  BY <1>1, <1>2 DEF Enter, SameRun, SameTexts, SameWork
<1> QED
  BY <1>2 DEF PhaseDone, Onward, disk, history

(* The global state is normal already, or both its files are truncated and *)
(* written.                                                                *)
LEMMA GlobalMoves ==
  ASSUME TypeOK, NormalizeGlobal
  PROVE  /\ SameRun /\ SameTexts /\ SameWork /\ SameDbs
         /\ UNCHANGED <<file, db, backups, answer, runs, history>>
         /\ \/ At("global") /\ job'.step = "prune" /\ global' = global /\ global.main = "normal"
            \/ At("global") /\ job'.step = "text" /\ global' = [global EXCEPT !.main = "cut"]
            \/ At("text") /\ job'.step = "copy" /\ global' = [global EXCEPT !.main = "normal"]
            \/ At("copy") /\ job'.step = "copy text" /\ global' = [global EXCEPT !.bak = "cut"]
            \/ At("copy text") /\ job'.step = "prune" /\ global' = [global EXCEPT !.bak = "normal"]
<1>1. DOMAIN job = {"kind", "step", "who", "excluded", "events", "changes", "todo", "applied",
                    "skipped", "undo", "paths", "plan", "backup", "quiet"}
  BY JobFields
<1>2. ASSUME NEW step, Goto(step)
      PROVE  SameRun /\ SameTexts /\ SameWork /\ SameDbs /\ job'.step = step
  BY <1>1, <1>2 DEF Goto, SameRun, SameTexts, SameWork, SameDbs
<1> QED
  BY <1>2 DEF NormalizeGlobal

-----------------------------------------------------------------------------
(* The cases of a step.                                                    *)

(* Nothing that the run or its files depend on changes.                    *)
Still == UNCHANGED <<disk, job, answer, runs, history>>

(* Whatever starts a run starts it with nothing collected.                 *)
LEMMA BeginSteps ==
  ASSUME BeginSync \/ BeginFinalize \/ BeginRecovery
  PROVE  Begun
BY DEF BeginSync, BeginFinalize, BeginRecovery, Begin, Begun, Began, disk

(* Where the run of a kind is.                                             *)
LEMMA StepKinds ==
  ASSUME TypeOK, Phases
  PROVE  /\ At("lookup") \/ At("match") => job.kind = "finalize"
         /\ At("known") => job.kind = "recovery"
         /\ job.step \in {"kinds", "collect", "count", "update"} \cup GlobalSteps => job.kind = "sync"
         /\ At("marker") \/ At("backup") => job.kind \in {"sync", "finalize"}
         /\ job.step # "idle" => job # Idle
         /\ job.kind \in {"finalize", "recovery"} => \E t \in Threads : job.who = {t}
<1>1. job = Idle => job.step = "idle"
  BY JobFields
<1>2. job.kind \in {"none", "sync", "finalize", "recovery"}
  BY DEF TypeOK
<1>3. job.kind = "none" => job.step = "idle"
  BY <1>1 DEF Phases
<1>4. job.kind = "sync" => job.step \in SyncSteps
  BY DEF Phases
<1>5. /\ job.kind = "finalize" => job.step \in {"lookup", "backup", "marker", "match", "plan", "repair", "rows", "prune"} \cup RewriteSteps
      /\ job.kind = "recovery" => job.step \in {"known", "plan", "repair", "rows"}
  BY DEF Phases, RepairSteps
<1>6. job.kind \in {"finalize", "recovery"} => \E t \in Threads : job.who = {t}
  BY DEF Phases
<1> QED
  BY <1>1, <1>2, <1>3, <1>4, <1>5, <1>6 DEF At, SyncSteps, RewriteSteps, GlobalSteps

(* Every way out of a run leaves it idle and the history as it is.         *)
LEMMA Endings ==
  ASSUME TypeOK, Phases
  PROVE  /\ CountFails \/ UpToDate \/ BackupFails \/ VerifyFails \/ OpenFails \/ Restored
              \/ WriteFails \/ Prune \/ RecoveryDone \/ Crash => Ended
         /\ At("lookup") \/ At("match") \/ At("known") =>
              \A result \in {"ignored", "deferred", "up to date"} :
                Return(result) /\ UNCHANGED <<disk, runs>> /\ (result = "up to date" => At("known")) => Ended
         /\ job.kind # "sync" /\ job # Idle /\ ~ At("write") /\ Return("failed") /\ UNCHANGED <<disk, runs>> => Ended
<1> USE DEF Return, At, disk
<1>1. job.step # "idle" => job # Idle
  BY StepKinds
<1>2. CASE CountFails
  BY <1>1, <1>2 DEF CountFails, Ended
<1>3. CASE UpToDate
  <2>1. job # Idle /\ ~ At("write") /\ job' = Idle
    BY <1>1, <1>3 DEF UpToDate
  <2>2. /\ UNCHANGED <<file, db, global, runs, written, start, hit, backups>>
    BY <1>3 DEF UpToDate
  <2>3. /\ settled' = (job.kind = "sync" /\ job.quiet /\ job.skipped = {} /\ Subagents(db) = Subagents(start.db))
        /\ answer' = "up to date"
    BY <1>3 DEF UpToDate
  <2> QED
    BY <1>3, <2>1, <2>2, <2>3 DEF Ended
<1>4. CASE BackupFails
  BY <1>1, <1>4 DEF BackupFails, Ended
<1>5. CASE VerifyFails
  BY <1>1, <1>5 DEF VerifyFails, Ended
<1>6. CASE OpenFails
  BY <1>1, <1>6 DEF OpenFails, Opened, Ended
<1>7. CASE Restored
  BY <1>1, <1>7 DEF Restored, Ended
<1>8. CASE WriteFails
  BY <1>1, <1>8 DEF WriteFails, Ended
<1>9. CASE Prune
  <2>1. job # Idle /\ ~ At("write") /\ job' = Idle /\ backups' \subseteq backups
    BY <1>1, <1>9 DEF Prune
  <2>2. UNCHANGED <<file, db, global, runs, written, start, hit>>
    BY <1>9 DEF Prune
  <2>3. /\ settled' = (job.kind = "sync" /\ job.quiet /\ job.skipped = {} /\ Subagents(db) = Subagents(start.db))
        /\ answer' = "synced"
    BY <1>9 DEF Prune
  <2> QED
    BY <1>9, <2>1, <2>2, <2>3 DEF Ended
<1>10. CASE RecoveryDone
  BY <1>1, <1>10 DEF RecoveryDone, Ended
<1>11. CASE Crash
  BY <1>1, <1>11 DEF Crash, Ended
<1>12. ASSUME At("lookup") \/ At("match") \/ At("known"), NEW result \in {"ignored", "deferred", "up to date"},
              Return(result), UNCHANGED <<disk, runs>>, result = "up to date" => At("known")
       PROVE  Ended
  <2>1. job.kind # "sync" /\ job # Idle /\ (At("known") => job.kind = "recovery")
    BY <1>12, StepKinds
  <2> QED
    BY <1>12, <2>1 DEF Ended
<1>13. ASSUME job.kind # "sync", job # Idle, ~ At("write"), Return("failed"), UNCHANGED <<disk, runs>>
       PROVE  Ended
  BY <1>13 DEF Ended
<1> QED
  BY <1>2, <1>3, <1>4, <1>5, <1>6, <1>7, <1>8, <1>9, <1>10, <1>11, <1>12, <1>13

(* What the steps that may end a run do when they do not.                  *)
LEMMA Turns ==
  ASSUME TypeOK, Phases
  PROVE  /\ LaterStepFails => Ended \/ Undoes
         /\ LookUp => Ended \/ Finds
         /\ Match => Ended \/ (At("match") /\ ToStep("plan") /\ UNCHANGED <<disk, answer, runs, history>>)
         /\ Known => Ended \/ (job'.paths = Paths /\ Onward("known", "plan"))
         /\ Collect \/ CollectLocked => Collects
         /\ OpenChanged \/ OpenLocked => Skips
<1>1. DOMAIN job = {"kind", "step", "who", "excluded", "events", "changes", "todo", "applied",
                    "skipped", "undo", "paths", "plan", "backup", "quiet"}
  BY JobFields
<1>2. ASSUME LaterStepFails PROVE Ended \/ Undoes
  <2>1. CASE job.kind = "sync"
    BY <1>1, <1>2, <2>1 DEF LaterStepFails, Undoes, SameRun, SameTexts, SameDbs, disk, history
  <2>2. CASE job.kind # "sync"
    BY <1>2, <2>2, Endings, StepKinds DEF LaterStepFails, At
  <2> QED
    BY <2>1, <2>2
<1>3. ASSUME LookUp PROVE Ended \/ Finds
  <2>1. PICK t \in Threads : job.who = {t}
    BY <1>3, StepKinds DEF LookUp
  <2>2. CASE Lookup(t) = "ready"
    <3>1. t \in DOMAIN file /\ file[t].meta # {}
      BY <2>2 DEF Lookup, RolloutReady
    <3>2. At("lookup") /\ UNCHANGED <<disk, answer, runs, history>>
      BY <1>3, <2>1, <2>2 DEF LookUp
    <3>3. job' = [job EXCEPT
                !.step = "backup",
                !.changes = [u \in {t} |-> [old |-> file[t], new |-> Rewritten(file[t])]],
                !.todo = RewriteNeeded({t})]
      BY <1>3, <2>1, <2>2 DEF LookUp
    <3> QED
      BY <1>1, <3>1, <3>2, <3>3 DEF Finds, SameRun, SameDbs
  <2>3. CASE Lookup(t) # "ready"
    <3>1. At("lookup") /\ Return(Lookup(t)) /\ UNCHANGED <<disk, runs>>
      BY <1>3, <2>1, <2>3 DEF LookUp
    <3>2. Lookup(t) \in {"ignored", "deferred"}
      BY <2>3 DEF Lookup
    <3> QED
      BY <3>1, <3>2, Endings
  <2> QED
    BY <2>2, <2>3
<1>4. ASSUME Match
      PROVE  Ended \/ (At("match") /\ ToStep("plan") /\ UNCHANGED <<disk, answer, runs, history>>)
  <2>1. PICK t \in Threads : job.who = {t}
    BY <1>4, StepKinds DEF Match
  <2>2. At("match") /\ UNCHANGED <<disk, runs>>
    BY <1>4 DEF Match
  <2>3. (Goto("plan") /\ UNCHANGED <<answer, history>>) \/ Return("deferred")
    BY <1>4, <2>1 DEF Match
  <2>4. Goto("plan") => ToStep("plan")
    BY <1>1 DEF Goto, ToStep, SameRun, SameTexts, SameWork, SameDbs
  <2> QED
    BY <2>2, <2>3, <2>4, Endings
<1>5. ASSUME Known PROVE Ended \/ (job'.paths = Paths /\ Onward("known", "plan"))
  <2>1. PICK t \in Threads : job.who = {t}
    BY <1>5, StepKinds DEF Known
  <2>2. At("known") /\ UNCHANGED <<disk, runs>>
    BY <1>5 DEF Known
  <2>3. (Enter("plan") /\ UNCHANGED <<answer, history>>) \/ Return("up to date")
    BY <1>5, <2>1 DEF Known
  <2>4. Enter("plan") => /\ job'.paths = Paths /\ SameRun /\ SameTexts /\ SameWork
                         /\ job'.step = "plan" /\ job'.plan = job.plan /\ job'.backup = job.backup
    BY <1>1 DEF Enter, SameRun, SameTexts, SameWork
  <2> QED
    BY <2>2, <2>3, <2>4, Endings DEF Onward
<1>6. ASSUME NEW L, L \subseteq DOMAIN file,
             LET ids    == {t \in L : file[t].meta # {}}
                 agents == {t \in ids : file[t].agent}
             IN  CollectReads(L, agents, ids \ (agents \cup job.excluded))
      PROVE  CollectedFrom(L)
  BY <1>1, <1>6 DEF CollectReads, CollectedFrom, SameRun, SameDbs
<1>7. Collect => Collects
  <2>1. Collect => CollectedFrom(DOMAIN file)
    BY <1>6 DEF Collect
  <2> QED
    BY <2>1 DEF Collect, Collects
<1>8. CollectLocked => Collects
  <2>1. ASSUME CollectLocked PROVE \E t \in DOMAIN file : CollectedFrom(DOMAIN file \ {t})
    BY <1>6, <2>1 DEF CollectLocked
  <2> QED
    BY <2>1 DEF CollectLocked, Collects
<1>9. OpenChanged \/ OpenLocked => Skips
  BY ZenonT(60), <1>1 DEF OpenChanged, OpenLocked, Skips, Opened, At, SameRun, SameTexts, SameDbs
<1> QED
  BY <1>2, <1>3, <1>4, <1>5, <1>7, <1>8, <1>9

(* Codex writes the history and leaves the run and its backups alone.      *)
LEMMA CodexSteps ==
  ASSUME TypeOK, CodexAppends \/ CodexArchives \/ CodexSavesGlobal
  PROVE  /\ Shaken /\ settled' = FALSE /\ UNCHANGED <<backups, answer, runs, start>>
         /\ CodexAppends => UNCHANGED <<db, global>>
         /\ CodexArchives => UNCHANGED <<file, global, written, hit>>
         /\ CodexSavesGlobal => UNCHANGED <<file, db, written, hit>>
<1>1. DOMAIN job = {"kind", "step", "who", "excluded", "events", "changes", "todo", "applied",
                    "skipped", "undo", "paths", "plan", "backup", "quiet"}
  BY JobFields
<1>2. Disturbed
  BY DEF CodexAppends, CodexArchives, CodexSavesGlobal
<1>3. Shaken
  <2>1. CASE job = Idle
    BY <1>2, <2>1 DEF Disturbed, Shaken
  <2>2. CASE job # Idle
    <3>1. job' = [job EXCEPT !.quiet = FALSE]
      BY <1>2, <2>2 DEF Disturbed
    <3>2. job'.quiet = FALSE
      BY <1>1, <3>1
    <3>3. Idle.quiet = TRUE
      BY DEF Idle
    <3> QED
      BY <1>1, <2>2, <3>1, <3>2, <3>3 DEF Shaken, SameTexts, SameWork, SameDbs
  <2> QED
    BY <2>1, <2>2
<1> QED
  BY <1>3 DEF CodexAppends, CodexArchives, CodexSavesGlobal

(* What the invariants have to be shown for.                               *)
LEMMA StepCases ==
  ASSUME TypeOK, Phases, [Next]_vars
  PROVE  \/ Still \/ Begun \/ Ended
         \/ CodexAppends \/ CodexArchives \/ CodexSavesGlobal
         \/ ReadKinds \/ Collects \/ Count
         \/ MakeBackup \/ MarkBackup
         \/ Open \/ Skips \/ Truncate \/ Write \/ Verify
         \/ PhaseDone \/ UpdateDb \/ Plan \/ RepairDb \/ MoveRows \/ NormalizeGlobal \/ Undoes
         \/ Finds
         \/ At("match") /\ ToStep("plan") /\ UNCHANGED <<disk, answer, runs, history>>
         \/ job'.paths = Paths /\ Onward("known", "plan")
<1>1. CASE UNCHANGED vars
  BY <1>1 DEF vars, Still, disk, history
<1>2. CASE CodexStartsOrStops
  BY <1>2 DEF CodexStartsOrStops, Still
<1> QED
  BY <1>1, <1>2, BeginSteps, Endings, Turns DEF Next

-----------------------------------------------------------------------------
(* The phases of a run.                                                    *)

(* The databases to come, each once.                                       *)
LEMMA PathsToCome ==
  ASSUME NEW s \in Seq(Dbs), \A i, j \in DOMAIN s : s[i] = s[j] => i = j, s # <<>>
  PROVE  /\ Head(s) \in Dbs /\ Tail(s) \in Seq(Dbs)
         /\ \A i, j \in DOMAIN Tail(s) : Tail(s)[i] = Tail(s)[j] => i = j
         /\ Head(s) \in Range(s) /\ Head(s) \notin Range(Tail(s))
         /\ \A d \in Range(s) : d = Head(s) \/ d \in Range(Tail(s))
         /\ \A d \in Range(Tail(s)) : d \in Range(s)
<1>1. /\ Len(s) \in Nat /\ Len(s) # 0 /\ DOMAIN s = 1..Len(s)
      /\ Tail(s) \in Seq(Dbs) /\ Len(Tail(s)) = Len(s) - 1 /\ DOMAIN Tail(s) = 1..(Len(s) - 1)
      /\ \A i \in 1..(Len(s) - 1) : Tail(s)[i] = s[i + 1]
      /\ Head(s) = s[1] /\ 1 \in DOMAIN s
  OBVIOUS
<1>2. Head(s) \in Dbs /\ Head(s) \in Range(s)
  BY <1>1 DEF Range
<1>3. ASSUME NEW i \in DOMAIN Tail(s), NEW j \in DOMAIN Tail(s), Tail(s)[i] = Tail(s)[j]
      PROVE  i = j
  <2>1. i + 1 \in DOMAIN s /\ j + 1 \in DOMAIN s /\ s[i + 1] = s[j + 1]
    BY <1>1, <1>3
  <2>2. i + 1 = j + 1
    BY <2>1
  <2> QED
    BY <1>1, <2>2
<1>4. ASSUME Head(s) \in Range(Tail(s)) PROVE FALSE
  <2>1. PICK i \in DOMAIN Tail(s) : Tail(s)[i] = Head(s)
    BY <1>4 DEF Range
  <2>2. i + 1 \in DOMAIN s /\ s[i + 1] = s[1]
    BY <1>1, <2>1
  <2>3. i + 1 = 1
    BY <1>1, <2>2
  <2> QED
    BY <1>1, <2>3
<1>5. ASSUME NEW d \in Range(s) PROVE d = Head(s) \/ d \in Range(Tail(s))
  <2>1. PICK i \in DOMAIN s : s[i] = d
    BY DEF Range
  <2>2. CASE i = 1
    BY <1>1, <2>1, <2>2
  <2>3. CASE i # 1
    <3>1. i - 1 \in DOMAIN Tail(s) /\ Tail(s)[i - 1] = d
      BY <1>1, <2>1, <2>3
    <3> QED
      BY <3>1 DEF Range
  <2> QED
    BY <2>2, <2>3
<1>6. ASSUME NEW d \in Range(Tail(s)) PROVE d \in Range(s)
  <2>1. PICK i \in DOMAIN Tail(s) : Tail(s)[i] = d
    BY DEF Range
  <2>2. i + 1 \in DOMAIN s /\ s[i + 1] = d
    BY <1>1, <2>1
  <2> QED
    BY <2>2 DEF Range
<1> QED
  BY <1>1, <1>2, <1>3, <1>4, <1>5, <1>6

(* Every step keeps what each phase says of the job.                       *)
LEMMA PhasesHold ==
  ASSUME TypeOK, Phases, [Next]_vars
  PROVE  Phases'
<1> USE DEF At
<1> DEFINE Once(s) == \A i, j \in DOMAIN s : s[i] = s[j] => i = j
<1>p. job.paths \in Seq(Dbs)
  BY DEF TypeOK
<1>q. Once(<<>>) /\ Once(Paths)
  BY PathsAssumption
<1>k. job.kind \in {"none", "sync", "finalize", "recovery"} /\ job.undo \in BOOLEAN
  BY DEF TypeOK
<1>o. Once(job.paths)
  BY DEF Phases
<1> DEFINE Fields(j, a) ==
  /\ j.kind = "none" => j = Idle
  /\ j.kind = "sync" => j.step \in SyncSteps /\ j.who = Threads
  /\ j.kind \in {"finalize", "recovery"} => j.step \in RepairSteps(j.kind) /\ \E t \in Threads : j.who = {t}
  /\ j # Idle => a = "none"
  /\ j.undo => j.kind = "sync" /\ j.step \in RewriteSteps
  /\ j.step \in {"truncate", "write", "verify"} => j.todo # {}
  /\ j.step \notin {"count", "backup", "marker"} \cup RewriteSteps => j.todo = {}
  /\ j.step \in {"kinds", "collect", "lookup", "known"} => j.changes = <<>>
  /\ j.step \in {"count", "backup", "marker"} => j.applied = {}
  /\ j.undo => j.todo \subseteq j.applied
  /\ ~ j.undo => j.todo \cap j.applied = {}
  /\ j.todo \cup j.applied \subseteq DOMAIN j.changes
  /\ j.step \in {"match", "plan"} => j.paths = Paths
<1>f. Fields(job, answer)
  BY DEF Phases, Rewriting
<1>g. Fields(job', answer') /\ Once(job'.paths) => Phases'
  BY DEF Phases, Rewriting
<1>i. Fields(Idle, answer') /\ Once(Idle.paths)
  BY <1>q DEF Idle, RewriteSteps
<1>r. /\ SyncSteps = {"kinds", "collect", "count", "backup", "marker", "update", "plan", "repair", "prune",
                      "open", "truncate", "write", "verify", "global", "text", "copy", "copy text"}
      /\ RepairSteps("recovery") = {"known", "plan", "repair", "rows"}
      /\ RepairSteps("finalize") = {"lookup", "backup", "marker", "match", "plan", "repair", "rows", "prune",
                                    "open", "truncate", "write", "verify"}
      /\ RewriteSteps = {"open", "truncate", "write", "verify"}
  BY DEF SyncSteps, RepairSteps, RewriteSteps, GlobalSteps
<1> HIDE DEF Fields, Once
<1>0. CASE Still
  <2>1. Fields(job', answer') /\ job' = job
    BY <1>0, <1>f DEF Still
  <2> QED
    BY <1>g, <1>o, <2>1
<1>1. CASE Begun
  <2>1. ASSUME NEW kind, NEW who, NEW step, Began(kind, who, step)
        PROVE  /\ job'.kind = kind /\ job'.who = who /\ job'.step = step /\ ~ job'.undo
               /\ job'.todo = {} /\ job'.applied = {} /\ job'.changes = <<>> /\ job'.paths = <<>>
               /\ answer' = "none"
    BY <2>1 DEF Began, Idle
  <2>2. Once(job'.paths)
    BY <1>1, <1>q, <2>1 DEF Begun
  <2>3. CASE Began("sync", Threads, "kinds")
    <3>1. /\ job'.kind = "sync" /\ job'.who = Threads /\ job'.step = "kinds" /\ ~ job'.undo
          /\ job'.todo = {} /\ job'.applied = {} /\ job'.changes = <<>> /\ answer' = "none"
      BY <2>1, <2>3
    <3>2. Fields(job', answer')
      BY <1>r, <3>1 DEF Fields
    <3> QED
      BY <1>g, <2>2, <3>2
  <2>4. ASSUME NEW t \in Threads, Began("finalize", {t}, "lookup") PROVE Phases'
    <3>1. /\ job'.kind = "finalize" /\ job'.who = {t} /\ job'.step = "lookup" /\ ~ job'.undo
          /\ job'.todo = {} /\ job'.applied = {} /\ job'.changes = <<>> /\ answer' = "none"
      BY <2>1, <2>4
    <3>2. Fields(job', answer')
      BY <1>r, <3>1 DEF Fields
    <3> QED
      BY <1>g, <2>2, <3>2
  <2>5. ASSUME NEW t \in Threads, Began("recovery", {t}, "known") PROVE Phases'
    <3>1. /\ job'.kind = "recovery" /\ job'.who = {t} /\ job'.step = "known" /\ ~ job'.undo
          /\ job'.todo = {} /\ job'.applied = {} /\ job'.changes = <<>> /\ answer' = "none"
      BY <2>1, <2>5
    <3>2. Fields(job', answer')
      BY <1>r, <3>1 DEF Fields
    <3> QED
      BY <1>g, <2>2, <3>2
  <2> QED
    BY <1>1, <2>3, <2>4, <2>5 DEF Begun
<1>2. CASE Ended
  BY <1>2, <1>g, <1>i DEF Ended
<1>3. CASE CodexAppends \/ CodexArchives \/ CodexSavesGlobal
  <2>1. Shaken /\ answer' = answer
    BY <1>3, CodexSteps
  <2>2. CASE job = Idle /\ job' = Idle
    BY <2>2, <1>g, <1>i
  <2>3. CASE job # Idle /\ job' # Idle
    <3>1. Fields(job', answer')
      BY <2>1, <2>3, <1>f DEF Shaken, SameTexts, SameWork, SameDbs, Fields
    <3>2. job'.paths = job.paths
      BY <2>1, <2>3 DEF Shaken, SameDbs
    <3> QED
      BY <1>g, <1>o, <3>1, <3>2
  <2> QED
    BY <2>1, <2>2, <2>3 DEF Shaken
<1> USE DEF SameRun, SameTexts, SameWork, SameDbs, ToStep
<1>4. ASSUME job'.paths = job.paths, Fields(job', answer') PROVE Phases'
  BY <1>4, <1>g, <1>o
<1>5. ASSUME SameRun, job'.step # "idle", job # Idle PROVE job' # Idle /\ job.kind # "none"
  BY <1>5, <1>f DEF Fields, Idle
<1>6. CASE ReadKinds
  <2>1. /\ SameRun /\ SameWork /\ SameDbs /\ job'.step = "collect" /\ job'.changes = job.changes
        /\ job.step = "kinds" /\ answer' = answer
    BY <1>6, OwnSteps DEF ReadKinds
  <2> QED
    BY <2>1, <1>4, <1>5, <1>f, <1>r, StepKinds DEF Fields
<1>7. CASE Collects
  <2>1. PICK L : CollectedFrom(L)
    BY <1>7 DEF Collects
  <2>2. /\ SameRun /\ SameDbs /\ job'.step = "count" /\ job'.applied = job.applied /\ job'.undo = job.undo
        /\ job.step = "collect" /\ answer' = answer
        /\ job'.todo \subseteq DOMAIN job'.changes
    BY <1>7, <2>1 DEF Collects, CollectedFrom, RewriteNeeded
  <2>3. job.applied = {} /\ ~ job.undo
    <3>1. job.applied \subseteq DOMAIN job.changes /\ job.changes = <<>>
      BY <2>2, <1>f DEF Fields
    <3>2. ~ job.undo
      BY <2>2, <1>f, <1>r DEF Fields
    <3> QED
      BY <3>1, <3>2
  <2> QED
    BY <2>2, <2>3, <1>4, <1>5, <1>f, <1>r, StepKinds DEF Fields
<1>8. CASE Count
  <2>1. ToStep("backup") /\ job.step = "count" /\ answer' = answer
    BY <1>8, OwnSteps DEF Count
  <2> QED
    BY <2>1, <1>4, <1>5, <1>f, <1>r, StepKinds DEF Fields
<1>9. CASE MakeBackup
  <2>1. /\ SameRun /\ SameTexts /\ SameWork /\ job'.step = "marker" /\ job'.paths = job.paths
        /\ job.step = "backup" /\ answer' = answer
    BY <1>9, OwnSteps DEF MakeBackup
  <2> QED
    BY <2>1, <1>4, <1>5, <1>f, <1>r, StepKinds DEF Fields
<1>10. CASE MarkBackup
  <2>1. ToStep("open") /\ job.step = "marker" /\ answer' = answer
    BY <1>10, OwnSteps DEF MarkBackup
  <2> QED
    BY <2>1, <1>4, <1>5, <1>f, <1>r, StepKinds DEF Fields
<1>11. CASE Open
  <2>1. ToStep("truncate") /\ job.step = "open" /\ answer' = answer /\ job.todo # {}
    BY <1>11, OwnSteps DEF Open, Opened
  <2> QED
    BY ZenonT(60), <2>1, <1>4, <1>5, <1>f, <1>r, StepKinds DEF Fields
<1>12. CASE Skips
  <2>1. /\ job'.step = "open" /\ job.step = "open" /\ answer' = answer /\ SameRun /\ SameTexts /\ SameDbs
        /\ job'.applied = job.applied /\ job'.undo = job.undo /\ job'.todo \subseteq job.todo
    BY <1>12 DEF Skips, Opened
  <2> QED
    BY ZenonT(60), <2>1, <1>4, <1>5, <1>f, <1>r, StepKinds DEF Fields
<1>13. CASE Truncate
  <2>1. ToStep("write") /\ job.step = "truncate" /\ answer' = answer
    BY <1>13, OwnSteps DEF Truncate
  <2> QED
    BY ZenonT(60), <2>1, <1>4, <1>5, <1>f, <1>r, StepKinds DEF Fields
<1>14. CASE Write
  <2>1. ToStep("verify") /\ job.step = "write" /\ answer' = answer
    BY <1>14, OwnSteps DEF Write
  <2> QED
    BY ZenonT(60), <2>1, <1>4, <1>5, <1>f, <1>r, StepKinds DEF Fields
<1>15. CASE Verify
  <2>1. /\ job'.step = "open" /\ job.step = "verify" /\ answer' = answer /\ SameRun /\ SameTexts /\ SameDbs
        /\ job'.undo = job.undo /\ job'.todo = job.todo \ {This}
        /\ job'.applied = IF job.undo THEN job.applied ELSE job.applied \cup {This}
    BY <1>15, OwnSteps DEF Verify
  <2>2. This \in job.todo
    BY <2>1, <1>f, FirstIn DEF Fields, This, TypeOK
  <2> QED
    BY ZenonT(60), <2>1, <2>2, <1>4, <1>5, <1>f, <1>r, StepKinds DEF Fields
<1>16. CASE PhaseDone
  <2>1. PICK from, to :
          /\ Onward(from, to) /\ job'.paths = Paths
          /\ \/ from = "open" /\ job.todo = {} /\ job.undo = FALSE
                  /\ to = IF job.kind = "sync" THEN "update" ELSE "match"
             \/ from = "update" /\ to = "plan"
             \/ from = "repair" /\ to = IF job.kind = "sync" THEN "global" ELSE "rows"
             \/ from = "rows" /\ job.kind = "finalize" /\ to = "prune"
    BY <1>16, <1>k, PhaseSteps
  <2>2. /\ SameRun /\ SameTexts /\ SameWork /\ job.step = from /\ job'.step = to /\ answer' = answer
    BY <2>1 DEF Onward
  <2>3. Fields(job', answer')
    BY ZenonT(60), <2>1, <2>2, <1>5, <1>f, <1>k, <1>r, StepKinds DEF Fields
  <2> QED
    BY <1>g, <1>q, <2>1, <2>3
<1>17. CASE UpdateDb \/ RepairDb \/ MoveRows
  <2>1. /\ SameRun /\ SameTexts /\ SameWork /\ job'.step = job.step /\ job'.paths = Tail(job.paths)
        /\ answer' = answer /\ job.paths # <<>> /\ job.step \in {"update", "repair", "rows"}
    BY <1>17, OwnSteps DEF UpdateDb, RepairDb, MoveRows
  <2>2. Once(job'.paths)
    BY <2>1, <1>o, <1>p, PathsToCome DEF Once
  <2>3. Fields(job', answer')
    BY ZenonT(60), <2>1, <1>5, <1>f, <1>r, StepKinds DEF Fields
  <2> QED
    BY <1>g, <2>2, <2>3
<1>18. CASE Plan
  <2>1. /\ SameRun /\ SameTexts /\ SameWork /\ job'.step = "repair" /\ job'.paths = job.paths
        /\ job.step = "plan" /\ answer' = answer
    BY <1>18, OwnSteps DEF Plan
  <2> QED
    BY <2>1, <1>4, <1>5, <1>f, <1>r, <1>k, StepKinds DEF Fields
<1>19. CASE NormalizeGlobal
  <2>1. /\ SameRun /\ SameTexts /\ SameWork /\ SameDbs
        /\ job'.step \in {"prune", "text", "copy", "copy text"} /\ answer' = answer
        /\ job.step \in {"global", "text", "copy", "copy text"}
    BY <1>19, GlobalMoves
  <2>2. job.kind = "sync"
    BY <2>1, StepKinds DEF GlobalSteps
  <2> QED
    BY <2>1, <2>2, <1>4, <1>5, <1>f, <1>r, StepKinds DEF Fields
<1>20. CASE Undoes
  <2>1. /\ SameRun /\ SameTexts /\ SameDbs /\ job'.step = "open" /\ job.kind = "sync"
        /\ job'.undo = TRUE /\ job'.todo = job.applied /\ job'.applied = job.applied /\ answer' = answer
        /\ job.step # "idle"
    BY <1>20 DEF Undoes
  <2> QED
    BY <2>1, <1>4, <1>5, <1>f, <1>r, StepKinds DEF Fields
<1>21. CASE Finds
  <2>1. PICK t \in DOMAIN file :
           /\ job'.changes = [u \in {t} |-> [old |-> file[t], new |-> Rewritten(file[t])]]
           /\ job'.todo = RewriteNeeded({t})
    BY <1>21 DEF Finds
  <2>2. /\ SameRun /\ SameDbs /\ job'.step = "backup" /\ job'.applied = job.applied /\ job'.undo = job.undo
        /\ job.step = "lookup" /\ answer' = answer
        /\ job'.todo \subseteq DOMAIN job'.changes
    BY <1>21, <2>1 DEF Finds, RewriteNeeded
  <2>3. job.applied = {} /\ ~ job.undo
    <3>1. job.applied \subseteq DOMAIN job.changes /\ job.changes = <<>>
      BY <2>2, <1>f DEF Fields
    <3>2. ~ job.undo
      BY <2>2, <1>f, <1>r DEF Fields
    <3> QED
      BY <3>1, <3>2
  <2> QED
    BY <2>2, <2>3, <1>4, <1>5, <1>f, <1>r, StepKinds DEF Fields
<1>22. CASE At("match") /\ ToStep("plan") /\ UNCHANGED <<disk, answer, runs, history>>
  BY <1>22, <1>4, <1>5, <1>f, <1>r, StepKinds DEF Fields
<1>23. CASE job'.paths = Paths /\ Onward("known", "plan")
  <2>1. /\ SameRun /\ SameTexts /\ SameWork /\ job.step = "known" /\ job'.step = "plan" /\ answer' = answer
    BY <1>23 DEF Onward
  <2>2. Fields(job', answer')
    BY <1>23, <2>1, <1>5, <1>f, <1>r, StepKinds DEF Fields
  <2> QED
    BY <1>23, <1>g, <1>q, <2>2
<1> QED
  BY <1>0, <1>1, <1>2, <1>3, <1>6, <1>7, <1>8, <1>9, <1>10, <1>11, <1>12, <1>13, <1>14, <1>15, <1>16,
     <1>17, <1>18, <1>19, <1>20, <1>21, <1>22, <1>23, StepCases

-----------------------------------------------------------------------------
(* What a step makes of one file and of one database.                      *)

(* A file replaced by another text, a database by another database.        *)
LEMMA TextReplaced ==
  ASSUME NEW f, NEW b, IsHistory(f, b), NEW t \in DOMAIN f, NEW text \in Texts,
         text.agent => text.meta # {}
  PROVE  IsHistory([f EXCEPT ![t] = text], b)
<1> DEFINE g == [f EXCEPT ![t] = text]
<1>1. IsTable(f, Texts) /\ \A u \in DOMAIN f : f[u].agent => f[u].meta # {}
  BY DEF IsHistory
<1>2. /\ DOMAIN g = DOMAIN f /\ g \in [DOMAIN f -> Texts]
      /\ \A u \in DOMAIN f : g[u] = IF u = t THEN text ELSE f[u]
  BY <1>1 DEF IsTable
<1> HIDE DEF g
<1>3. IsTable(g, Texts) /\ \A u \in DOMAIN g : g[u].agent => g[u].meta # {}
  BY <1>1, <1>2 DEF IsTable
<1>4. IsHistory(g, b)
  BY <1>3 DEF IsHistory
<1> QED
  BY <1>4 DEF g

(* A history with one database replaced by another is a history.           *)
LEMMA DbReplaced ==
  ASSUME NEW f, NEW b, IsHistory(f, b), NEW d \in Dbs, NEW x, IsDb(x, d),
         NEW c, c \in [Dbs -> Range(c)], \A e \in Dbs : c[e] = IF e = d THEN x ELSE b[e]
  PROVE  IsHistory(f, c)
<1>1. \A e \in Dbs : IsDb(b[e], e)
  BY DEF IsHistory
<1>2. \A e \in Dbs : IsDb(c[e], e)
  BY <1>1
<1> QED
  BY <1>2 DEF IsHistory

(* What a step may do to one database.                                     *)
DbStep(d, x) ==
  /\ d \in Dbs /\ IsDb(x, d) /\ IsHistory(file, db')
  /\ \A e \in Dbs : db'[e] = IF e = d THEN x ELSE db[e]

(* Each write of a database is one transaction on one of them.             *)
LEMMA DbSteps ==
  ASSUME TypeOK, Phases
  PROVE  /\ UpdateDb => DbStep(Path, Updated(Path))
         /\ RepairDb => DbStep(Path, Repaired(Path, job.plan))
         /\ MoveRows => DbStep(Path, MovedDb(Path))
<1>1. IsHistory(file, db) /\ job.paths \in Seq(Dbs)
  BY DEF TypeOK
<1>2. job.paths # <<>> => Path \in Dbs
  BY <1>1 DEF Path
<1>6. db \in [Dbs -> Range(db)]
  BY <1>1 DEF IsHistory
<1>3. ASSUME UpdateDb PROVE DbStep(Path, Updated(Path))
  <2>1. IsDb(Updated(Path), Path) /\ Path \in Dbs
    BY <1>1, <1>2, <1>3, UpdatedFacts DEF UpdateDb
  <2>2. /\ \A e \in Dbs : db'[e] = IF e = Path THEN Updated(Path) ELSE db[e]
        /\ db' \in [Dbs -> Range(db')]
    BY <1>3, <1>6, <2>1 DEF UpdateDb, Range
  <2> QED
    BY <1>1, <2>1, <2>2, DbReplaced DEF DbStep
<1>4. ASSUME RepairDb PROVE DbStep(Path, Repaired(Path, job.plan))
  <2>1. IsPlan(job.plan)
    BY <1>4 DEF RepairDb, TypeOK
  <2>2. IsDb(Repaired(Path, job.plan), Path) /\ Path \in Dbs
    BY <1>1, <1>2, <1>4, <2>1, RepairedFacts DEF RepairDb
  <2>3. /\ \A e \in Dbs : db'[e] = IF e = Path THEN Repaired(Path, job.plan) ELSE db[e]
        /\ db' \in [Dbs -> Range(db')]
    BY <1>4, <1>6, <2>2 DEF RepairDb, Range
  <2> QED
    BY <1>1, <2>2, <2>3, DbReplaced DEF DbStep
<1>5. ASSUME MoveRows PROVE DbStep(Path, MovedDb(Path))
  <2> DEFINE th == db[Path].threads
             ct == db[Path].catalog
  <2>1. Path \in Dbs
    BY <1>2, <1>5 DEF MoveRows
  <2>2. /\ db[Path] = [threads |-> th, catalog |-> ct, edges |-> db[Path].edges, jobs |-> db[Path].jobs]
        /\ IsTable(th, ThreadRecs) /\ IsTable(ct, CatalogRecs)
        /\ db[Path].edges \subseteq Threads /\ db[Path].jobs \subseteq Threads
        /\ Path \notin Catalogs => ct = <<>>
    BY <1>1, <2>1, DbParts
  <2>3. /\ IsTable(Moved(th, {"openai"}), ThreadRecs)
        /\ IsTable(Moved(ct, {"openai"}), CatalogRecs) /\ (ct = <<>> => Moved(ct, {"openai"}) = <<>>)
        /\ IsTable(Moved(ct, Providers), CatalogRecs) /\ (ct = <<>> => Moved(ct, Providers) = <<>>)
    BY <2>2, MovedFacts
  <2>4. \/ MovedDb(Path) = [threads |-> Moved(th, {"openai"}), catalog |-> Moved(ct, {"openai"}),
                            edges |-> db[Path].edges, jobs |-> db[Path].jobs]
        \/ MovedDb(Path) = [threads |-> th, catalog |-> Moved(ct, Providers),
                            edges |-> db[Path].edges, jobs |-> db[Path].jobs]
    BY <2>2 DEF MovedDb
  <2>5. IsDb(MovedDb(Path), Path)
    <3> HIDE DEF th, ct
    <3> QED
      BY <2>2, <2>3, <2>4 DEF IsDb
  <2>6. /\ \A e \in Dbs : db'[e] = IF e = Path THEN MovedDb(Path) ELSE db[e]
        /\ db' \in [Dbs -> Range(db')]
    BY <1>5, <1>6, <2>1 DEF MoveRows, Range
  <2> QED
    BY <1>1, <2>1, <2>5, <2>6, DbReplaced DEF DbStep
<1> QED
  BY <1>3, <1>4, <1>5

(* Archiving a thread changes two columns of its row.                      *)
LEMMA Archived ==
  ASSUME TypeOK, CodexArchives
  PROVE  /\ IsHistory(file, db')
         /\ SameMarks(db', db)
         /\ \A d \in Dbs : /\ db'[d].catalog = db[d].catalog
                           /\ \A t \in DOMAIN db[d].threads :
                                /\ db'[d].threads[t].provider = db[d].threads[t].provider
                                /\ db'[d].threads[t].event = db[d].threads[t].event
<1>1. IsHistory(file, db) /\ DOMAIN db = Dbs
  BY DEF TypeOK, IsHistory
<1>15. PICK d \in Dbs : \E t \in DOMAIN db[d].threads :
         db' = [db EXCEPT ![d].threads[t] = [@ EXCEPT !.archived = TRUE, !.at = 1]]
  BY DEF CodexArchives
<1>2. PICK t \in DOMAIN db[d].threads :
        db' = [db EXCEPT ![d].threads[t] = [@ EXCEPT !.archived = TRUE, !.at = 1]]
  BY <1>15
<1> DEFINE th == db[d].threads
           row == [th[t] EXCEPT !.archived = TRUE, !.at = 1]
           nt == [th EXCEPT ![t] = row]
           x == [threads |-> nt, catalog |-> db[d].catalog, edges |-> db[d].edges, jobs |-> db[d].jobs]
<1>3. /\ db[d] = [threads |-> th, catalog |-> db[d].catalog, edges |-> db[d].edges, jobs |-> db[d].jobs]
      /\ IsTable(th, ThreadRecs) /\ IsTable(db[d].catalog, CatalogRecs)
      /\ db[d].edges \subseteq Threads /\ db[d].jobs \subseteq Threads
      /\ d \notin Catalogs => db[d].catalog = <<>>
  BY <1>1, DbParts
<1>4. th[t] \in ThreadRecs /\ \A u \in DOMAIN th : u \in Threads /\ th[u] \in ThreadRecs
  BY <1>3, TableRow
<1>5. row \in ThreadRecs /\ row.mark = th[t].mark /\ row.provider = th[t].provider /\ row.event = th[t].event
  BY <1>4 DEF ThreadRecs
<1>6. db' = [db EXCEPT ![d] = x]
  <2>1. db' = [db EXCEPT ![d] = [db[d] EXCEPT !.threads = nt]]
    BY <1>1, <1>2
  <2>2. [db[d] EXCEPT !.threads = nt] = x
    <3> HIDE DEF nt
    <3> QED
      BY <1>3
  <2> QED
    BY <2>1, <2>2
<1>7. DOMAIN nt = DOMAIN th /\ \A u \in DOMAIN th : nt[u] = IF u = t THEN row ELSE th[u]
  BY <1>4
<1>8. nt = [u \in DOMAIN th |-> nt[u]]
  OBVIOUS
<1> HIDE DEF nt, row, th
<1>9. IsTable(nt, ThreadRecs)
  <2>1. \A u \in DOMAIN th : nt[u] \in ThreadRecs
    BY <1>4, <1>5, <1>7
  <2> QED
    BY <1>4, <1>7, <1>8, <2>1 DEF IsTable
<1>10. IsDb(x, d)
  BY <1>3, <1>9 DEF IsDb
<1>11. IsHistory(file, db') /\ \A e \in Dbs : db'[e] = IF e = d THEN x ELSE db[e]
  <2> HIDE DEF x
  <2>1. /\ \A e \in Dbs : db'[e] = IF e = d THEN x ELSE db[e]
        /\ db' \in [Dbs -> Range(db')]
    BY <1>1, <1>6 DEF Range, IsHistory
  <2> QED
    BY <1>1, <1>10, <2>1, DbReplaced
<1>12. x.threads = nt /\ x.catalog = db[d].catalog /\ x.edges = db[d].edges /\ x.jobs = db[d].jobs
  OBVIOUS
<1> HIDE DEF x
<1>13. ASSUME NEW e \in Dbs
       PROVE  /\ db'[e].edges = db[e].edges /\ db'[e].jobs = db[e].jobs
              /\ DOMAIN db'[e].threads = DOMAIN db[e].threads
              /\ db'[e].catalog = db[e].catalog
              /\ \A u \in DOMAIN db[e].threads :
                   /\ db'[e].threads[u].mark = db[e].threads[u].mark
                   /\ db'[e].threads[u].provider = db[e].threads[u].provider
                   /\ db'[e].threads[u].event = db[e].threads[u].event
  <2>1. CASE e = d
    BY <1>5, <1>7, <1>11, <1>12, <2>1 DEF th
  <2>2. CASE e # d
    BY <1>11, <2>2
  <2> QED
    BY <2>1, <2>2
<1>14. SameMarks(db', db)
  BY <1>13 DEF SameMarks
<1> QED
  BY <1>11, <1>13, <1>14

-----------------------------------------------------------------------------
(* What the run has in hand, and its types.                                *)

(* The texts of a collected file differ in their meta lines only.          *)
LEMMA InHand ==
  ASSUME TypeOK, TextsInHand, NEW t \in DOMAIN job.changes
  PROVE  /\ t \in DOMAIN file /\ t \in Threads
         /\ job.changes[t].old \in Texts /\ job.changes[t].new \in Texts
         /\ Old(t) \in Texts /\ New(t) \in Texts
         /\ New(t).body = Old(t).body /\ New(t).body = job.changes[t].old.body
         /\ New(t).body <= written[t]
         /\ New(t).meta # {} /\ job.changes[t].old.meta # {} /\ job.changes[t].new.meta # {}
         /\ New(t).agent = job.changes[t].old.agent /\ New(t).event = job.changes[t].old.event
         /\ job.kind = "sync" => job.changes[t].new.meta = {"target"}
<1> DEFINE o == job.changes[t].old
           n == job.changes[t].new
<1>1. IsTable(job.changes, [old : Texts, new : Texts])
  BY DEF TypeOK
<1>2. t \in Threads /\ o \in Texts /\ n \in Texts
  <2>1. t \in Threads /\ job.changes[t] \in [old : Texts, new : Texts]
    BY <1>1, TableRow
  <2> QED
    BY <2>1
<1>3. t \in DOMAIN file /\ o.body <= written[t] /\ o.meta # {} /\ n = Rewritten(o)
  BY DEF TextsInHand
<1>4. n.body = o.body /\ n.agent = o.agent /\ n.event = o.event /\ n.meta # {}
      /\ (job.kind = "sync" => n.meta = {"target"})
  BY <1>2, <1>3, RewrittenFacts
<1>5. (Old(t) = n /\ New(t) = o) \/ (Old(t) = o /\ New(t) = n)
  BY DEF Old, New
<1> HIDE DEF o, n
<1>6. New(t).body = Old(t).body /\ New(t).body = o.body
  BY <1>4, <1>5
<1>7. New(t).agent = o.agent /\ New(t).event = o.event /\ New(t).meta # {}
  BY <1>3, <1>4, <1>5
<1> QED
  BY <1>2, <1>3, <1>4, <1>5, <1>6, <1>7 DEF o, n

(* The file a rewrite is about.                                            *)
LEMMA ThisInHand ==
  ASSUME TypeOK, Phases, Rewriting \/ Opened
  PROVE  /\ This \in job.todo /\ This \in DOMAIN job.changes
         /\ job.undo => This \in job.applied
         /\ ~ job.undo => This \notin job.applied
<1>1. job.todo # {} /\ job.todo \subseteq Threads
  BY DEF Phases, Opened, TypeOK
<1>2. This \in job.todo
  BY <1>1, FirstIn DEF This
<1> QED
  BY <1>2 DEF Phases

JobRecs(changes, plan) ==
  [kind : {"none", "sync", "finalize", "recovery"}, step : Steps, who : SUBSET Threads,
   excluded : SUBSET Threads, events : SUBSET Threads, changes : {changes},
   todo : SUBSET Threads, applied : SUBSET Threads, skipped : SUBSET Threads,
   undo : BOOLEAN, paths : Seq(Dbs), plan : {plan}, backup : Nat, quiet : BOOLEAN]

(* Every step keeps the type of the job.                                   *)
LEMMA JobTyped ==
  ASSUME TypeOK, Phases, Next
  PROVE  job' \in JobRecs(job'.changes, job'.plan)
<1>s. /\ {"idle", "kinds", "collect", "count", "backup", "marker", "open", "truncate", "write", "verify",
          "update", "plan", "repair", "prune", "global", "text", "copy", "copy text"} \subseteq Steps
      /\ {"known", "rows", "lookup", "match"} \subseteq Steps
  BY DEF Steps, SyncSteps, RepairSteps, RewriteSteps, GlobalSteps
<1>1. job \in JobRecs(job.changes, job.plan)
  BY DEF TypeOK, JobRecs
<1>2. Idle \in JobRecs(<<>>, <<>>) /\ Idle.changes = <<>> /\ Idle.plan = <<>>
  <2>1. {} \in SUBSET Threads /\ <<>> \in Seq(Dbs)
    OBVIOUS
  <2> QED
    BY <1>s, <2>1 DEF Idle, JobRecs
<1>3. /\ DOMAIN file \subseteq Threads /\ Subagents(db) \in SUBSET Threads
      /\ runs \in Nat /\ job.applied \in SUBSET Threads /\ job.paths \in Seq(Dbs) /\ Paths \in Seq(Dbs)
      /\ \A t \in job.todo : t \in Threads
  <2>1. job.applied \in SUBSET Threads /\ job.paths \in Seq(Dbs) /\ job.todo \in SUBSET Threads
    BY <1>1 DEF JobRecs
  <2>4. IsHistory(file, db) /\ runs \in 0..MaxRuns
    BY DEF TypeOK
  <2>5. runs \in Nat
    BY <2>4, BoundsAssumption
  <2>2. Subagents(db) \in SUBSET Threads
    BY <2>4, AgentsAreThreads
  <2>3. DOMAIN file \subseteq Threads
    BY <2>4 DEF IsHistory, IsTable
  <2> QED
    BY <2>1, <2>2, <2>3, <2>5, PathsAssumption DEF Dbs
<1>4. job.paths # <<>> => Tail(job.paths) \in Seq(Dbs)
  BY <1>3
<1>5. CASE job' = Idle
  BY <1>2, <1>5
<1>6. ASSUME \E kind \in {"sync", "finalize", "recovery"}, who \in SUBSET Threads, step \in Steps :
               job' = [Idle EXCEPT !.kind = kind, !.who = who, !.step = step]
      PROVE  job' \in JobRecs(job'.changes, job'.plan)
  BY ZenonT(60), <1>2, <1>6 DEF JobRecs
<1>7. ASSUME \E step \in Steps : job' = [job EXCEPT !.step = step]
      PROVE  job' \in JobRecs(job'.changes, job'.plan)
  BY <1>1, <1>7 DEF JobRecs
<1>8. ASSUME \E step \in Steps, paths \in Seq(Dbs) : job' = [job EXCEPT !.step = step, !.paths = paths]
      PROVE  job' \in JobRecs(job'.changes, job'.plan)
  BY <1>1, <1>8 DEF JobRecs
<1>9. ASSUME \E paths \in Seq(Dbs) : job' = [job EXCEPT !.paths = paths]
      PROVE  job' \in JobRecs(job'.changes, job'.plan)
  BY <1>1, <1>9 DEF JobRecs
<1>10. CASE BeginSync \/ BeginFinalize \/ BeginRecovery
  <2>1. CASE BeginSync
    BY <1>s, <1>6, <2>1 DEF BeginSync, Begin
  <2>2. ASSUME NEW t \in Threads, Begin("finalize", {t}, "lookup") \/ Begin("recovery", {t}, "known")
        PROVE  job' \in JobRecs(job'.changes, job'.plan)
    BY <1>s, <1>6, <2>2 DEF Begin
  <2> QED
    BY <1>s, <1>10, <2>1, <2>2 DEF BeginFinalize, BeginRecovery
<1>11. CASE ReadKinds
  BY <1>s, <1>1, <1>3, <1>11 DEF ReadKinds, JobRecs
<1>12. ASSUME NEW ids, NEW agents \in SUBSET Threads, NEW included \in SUBSET Threads,
              CollectReads(ids, agents, included)
       PROVE  job' \in JobRecs(job'.changes, job'.plan)
  <2>1. /\ DOMAIN file \ ids \subseteq Threads /\ {t \in included : file[t].event} \subseteq Threads
        /\ RewriteNeeded(included) \subseteq Threads
    BY <1>s, <1>3 DEF RewriteNeeded
  <2>2. PICK c, e, s, w : /\ e \subseteq Threads /\ s \subseteq Threads /\ w \subseteq Threads
          /\ job' = [job EXCEPT !.step = "count", !.excluded = job.excluded \cup agents, !.skipped = s,
                       !.changes = c, !.events = e, !.todo = w]
    BY <1>s, <1>12, <2>1 DEF CollectReads
  <2>3. job.excluded \cup agents \subseteq Threads
    BY <1>s, <1>1 DEF JobRecs
  <2> QED
    BY <1>s, <1>1, <2>2, <2>3 DEF JobRecs
<1>13. CASE Collect \/ CollectLocked
  <2>1. ASSUME NEW L \in SUBSET DOMAIN file,
               LET ids    == {t \in L : file[t].meta # {}}
                   agents == {t \in ids : file[t].agent}
               IN  CollectReads(L, agents, ids \ (agents \cup job.excluded))
        PROVE  job' \in JobRecs(job'.changes, job'.plan)
    <3> DEFINE ids    == {t \in L : file[t].meta # {}}
               agents == {t \in ids : file[t].agent}
    <3>1. CollectReads(L, agents, ids \ (agents \cup job.excluded))
      BY <2>1
    <3>2. agents \subseteq Threads /\ ids \ (agents \cup job.excluded) \subseteq Threads
      BY <1>s, <1>3
    <3> HIDE DEF ids, agents
    <3> QED
      BY <3>1, <3>2, <1>12
  <2>2. CASE Collect
    BY <2>1, <2>2 DEF Collect
  <2>3. CASE CollectLocked
    <3>1. PICK u \in DOMAIN file :
             LET ids    == {t \in DOMAIN file \ {u} : file[t].meta # {}}
                 agents == {t \in ids : file[t].agent}
             IN  CollectReads(DOMAIN file \ {u}, agents, ids \ (agents \cup job.excluded))
      BY <2>3 DEF CollectLocked
    <3>2. DOMAIN file \ {u} \in SUBSET DOMAIN file
      OBVIOUS
    <3> QED
      BY <2>1, <3>1, <3>2
  <2> QED
    BY <1>s, <1>13, <2>2, <2>3
<1>14. CASE Count \/ MarkBackup \/ Open \/ Truncate \/ Write \/ NormalizeGlobal
  BY <1>s, <1>7, <1>14 DEF Count, MarkBackup, Open, Truncate, Write, NormalizeGlobal, Goto
<1>15. CASE MakeBackup
  BY <1>s, <1>1, <1>3, <1>15 DEF MakeBackup, JobRecs
<1>16. CASE OpenChanged \/ OpenLocked
  <2>1. This \in Threads
    BY <1>s, <1>3, <1>16, ThisInHand DEF OpenChanged, OpenLocked
  <2>2. PICK w \in SUBSET Threads, s \in SUBSET Threads : job' = [job EXCEPT !.todo = w, !.skipped = s]
    <3>1. job.todo \ {This} \in SUBSET Threads /\ job.skipped \in SUBSET Threads
          /\ job.skipped \cup {This} \in SUBSET Threads
      BY <1>s, <1>1, <2>1 DEF JobRecs
    <3> QED
      BY <1>s, <1>16, <3>1 DEF OpenChanged, OpenLocked
  <2> QED
    BY <1>s, <1>1, <2>2 DEF JobRecs
<1>17. CASE Verify
  <2>1. This \in Threads
    BY <1>s, <1>3, <1>17, ThisInHand DEF Verify, Rewriting, At
  <2>2. PICK w \in SUBSET Threads, s \in SUBSET Threads :
          job' = [job EXCEPT !.step = "open", !.todo = w, !.applied = s]
    <3>1. job.todo \ {This} \in SUBSET Threads /\ job.applied \in SUBSET Threads
          /\ job.applied \cup {This} \in SUBSET Threads
      BY <1>s, <1>1, <2>1 DEF JobRecs
    <3> QED
      BY <1>s, <1>17, <3>1 DEF Verify
  <2> QED
    BY <1>s, <1>1, <2>2 DEF JobRecs
<1>18. CASE PhaseDone \/ Known
  <2>1. CASE PhaseDone
    BY <1>s, <1>3, <1>8, <2>1 DEF PhaseDone, Enter
  <2>2. CASE Known
    <3>1. PICK t \in Threads : job.who = {t}
      BY <2>2, StepKinds DEF Known
    <3>2. Enter("plan") \/ job' = Idle
      BY <2>2, <3>1 DEF Known, Return
    <3> QED
      BY <1>s, <1>3, <1>5, <1>8, <3>2 DEF Enter
  <2> QED
    BY <1>s, <1>18, <2>1, <2>2
<1>19. CASE UpdateDb \/ RepairDb \/ MoveRows
  BY <1>s, <1>4, <1>9, <1>19 DEF UpdateDb, RepairDb, MoveRows, NextPath
<1>20. CASE Plan
  BY <1>s, <1>1, <1>20 DEF Plan, JobRecs
<1>21. CASE LaterStepFails
  <2>1. job' = Idle \/ job' = [job EXCEPT !.step = "open", !.undo = TRUE, !.todo = job.applied]
    BY <1>21 DEF LaterStepFails, Return
  <2> QED
    BY ZenonT(60), <1>s, <1>1, <1>3, <1>5, <2>1 DEF JobRecs
<1>22. CASE LookUp
  <2>1. PICK t \in Threads : job.who = {t}
    BY <1>s, <1>22, StepKinds DEF LookUp
  <2>2. job' = Idle \/ job' = [job EXCEPT
                !.step = "backup",
                !.changes = [u \in {t} |-> [old |-> file[t], new |-> Rewritten(file[t])]],
                !.todo = RewriteNeeded({t})]
    BY <1>s, <1>22, <2>1 DEF LookUp, Return
  <2>3. RewriteNeeded({t}) \subseteq Threads
    BY DEF RewriteNeeded
  <2> QED
    BY ZenonT(60), <1>s, <1>1, <1>5, <2>2, <2>3 DEF JobRecs
<1>23. CASE Match
  <2>1. PICK t \in Threads : job.who = {t}
    BY <1>s, <1>23, StepKinds DEF Match
  <2>2. Goto("plan") \/ job' = Idle
    BY <1>s, <1>23, <2>1 DEF Match, Return
  <2> QED
    BY <1>s, <1>5, <1>7, <2>2 DEF Goto
<1>24. CASE CodexStartsOrStops \/ CodexAppends \/ CodexArchives \/ CodexSavesGlobal
  <2>1. job' = job \/ job' = Idle \/ job' = [job EXCEPT !.quiet = FALSE]
    BY <1>s, <1>24 DEF CodexStartsOrStops, CodexAppends, CodexArchives, CodexSavesGlobal, Disturbed
  <2> QED
    BY ZenonT(60), <1>s, <1>1, <1>5, <2>1 DEF JobRecs
<1>25. CASE CountFails \/ UpToDate \/ BackupFails \/ VerifyFails \/ OpenFails \/ Restored
              \/ WriteFails \/ Prune \/ RecoveryDone \/ Crash
  <2>1. job' = Idle
    BY <1>s, <1>25 DEF CountFails, UpToDate, BackupFails, VerifyFails, OpenFails, Restored,
              WriteFails, Prune, RecoveryDone, Crash, Return
  <2> QED
    BY <1>s, <1>5, <2>1
<1> QED
  BY <1>s, <1>10, <1>11, <1>13, <1>14, <1>15, <1>16, <1>17, <1>18, <1>19, <1>20, <1>21, <1>22, <1>23, <1>24, <1>25
  DEF Next

(* What every step leaves of the files and databases.                      *)
LEMMA HistoryKept ==
  ASSUME TypeOK, Phases, TextsInHand, [Next]_vars
  PROVE  /\ IsHistory(file', db') /\ DOMAIN file' = DOMAIN file
         /\ Truncate \/ Write \/ CodexAppends \/ file' = file
         /\ UpdateDb \/ RepairDb \/ MoveRows \/ CodexArchives \/ db' = db
<1>1. IsHistory(file, db)
  BY DEF TypeOK
<1>2. Truncate \/ Write \/ CodexAppends \/ file' = file
  BY StepCases, CodexSteps, PhaseSteps, GlobalMoves DEF Still, Begun, Began, Ended, ReadKinds, Collects, Count, MakeBackup,
     MarkBackup, Open, Skips, Verify, UpdateDb, Plan, RepairDb, MoveRows, Undoes, Finds, Onward, disk
<1>3. UpdateDb \/ RepairDb \/ MoveRows \/ CodexArchives \/ db' = db
  BY StepCases, CodexSteps, PhaseSteps, GlobalMoves DEF Still, Begun, Began, Ended, ReadKinds, Collects, Count, MakeBackup,
     MarkBackup, Open, Skips, Truncate, Write, Verify, Plan, Undoes, Finds, Onward, disk
<1>4. CASE Truncate
  <2>1. This \in DOMAIN file
    BY <1>4, ThisInHand, InHand DEF Truncate, Rewriting, At
  <2>2. Empty \in Texts /\ ~ Empty.agent
    BY DEF Empty, Texts
  <2>3. file' = [file EXCEPT ![This] = Empty] /\ db' = db
    BY <1>4 DEF Truncate
  <2>4. IsHistory(file', db)
    BY <1>1, <2>1, <2>2, <2>3, TextReplaced
  <2> QED
    BY <1>2, <1>3, <2>3, <2>4
<1>5. CASE Write
  <2>1. This \in DOMAIN file /\ New(This) \in Texts /\ New(This).meta # {}
    BY <1>5, ThisInHand, InHand DEF Write, Rewriting, At
  <2>3. file' = [file EXCEPT ![This] = New(This)] /\ db' = db
    BY <1>5 DEF Write
  <2>4. IsHistory(file', db)
    BY <1>1, <2>1, <2>3, TextReplaced
  <2> QED
    BY <1>2, <1>3, <2>3, <2>4
<1>6. CASE CodexAppends
  <2>1. PICK t \in DOMAIN file : file' = [file EXCEPT ![t].body = @ + 1]
    BY <1>6 DEF CodexAppends
  <2> DEFINE text == [file[t] EXCEPT !.body = @ + 1]
  <2>2. IsTable(file, Texts) /\ (file[t].agent => file[t].meta # {})
    BY <1>1 DEF IsHistory
  <2>3. file[t] \in Texts
    BY <2>2, TableRow
  <2>4. text \in Texts /\ text.agent = file[t].agent /\ text.meta = file[t].meta
    BY <2>3 DEF Texts
  <2>5. file' = [file EXCEPT ![t] = text] /\ db' = db
    BY <1>6, <2>1, CodexSteps
  <2> HIDE DEF text
  <2>6. IsHistory(file', db)
    BY <1>1, <2>2, <2>4, <2>5, TextReplaced
  <2> QED
    BY <1>2, <1>3, <2>5, <2>6
<1>7. CASE UpdateDb \/ RepairDb \/ MoveRows
  <2>1. IsHistory(file, db') /\ file' = file
    BY <1>7, DbSteps DEF DbStep, UpdateDb, RepairDb, MoveRows
  <2> QED
    BY <1>2, <1>3, <2>1
<1>8. CASE CodexArchives
  <2>1. IsHistory(file, db') /\ file' = file
    BY <1>8, Archived, CodexSteps
  <2> QED
    BY <1>2, <1>3, <2>1
<1>9. CASE file' = file /\ db' = db
  BY <1>1, <1>9
<1> QED
  BY <1>2, <1>3, <1>4, <1>5, <1>6, <1>7, <1>8, <1>9

(* How the histories of the variables move.                                *)
LEMMA WrittenKept ==
  ASSUME TypeOK, Phases, TextsInHand, [Next]_vars
  PROVE  /\ DOMAIN written = DOMAIN file /\ DOMAIN written' = DOMAIN file
         /\ written' \in [DOMAIN file -> Nat] /\ hit' \subseteq DOMAIN file /\ hit \subseteq hit'
         /\ \A t \in DOMAIN file : written[t] \in Nat /\ written'[t] \in Nat /\ written[t] <= written'[t]
         /\ CodexAppends \/ written' = written
         /\ CodexAppends \/ Ended \/ hit' = hit
         /\ Begun \/ start' = start
<1>1. written \in [DOMAIN file -> Nat] /\ hit \subseteq DOMAIN file /\ DOMAIN written = DOMAIN file
  BY DEF TypeOK
<1>2. CodexAppends \/ written' = written
  BY StepCases, CodexSteps, PhaseSteps, GlobalMoves DEF Still, Begun, Began, Ended, ReadKinds, Collects, Count, MakeBackup,
     MarkBackup, Open, Skips, Verify, UpdateDb, Plan, RepairDb, MoveRows, Undoes, Finds, Onward, Truncate, Write, history
<1>3. CodexAppends \/ Ended \/ hit' = hit
  BY StepCases, CodexSteps, PhaseSteps, GlobalMoves DEF Still, Begun, Began, ReadKinds, Collects, Count, MakeBackup,
     MarkBackup, Open, Skips, Verify, UpdateDb, Plan, RepairDb, MoveRows, Undoes, Finds, Onward, Truncate, Write, history
<1>4. Begun \/ start' = start
  BY StepCases, CodexSteps, PhaseSteps, GlobalMoves DEF Still, Ended, ReadKinds, Collects, Count, MakeBackup,
     MarkBackup, Open, Skips, Verify, UpdateDb, Plan, RepairDb, MoveRows, Undoes, Finds, Onward, Truncate, Write, history
<1>5. CASE CodexAppends
  <2>1. PICK t \in DOMAIN file : /\ written' = [written EXCEPT ![t] = @ + 1]
                                 /\ hit' = IF Held(t) THEN hit \cup {t} ELSE hit
    BY <1>5 DEF CodexAppends
  <2>2. hit' \subseteq DOMAIN file /\ hit \subseteq hit'
    BY <1>1, <2>1
  <2>3. written' \in [DOMAIN file -> Nat] /\ \A u \in DOMAIN file : written[u] <= written'[u]
    BY <1>1, <2>1
  <2> QED
    BY <1>1, <1>4, <1>5, <2>2, <2>3
<1>6. CASE written' = written /\ hit' = hit
  BY <1>1, <1>4, <1>6
<1>7. CASE Ended
  <2>1. At("write") => This \in DOMAIN file
    BY ThisInHand, InHand DEF Rewriting, At
  <2>2. hit' \subseteq DOMAIN file /\ hit \subseteq hit' /\ written' = written
    BY <1>1, <1>7, <2>1 DEF Ended
  <2> QED
    BY <1>1, <1>4, <1>7, <2>2
<1> QED
  BY <1>2, <1>3, <1>5, <1>6, <1>7

(* The files the run collected, and its plan.                              *)
LEMMA WorkTyped ==
  ASSUME TypeOK, Phases, TextsInHand, [Next]_vars
  PROVE  /\ IsTable(job'.changes, [old : Texts, new : Texts])
         /\ job'.step = "repair" => IsPlan(job'.plan)
<1> DEFINE Good(j) == /\ IsTable(j.changes, [old : Texts, new : Texts])
                      /\ j.step = "repair" => IsPlan(j.plan)
<1>1. Good(job) /\ job.who \subseteq Threads /\ IsHistory(file, db) /\ IsTable(file, Texts)
  BY DEF TypeOK, At, IsHistory
<1>2. Good(Idle) /\ IsTable(<<>>, [old : Texts, new : Texts])
  BY DEF Idle, IsTable
<1>3. ASSUME job'.changes = job.changes, job'.step = "repair" => job.step = "repair" /\ job'.plan = job.plan
      PROVE  Good(job')
  BY <1>1, <1>3
<1>4. ASSUME NEW S \in SUBSET DOMAIN file, job'.step # "repair",
             job'.changes = [t \in S |-> [old |-> file[t], new |-> Rewritten(file[t])]]
      PROVE  Good(job')
  <2>1. ASSUME NEW t \in S PROVE t \in Threads /\ [old |-> file[t], new |-> Rewritten(file[t])] \in [old : Texts, new : Texts]
    <3>1. t \in Threads /\ file[t] \in Texts
      BY <1>1, TableRow
    <3>2. Rewritten(file[t]) \in Texts
      BY <3>1, RewrittenFacts
    <3> QED
      BY <3>1, <3>2
  <2>2. IsTable(job'.changes, [old : Texts, new : Texts])
    BY <1>4, <2>1 DEF IsTable
  <2> QED
    BY <1>4, <2>2
<1> SUFFICES Good(job')
  OBVIOUS
<1> HIDE DEF Good
<1> USE DEF SameRun, SameTexts, SameWork, SameDbs, ToStep, At
<1>5. CASE Begun
  <2>1. job'.changes = <<>> /\ job'.step # "repair"
    BY <1>5 DEF Begun, Began, Idle
  <2> QED
    BY <1>2, <2>1 DEF Good
<1>6. CASE Ended
  BY <1>2, <1>6 DEF Ended
<1>7. CASE CodexAppends \/ CodexArchives \/ CodexSavesGlobal
  <2>1. Shaken
    BY <1>7, CodexSteps
  <2> QED
    BY <1>2, <1>3, <2>1 DEF Shaken
<1>8. CASE Collects
  <2>1. PICK L : CollectedFrom(L)
    BY <1>8 DEF Collects
  <2> DEFINE S == {t \in L : file[t].meta # {}} \ ({t \in {u \in L : file[u].meta # {}} : file[t].agent} \cup job.excluded)
  <2>2. L \subseteq DOMAIN file /\ S \subseteq DOMAIN file /\ job'.step = "count"
        /\ job'.changes = [t \in S |-> [old |-> file[t], new |-> Rewritten(file[t])]]
    BY <2>1 DEF CollectedFrom
  <2> HIDE DEF S
  <2> QED
    BY <1>4, <2>2
<1>9. CASE Finds
  <2>1. PICK t \in DOMAIN file : job'.changes = [u \in {t} |-> [old |-> file[t], new |-> Rewritten(file[t])]]
    BY <1>9 DEF Finds
  <2>2. {t} \in SUBSET DOMAIN file /\ job'.step = "backup"
        /\ job'.changes = [u \in {t} |-> [old |-> file[u], new |-> Rewritten(file[u])]]
    BY <1>9, <2>1 DEF Finds
  <2> QED
    BY <1>4, <2>2
<1>10. CASE Plan
  <2>1. job'.changes = job.changes /\ job'.plan = CatalogPlan(db, file, job.who)
    BY <1>10, OwnSteps
  <2> QED
    BY <1>1, <2>1, PlanTyped DEF Good
<1>11. CASE \/ Still \/ ReadKinds \/ Count \/ MakeBackup \/ MarkBackup \/ Open \/ Skips \/ Truncate \/ Write \/ Verify
            \/ UpdateDb \/ RepairDb \/ MoveRows
  BY <1>3, <1>11, OwnSteps DEF Still, Skips
<1>12. CASE PhaseDone
  BY <1>3, <1>12, PhaseSteps DEF Onward
<1>13. CASE NormalizeGlobal \/ Undoes
  BY <1>3, <1>13, GlobalMoves DEF Undoes
<1>14. CASE \/ At("match") /\ ToStep("plan") /\ UNCHANGED <<disk, answer, runs, history>>
            \/ job'.paths = Paths /\ Onward("known", "plan")
  BY <1>3, <1>14 DEF Onward
<1> QED
  BY <1>5, <1>6, <1>7, <1>8, <1>9, <1>10, <1>11, <1>12, <1>13, <1>14, StepCases

IsBackup(b, n) == /\ b \in [name : 1..n, complete : BOOLEAN, meta : {b.meta}]
                  /\ IsTable(b.meta, SUBSET Providers)

(* Every step keeps the type of the backups.                               *)
LEMMA BackupsTyped ==
  ASSUME TypeOK, Phases, BackupInv, [Next]_vars
  PROVE  \A b \in backups' : IsBackup(b, runs')
<1>1. (\A b \in backups : IsBackup(b, runs)) /\ runs \in 0..MaxRuns /\ MaxRuns \in Nat
  BY BoundsAssumption DEF TypeOK, IsBackup
<1>2. \A b : IsBackup(b, runs) => IsBackup(b, runs + 1)
  BY <1>1 DEF IsBackup
<1>3. CASE MakeBackup
  <2>1. runs > 0
    BY <1>3, StepKinds DEF BackupInv, MakeBackup, At
  <2> DEFINE b == [name |-> runs, complete |-> FALSE, meta |-> <<>>]
  <2>2. runs \in 1..runs /\ IsTable(<<>>, SUBSET Providers)
    BY <1>1, <2>1 DEF IsTable
  <2>3. IsBackup(b, runs)
    BY <2>2 DEF IsBackup
  <2>4. backups' = backups \cup {b} /\ runs' = runs
    BY <1>3 DEF MakeBackup
  <2> QED
    BY <1>1, <2>3, <2>4
<1>4. CASE MarkBackup
  <2>1. runs > 0 /\ job.backup = runs
    BY <1>4, StepKinds DEF BackupInv, MarkBackup, At
  <2> DEFINE m == [t \in job.todo |-> job.changes[t].old.meta]
             b == [name |-> job.backup, complete |-> TRUE, meta |-> m]
  <2>2. IsTable(m, SUBSET Providers)
    <3>1. IsTable(job.changes, [old : Texts, new : Texts]) /\ job.todo \subseteq DOMAIN job.changes
      BY DEF TypeOK, Phases
    <3>2. ASSUME NEW t \in job.todo PROVE t \in Threads /\ job.changes[t].old.meta \in SUBSET Providers
      <4>1. t \in Threads /\ job.changes[t] \in [old : Texts, new : Texts]
        BY <3>1, TableRow
      <4> QED
        BY <4>1 DEF Texts
    <3> QED
      BY <3>2 DEF IsTable
  <2> HIDE DEF m
  <2>3. IsBackup(b, runs)
    BY <1>1, <2>1, <2>2 DEF IsBackup
  <2>4. backups' = {c \in backups : c.name # job.backup} \cup {b} /\ runs' = runs
    BY <1>4 DEF MarkBackup, m
  <2> QED
    BY <1>1, <2>3, <2>4
<1>5. CASE Begun
  <2>1. backups' = backups /\ runs' = runs + 1
    BY <1>5 DEF Begun, Began
  <2> QED
    BY <1>1, <1>2, <2>1
<1>6. (backups' \subseteq backups /\ runs' = runs) \/ MakeBackup \/ MarkBackup \/ Begun
  BY StepCases, CodexSteps, PhaseSteps, GlobalMoves DEF Still, Ended, ReadKinds, Collects, Count,
     Open, Skips, Verify, UpdateDb, Plan, RepairDb, MoveRows, Undoes, Finds, Onward, Truncate, Write, disk
<1> QED
  BY <1>1, <1>3, <1>4, <1>5, <1>6

(* Every step keeps the type of the small variables.                       *)
LEMMA ScalarsTyped ==
  ASSUME TypeOK, Phases, [Next]_vars
  PROVE  /\ global' \in [main : GlobalTexts, bak : GlobalTexts]
         /\ app' \in BOOLEAN /\ settled' \in BOOLEAN
         /\ answer' \in {"none", "synced", "up to date", "ignored", "deferred", "failed"}
         /\ runs' \in 0..MaxRuns /\ trouble' \in 0..MaxTrouble
<1>1. /\ global \in [main : GlobalTexts, bak : GlobalTexts] /\ app \in BOOLEAN /\ settled \in BOOLEAN
      /\ answer \in {"none", "synced", "up to date", "ignored", "deferred", "failed"}
      /\ runs \in 0..MaxRuns /\ trouble \in 0..MaxTrouble
  BY DEF TypeOK
<1>2. global' \in [main : GlobalTexts, bak : GlobalTexts]
  <2>1. NormalizeGlobal \/ CodexSavesGlobal \/ global' = global
    BY StepCases, CodexSteps, PhaseSteps DEF Still, Begun, Began, Ended, ReadKinds, Collects, Count, MakeBackup, MarkBackup,
       Open, Skips, Verify, UpdateDb, Plan, RepairDb, MoveRows, Undoes, Finds, Onward, Truncate, Write, disk
  <2>2. NormalizeGlobal => global' \in [main : GlobalTexts, bak : GlobalTexts]
    BY <1>1, GlobalMoves DEF GlobalTexts
  <2>3. CodexSavesGlobal => global' \in [main : GlobalTexts, bak : GlobalTexts]
    BY <1>1 DEF CodexSavesGlobal, GlobalTexts
  <2> QED
    BY <1>1, <2>1, <2>2, <2>3
<1>3. settled' \in BOOLEAN
  BY <1>1, StepCases, CodexSteps, PhaseSteps, GlobalMoves DEF Still, Begun, Began, Ended, ReadKinds, Collects, Count,
     MakeBackup, MarkBackup, Open, Skips, Verify, UpdateDb, Plan, RepairDb, MoveRows, Undoes, Finds, Onward,
     Truncate, Write, history
<1>4. runs' \in 0..MaxRuns
  <2>1. runs' = runs \/ Begun
    BY StepCases, CodexSteps, PhaseSteps, GlobalMoves DEF Still, Ended, ReadKinds, Collects, Count,
       MakeBackup, MarkBackup, Open, Skips, Verify, UpdateDb, Plan, RepairDb, MoveRows, Undoes, Finds, Onward,
       Truncate, Write
  <2>2. Begun => runs' = runs + 1 /\ runs < MaxRuns
    BY DEF Begun, Began
  <2>3. runs \in 0..MaxRuns /\ MaxRuns \in Nat
    BY <1>1, BoundsAssumption
  <2> QED
    BY <2>1, <2>2, <2>3
<1>5. ASSUME Trouble PROVE trouble' \in 0..MaxTrouble
  <2>1. trouble \in 0..MaxTrouble /\ MaxTrouble \in Nat
    BY <1>1, BoundsAssumption
  <2>2. trouble < MaxTrouble /\ trouble' = trouble + 1
    BY <1>5 DEF Trouble
  <2> QED
    BY <2>1, <2>2
<1> DEFINE Rest == /\ app' \in BOOLEAN
                   /\ answer' \in {"none", "synced", "up to date", "ignored", "deferred", "failed"}
                   /\ trouble' \in 0..MaxTrouble
<1> SUFFICES Rest
  BY <1>2, <1>3, <1>4
<1>6. CASE BeginSync \/ BeginFinalize \/ BeginRecovery
  BY <1>1, <1>6 DEF BeginSync, BeginFinalize, BeginRecovery, Begin
<1>7. CASE ReadKinds \/ Collect \/ CollectLocked \/ Count \/ MakeBackup \/ MarkBackup \/ Open \/ OpenChanged
             \/ OpenLocked \/ Truncate \/ Write \/ Verify \/ PhaseDone \/ UpdateDb \/ Plan \/ RepairDb \/ MoveRows
             \/ NormalizeGlobal
  BY <1>1, <1>5, <1>7 DEF ReadKinds, Collect, CollectLocked, Count, MakeBackup, MarkBackup, Open, OpenChanged,
     OpenLocked, Truncate, Write, Verify, PhaseDone, UpdateDb, Plan, RepairDb, MoveRows, NormalizeGlobal
<1>8. CASE CountFails \/ UpToDate \/ BackupFails \/ VerifyFails \/ OpenFails \/ Restored \/ WriteFails
             \/ Prune \/ LaterStepFails \/ RecoveryDone \/ Crash
  BY <1>1, <1>5, <1>8 DEF CountFails, UpToDate, BackupFails, VerifyFails, OpenFails, Restored, WriteFails,
     Prune, LaterStepFails, RecoveryDone, Crash, Return
<1>9. CASE LookUp \/ Match \/ Known
  <2>1. PICK t \in Threads : job.who = {t}
    BY <1>9, StepKinds DEF LookUp, Match, Known
  <2>2. Lookup(t) \in {"ready", "ignored", "deferred"}
    BY DEF Lookup
  <2> QED
    BY <1>1, <1>9, <2>1, <2>2 DEF LookUp, Match, Known, Return
<1>10. CASE CodexStartsOrStops \/ CodexAppends \/ CodexArchives \/ CodexSavesGlobal
  BY <1>1, <1>5, <1>10 DEF CodexStartsOrStops, CodexAppends, CodexArchives, CodexSavesGlobal
<1>11. CASE UNCHANGED vars
  BY <1>1, <1>11 DEF vars
<1> QED
  BY <1>6, <1>7, <1>8, <1>9, <1>10, <1>11 DEF Next

-----------------------------------------------------------------------------
(* The records of the files.                                               *)

(* How the text of a file may change.                                      *)
LEMMA TextSteps ==
  ASSUME TypeOK, Phases, TextsInHand, [Next]_vars, NEW t \in DOMAIN file
  PROVE  \/ file'[t] = file[t] /\ written'[t] = written[t]
         \/ /\ Truncate /\ t = This /\ file'[t] = Empty /\ written'[t] = written[t]
         \/ /\ Write /\ t = This /\ file'[t] = New(t) /\ written'[t] = written[t]
         \/ /\ CodexAppends /\ file'[t] = [file[t] EXCEPT !.body = file[t].body + 1]
            /\ written'[t] = written[t] + 1 /\ hit' = IF Held(t) THEN hit \cup {t} ELSE hit
<1>1. DOMAIN written = DOMAIN file
  BY DEF TypeOK
<1>2. CASE Truncate
  <2>1. written' = written
    BY <1>2 DEF Truncate, history
  <2> QED
    BY <1>2, <2>1 DEF Truncate
<1>3. CASE Write
  <2>1. written' = written
    BY <1>3 DEF Write, history
  <2> QED
    BY <1>3, <2>1 DEF Write
<1>4. CASE CodexAppends
  <2>1. PICK u \in DOMAIN file :
          /\ file' = [file EXCEPT ![u].body = @ + 1]
          /\ written' = [written EXCEPT ![u] = @ + 1]
          /\ hit' = IF Held(u) THEN hit \cup {u} ELSE hit
    BY <1>4 DEF CodexAppends
  <2>2. CASE u = t
    BY <1>1, <1>4, <2>1, <2>2
  <2>3. CASE u # t
    BY <1>1, <2>1, <2>3
  <2> QED
    BY <2>2, <2>3
<1> QED
  BY <1>2, <1>3, <1>4, HistoryKept, WrittenKept

(* Every step keeps the type invariant.                                    *)
LEMMA TypesHold ==
  ASSUME TypeOK, Phases, TextsInHand, BackupInv, [Next]_vars
  PROVE  TypeOK'
<1>1. IsHistory(file', db') /\ DOMAIN file' = DOMAIN file
  BY HistoryKept
<1>2. written' \in [DOMAIN file' -> Nat] /\ hit' \subseteq DOMAIN file'
  BY <1>1, WrittenKept
<1>3. ASSUME NEW t \in DOMAIN file PROVE file'[t].body <= written'[t]
  <2>1. file[t] \in Texts /\ file[t].body <= written[t] /\ written[t] \in Nat
    <3>1. IsTable(file, Texts) /\ file[t].body <= written[t] /\ written[t] \in Nat
      BY DEF TypeOK, IsHistory
    <3> QED
      BY <3>1, TableRow
  <2>2. file[t].body \in Nat
    BY <2>1 DEF Texts
  <2>3. CASE file'[t] = file[t] /\ written'[t] = written[t]
    BY <2>1, <2>3
  <2>4. CASE file'[t] = Empty /\ written'[t] = written[t]
    BY <2>1, <2>4 DEF Empty
  <2>5. CASE Write /\ t = This /\ file'[t] = New(t) /\ written'[t] = written[t]
    <3>1. t \in DOMAIN job.changes
      BY <2>5, ThisInHand DEF Write, Rewriting, At
    <3>2. New(t).body <= written[t]
      BY <3>1, InHand
    <3> QED
      BY <2>5, <3>2
  <2>6. CASE /\ file'[t] = [file[t] EXCEPT !.body = file[t].body + 1]
             /\ written'[t] = written[t] + 1
    <3>1. file'[t].body = file[t].body + 1
      BY <2>1, <2>6 DEF Texts
    <3> QED
      BY <2>1, <2>2, <2>6, <3>1
  <2> QED
    BY <2>3, <2>4, <2>5, <2>6, TextSteps
<1>4. /\ IsHistory(start'.file, start'.db) /\ DOMAIN start'.file = DOMAIN file'
      /\ start'.written \in [DOMAIN file' -> Nat]
      /\ \A t \in DOMAIN file' : start'.written[t] <= written'[t]
  <2>1. /\ IsHistory(file, db) /\ written \in [DOMAIN file -> Nat]
        /\ IsHistory(start.file, start.db) /\ DOMAIN start.file = DOMAIN file
        /\ start.written \in [DOMAIN file -> Nat]
        /\ \A t \in DOMAIN file : start.written[t] <= written[t]
    BY DEF TypeOK
  <2>2. \A t \in DOMAIN file : written[t] \in Nat /\ written'[t] \in Nat /\ written[t] <= written'[t]
    BY WrittenKept
  <2>3. CASE start' = start
    <3>1. ASSUME NEW t \in DOMAIN file PROVE start.written[t] <= written'[t]
      <4>1. start.written[t] \in Nat /\ start.written[t] <= written[t]
        BY <2>1
      <4> QED
        BY <2>2, <4>1
    <3> QED
      BY <1>1, <2>1, <2>3, <3>1
  <2>4. CASE Begun
    <3>2. start' = Snapshot
      BY <2>4 DEF Begun, Began
    <3>1. start'.file = file /\ start'.db = db /\ start'.written = written
      BY <3>2 DEF Snapshot
    <3> QED
      BY <1>1, <2>1, <2>2, <3>1
  <2> QED
    BY <2>3, <2>4, WrittenKept
<1>5. \A b \in backups' : IsBackup(b, runs')
  BY BackupsTyped
<1>6. job' \in JobRecs(job'.changes, job'.plan)
  <2>1. CASE Next
    BY <2>1, JobTyped
  <2>2. CASE UNCHANGED vars
    <3>1. job' = job
      BY <2>2 DEF vars
    <3>2. job \in JobRecs(job.changes, job.plan)
      BY DEF TypeOK, JobRecs
    <3> QED
      BY <3>1, <3>2
  <2> QED
    BY <2>1, <2>2
<1>7. IsTable(job'.changes, [old : Texts, new : Texts]) /\ (job'.step = "repair" => IsPlan(job'.plan))
  BY WorkTyped
<1> QED
  BY <1>1, <1>2, <1>3, <1>4, <1>5, <1>6, <1>7, ScalarsTyped DEF TypeOK, JobRecs, IsBackup, At

(* What may happen while a file is open for the rewrite.                   *)
LEMMA WhileHeld ==
  ASSUME TypeOK, Phases, [Next]_vars, job.step \in {"truncate", "write"}
  PROVE  \/ Still \/ Ended
         \/ CodexAppends \/ CodexArchives \/ CodexSavesGlobal
         \/ At("truncate") /\ Truncate
         \/ At("write") /\ Write
<1>1. job # Idle
  BY StepKinds
<1> QED
  BY <1>1, StepCases, PhaseSteps, GlobalMoves DEF Begun, Began, ReadKinds, Collects, Count, MakeBackup, MarkBackup, Open, Opened,
     Skips, Truncate, Write, Verify, UpdateDb, Plan, RepairDb, MoveRows, Undoes, Finds, Onward, At

(* Codex's writes leave the run where it is.                               *)
LEMMA RunShaken ==
  ASSUME TypeOK, Phases, CodexAppends \/ CodexArchives \/ CodexSavesGlobal
  PROVE  /\ job'.step = job.step /\ job'.kind = job.kind /\ SameTexts /\ SameWork /\ SameDbs
         /\ This' = This /\ (\A t : Held(t)' <=> Held(t))
         /\ \A t : Old(t)' = Old(t) /\ New(t)' = New(t)
         /\ (job' = Idle) <=> (job = Idle)
         /\ job # Idle => ~ job'.quiet
<1>1. Shaken
  BY CodexSteps
<1>2. job'.step = job.step /\ job'.kind = job.kind /\ SameTexts /\ SameWork /\ SameDbs
      /\ ((job' = Idle) <=> (job = Idle)) /\ (job # Idle => ~ job'.quiet)
  BY <1>1 DEF Shaken, SameTexts, SameWork, SameDbs
<1>3. This' = This
  BY <1>2 DEF This, SameWork
<1> QED
  BY <1>2, <1>3 DEF Held, Old, New, SameTexts, SameWork

(* A file loses records only to a death, a failure or an append that comes *)
(* between the comparison and the end of its rewrite.                      *)
LEMMA RecordsHold ==
  ASSUME TypeOK, Phases, TextsInHand, RecordsKept, [Next]_vars
  PROVE  RecordsKept'
<1> SUFFICES ASSUME NEW t \in DOMAIN file, file'[t].body < written'[t], t \notin hit', ~ Held(t)'
             PROVE  FALSE
  BY HistoryKept DEF RecordsKept
<1>1. t \notin hit
  BY WrittenKept
<1>2. file[t] \in Texts /\ file[t].body \in Nat /\ written[t] \in Nat
  <2>1. IsTable(file, Texts) /\ written[t] \in Nat
    BY DEF TypeOK, IsHistory
  <2>2. file[t] \in Texts
    BY <2>1, TableRow
  <2> QED
    BY <2>1, <2>2 DEF Texts
<1>3. file'[t] = file[t] /\ written'[t] = written[t] => Held(t)
  BY <1>1 DEF RecordsKept
<1>4. CASE Held(t)
  <2>1. job.step \in {"truncate", "write"} /\ t = This
    BY <1>4 DEF Held
  <2>2. CASE Still
    <3>1. job' = job
      BY <2>2 DEF Still
    <3> QED
      BY <1>4, <3>1 DEF Held, This
  <2>3. CASE Ended
    <3>1. ~ At("write") /\ file' = file /\ written' = written
      BY <2>1, <2>3 DEF Ended
    <3>2. file[t].body = written[t]
      BY <1>1, <2>1, <3>1 DEF TextsInHand, At
    <3> QED
      BY <1>2, <3>1, <3>2
  <2>4. CASE CodexAppends \/ CodexArchives \/ CodexSavesGlobal
    BY <1>4, <2>4, RunShaken
  <2>5. CASE At("truncate") /\ Truncate
    <3>1. ToStep("write")
      BY <2>5, OwnSteps
    <3>2. This' = This /\ job'.step = "write"
      BY <3>1 DEF This, ToStep, SameWork
    <3> QED
      BY <2>1, <3>2 DEF Held
  <2>6. CASE At("write") /\ Write
    <3>1. This \in DOMAIN job.changes
      BY <2>6, ThisInHand DEF Rewriting, At
    <3>2. New(t).body = Old(t).body
      BY <2>1, <3>1, InHand
    <3>3. Old(t).body = written[t]
      BY <1>1, <2>1, <2>6 DEF TextsInHand, At
    <3>4. file'[t] = New(t) /\ written' = written
      BY <2>1, <2>6 DEF Write, history
    <3> QED
      BY <1>2, <3>2, <3>3, <3>4
  <2> QED
    BY <2>1, <2>2, <2>3, <2>4, <2>5, <2>6, WhileHeld
<1>5. CASE ~ Held(t)
  <2>1. ~ (file'[t] = file[t] /\ written'[t] = written[t])
    BY <1>3, <1>5
  <2>2. CASE Truncate /\ t = This
    BY <1>5, <2>2 DEF Truncate, Held, At
  <2>3. CASE Write /\ t = This
    BY <1>5, <2>3 DEF Write, Held, At
  <2>4. CASE /\ CodexAppends /\ file'[t] = [file[t] EXCEPT !.body = file[t].body + 1]
             /\ written'[t] = written[t] + 1
    <3>1. file'[t].body = file[t].body + 1
      BY <1>2, <2>4 DEF Texts
    <3>2. ~ (file[t].body < written[t])
      BY <1>1, <1>5 DEF RecordsKept
    <3> QED
      BY <1>2, <2>4, <3>1, <3>2
  <2> QED
    BY <2>1, <2>2, <2>3, <2>4, TextSteps
<1> QED
  BY <1>4, <1>5

(* The ends and the beginnings of a run.                                   *)
LEMMA Edges ==
  /\ Ended => job' = Idle
  /\ job' = Idle => job'.step = "idle" /\ job'.kind = "none" /\ job'.changes = <<>>
  /\ Begun => job'.step \in {"kinds", "lookup", "known"} /\ (job'.kind = "sync" => job'.step = "kinds")
<1>1. Ended => job' = Idle
  BY DEF Ended
<1>2. job' = Idle => job'.step = "idle" /\ job'.kind = "none" /\ job'.changes = <<>>
  BY DEF Idle
<1>3. Begun => job'.step \in {"kinds", "lookup", "known"} /\ (job'.kind = "sync" => job'.step = "kinds")
  BY DEF Begun, Began, Idle
<1> QED
  BY <1>1, <1>2, <1>3

(* The counters are numbers, and no backup is newer than the last run.     *)
LEMMA Numbers ==
  ASSUME TypeOK
  PROVE  /\ runs \in Nat /\ trouble \in Nat
         /\ \A b \in backups : b.name \in Nat /\ b.name <= runs
<1>1. runs \in 0..MaxRuns /\ trouble \in 0..MaxTrouble /\ \A b \in backups : b \in [name : 1..runs, complete : BOOLEAN, meta : {b.meta}]
  BY DEF TypeOK
<1>2. MaxRuns \in Nat /\ MaxTrouble \in Nat
  BY BoundsAssumption
<1>3. runs \in Nat /\ trouble \in Nat
  BY <1>1, <1>2
<1>4. \A b \in backups : b.name \in 1..runs
  BY <1>1
<1> QED
  BY <1>3, <1>4

(* A text is in hand after it was opened or truncated, and until it is     *)
(* written.                                                                *)
LEMMA ToHeld ==
  ASSUME TypeOK, Phases, [Next]_vars, job'.step \in {"truncate", "write"}
  PROVE  \/ Still \/ Open
         \/ CodexAppends \/ CodexArchives \/ CodexSavesGlobal
         \/ Truncate
<1>1. ~ Ended
  BY Edges
<1>2. ~ Begun
  BY Edges
<1>3. ~ (UpdateDb \/ RepairDb \/ MoveRows)
  BY OwnSteps DEF UpdateDb, RepairDb, MoveRows, At
<1> QED
  BY <1>1, <1>2, <1>3, StepCases, PhaseSteps, GlobalMoves, OwnSteps DEF Collects, CollectedFrom,
     Skips, Undoes, Finds, Onward, ToStep

(* Steps that leave the collected texts alone, and what becomes of the     *)
(* files that are rewritten.                                               *)
LEMMA WorkSteps ==
  ASSUME TypeOK, Phases, [Next]_vars
  PROVE  \/ Begun \/ Ended \/ Collects \/ Finds \/ (job = Idle /\ job' = Idle)
         \/ /\ job'.kind = job.kind /\ job'.changes = job.changes
            /\ job'.todo \cup job'.applied \subseteq job.todo \cup job.applied
<1> USE DEF SameRun, SameTexts, SameWork, SameDbs, ToStep
<1> DEFINE Goal == /\ job'.kind = job.kind /\ job'.changes = job.changes
                   /\ job'.todo \cup job'.applied \subseteq job.todo \cup job.applied
<1>1. Still => Goal
  BY DEF Still
<1>2. CodexAppends \/ CodexArchives \/ CodexSavesGlobal => Goal
  BY RunShaken
<1>3. ReadKinds \/ Count \/ MakeBackup \/ MarkBackup \/ Open \/ Truncate \/ Write
        \/ UpdateDb \/ RepairDb \/ MoveRows \/ Plan => Goal
  BY OwnSteps
<1>4. Verify => Goal
  <2>1. Verify => This \in job.todo
    BY ThisInHand DEF Verify, Rewriting, At
  <2> QED
    BY <2>1, OwnSteps
<1>5. Skips \/ Undoes => Goal
  BY DEF Skips, Undoes
<1>6. PhaseDone \/ NormalizeGlobal => Goal
  BY PhaseSteps, GlobalMoves DEF Onward
<1>7. (ToStep("plan") => Goal) /\ (Onward("known", "plan") => Goal)
  BY DEF Onward
<1> HIDE DEF Goal
<1>8. Begun \/ Ended \/ Collects \/ Finds \/ Goal
  BY <1>1, <1>2, <1>3, <1>4, <1>5, <1>6, <1>7, StepCases
<1> QED
  BY <1>8 DEF Goal

(* Every step keeps what is known of the text in hand.                     *)
LEMMA TextsHold ==
  ASSUME TypeOK, Phases, TextsInHand, RecordsKept, [Next]_vars
  PROVE  TextsInHand'
<1> DEFINE RW(kind, text) == [text EXCEPT !.meta = IF kind = "sync" THEN {"target"}
                                ELSE {IF p = "openai" THEN "target" ELSE p : p \in @}]
           Fact(c, kind, work, f, w) ==
             \A t \in DOMAIN c :
               /\ t \in DOMAIN f /\ c[t].old.body <= w[t]
               /\ c[t].old.meta # {}
               /\ c[t].new = RW(kind, c[t].old)
               /\ t \in work => c[t].new # c[t].old
           Reads(c, kind, work, f, w) ==
             \A t \in DOMAIN c : /\ t \in DOMAIN f /\ f[t].meta # {}
                                 /\ c[t] = [old |-> f[t], new |-> RW(kind, f[t])]
                                 /\ t \in work => RW(kind, f[t]) # f[t]
<1>1. \A x : Rewritten(x) = RW(job.kind, x)
  BY DEF Rewritten
<1>2. Fact(job.changes, job.kind, job.todo \cup job.applied, file, written)
  BY <1>1 DEF TextsInHand
<1>3. DOMAIN file' = DOMAIN file /\ \A t \in DOMAIN file : /\ written[t] \in Nat /\ written'[t] \in Nat
                                                           /\ written[t] <= written'[t]
  BY HistoryKept, WrittenKept
<1>4. \A t \in DOMAIN file : file[t].body \in Nat /\ file[t].body <= written[t]
  <2>1. IsTable(file, Texts)
    BY DEF TypeOK, IsHistory
  <2>2. \A t \in DOMAIN file : file[t].body <= written[t]
    BY DEF TypeOK
  <2>3. \A t \in DOMAIN file : file[t] \in Texts
    BY <2>1, TableRow
  <2> QED
    BY <2>2, <2>3 DEF Texts
<1>5. \A t \in DOMAIN job.changes : job.changes[t].old.body \in Nat
  BY InHand DEF Texts
<1>6. Fact(job'.changes, job'.kind, job'.todo \cup job'.applied, file', written')
  <2>1. CASE job' = Idle
    BY <2>1 DEF Idle
  <2>2. CASE Begun
    <3>1. job'.changes = <<>>
      BY <2>2 DEF Begun, Began, Idle
    <3> QED
      BY <3>1
  <2>3. ASSUME Reads(job'.changes, job'.kind, job'.todo \cup job'.applied, file, written), written' = written
        PROVE  Fact(job'.changes, job'.kind, job'.todo \cup job'.applied, file', written')
    <3> HIDE DEF RW
    <3>1. ASSUME NEW t \in DOMAIN job'.changes
          PROVE  /\ t \in DOMAIN file' /\ job'.changes[t].old.body <= written'[t]
                 /\ job'.changes[t].old.meta # {}
                 /\ job'.changes[t].new = RW(job'.kind, job'.changes[t].old)
                 /\ t \in job'.todo \cup job'.applied => job'.changes[t].new # job'.changes[t].old
      <4>1. /\ t \in DOMAIN file /\ file[t].meta # {}
            /\ job'.changes[t] = [old |-> file[t], new |-> RW(job'.kind, file[t])]
            /\ t \in job'.todo \cup job'.applied => RW(job'.kind, file[t]) # file[t]
        BY <2>3
      <4>2. job'.changes[t].old = file[t] /\ job'.changes[t].new = RW(job'.kind, file[t])
        BY <4>1
      <4> QED
        BY <1>3, <1>4, <2>3, <4>1, <4>2
    <3> QED
      BY <3>1
  <2>4. CASE Collects
    <3>1. PICK L : CollectedFrom(L)
      BY <2>4 DEF Collects
    <3> DEFINE S == {t \in L : file[t].meta # {}} \ ({t \in {u \in L : file[u].meta # {}} : file[t].agent} \cup job.excluded)
    <3>2. /\ job'.changes = [t \in S |-> [old |-> file[t], new |-> Rewritten(file[t])]]
          /\ job'.todo = RewriteNeeded(S) /\ job'.kind = job.kind /\ S \subseteq DOMAIN file
          /\ \A t \in S : file[t].meta # {}
      BY <3>1 DEF CollectedFrom, SameRun
    <3>3. job'.applied = {}
      <4>1. job'.applied = job.applied /\ job.step = "collect"
        BY <2>4, <3>1 DEF CollectedFrom, Collects, At
      <4>2. job.applied \subseteq DOMAIN job.changes /\ job.changes = <<>>
        BY <4>1 DEF Phases
      <4> QED
        BY <4>1, <4>2
    <3> HIDE DEF S, RW
    <3>4. Reads(job'.changes, job'.kind, job'.todo \cup job'.applied, file, written)
      BY <1>1, <3>2, <3>3 DEF RewriteNeeded
    <3> QED
      BY <2>3, <2>4, <3>4 DEF Collects, history
  <2>5. CASE Finds
    <3>1. PICK t \in DOMAIN file :
            /\ file[t].meta # {}
            /\ job'.changes = [u \in {t} |-> [old |-> file[t], new |-> Rewritten(file[t])]]
            /\ job'.todo = RewriteNeeded({t})
      BY <2>5 DEF Finds
    <3>3. job'.applied = {} /\ job'.kind = job.kind
      <4>1. job'.applied = job.applied /\ job.step = "lookup" /\ job'.kind = job.kind
        BY <2>5 DEF Finds, At, SameRun
      <4>2. job.applied \subseteq DOMAIN job.changes /\ job.changes = <<>>
        BY <4>1 DEF Phases
      <4> QED
        BY <4>1, <4>2
    <3> HIDE DEF RW
    <3>4. Reads(job'.changes, job'.kind, job'.todo \cup job'.applied, file, written)
      BY <1>1, <3>1, <3>3 DEF RewriteNeeded
    <3> QED
      BY <2>3, <2>5, <3>4 DEF Finds, history
  <2>6. ASSUME job'.kind = job.kind, job'.changes = job.changes,
               job'.todo \cup job'.applied \subseteq job.todo \cup job.applied
        PROVE  Fact(job'.changes, job'.kind, job'.todo \cup job'.applied, file', written')
    <3> HIDE DEF RW
    <3>1. ASSUME NEW t \in DOMAIN job.changes PROVE job.changes[t].old.body <= written'[t]
      <4>1. job.changes[t].old.body <= written[t] /\ t \in DOMAIN file
        BY <1>2
      <4> QED
        BY <1>3, <1>5, <4>1
    <3> QED
      BY <1>2, <1>3, <2>6, <3>1
  <2> HIDE DEF Fact, Reads
  <2>7. Ended => job' = Idle
    BY DEF Ended
  <2> QED
    BY <2>1, <2>2, <2>4, <2>5, <2>6, <2>7, WorkSteps
<1> DEFINE Open2 ==
  /\ job.step \in {"truncate", "write"} /\ This \notin hit => Old(This).body = written[This]
  /\ At("truncate") /\ This \notin hit => file[This].body = written[This]
<1>7. Open2'
  <2> SUFFICES ASSUME job'.step \in {"truncate", "write"}, This' \notin hit'
               PROVE  /\ Old(This)'.body = written'[This']
                      /\ job'.step = "truncate" => file'[This'].body = written'[This']
    BY DEF At
  <2>1. CASE Still
    <3>1. job' = job /\ hit' = hit /\ file' = file /\ written' = written
      BY <2>1 DEF Still, disk, history
    <3>2. This' = This /\ Old(This)' = Old(This)
      BY <3>1 DEF This, Old
    <3> QED
      BY <3>1, <3>2 DEF TextsInHand, At
  <2>2. CASE Open
    <3>1. ToStep("truncate") /\ UNCHANGED <<file, hit, written>> /\ At("open")
      BY <2>2, OwnSteps DEF Open, Opened, disk, history
    <3>2. This' = This /\ Old(This)' = Old(This)
      BY <3>1 DEF This, Old, ToStep, SameWork, SameTexts
    <3>3. This \in DOMAIN file
      BY <2>2, ThisInHand, InHand DEF Open
    <3>4. file[This] = Old(This) /\ ~ (file[This].body < written[This])
      BY <2>2, <3>1, <3>2, <3>3 DEF Open, RecordsKept, Held, At
    <3>5. file[This].body = written[This]
      BY <1>3, <1>4, <3>3, <3>4
    <3> QED
      BY <3>1, <3>2, <3>4, <3>5
  <2>3. CASE CodexAppends \/ CodexArchives \/ CodexSavesGlobal
    <3>1. /\ job'.step = job.step /\ This' = This /\ (\A t : Old(t)' = Old(t)) /\ SameWork /\ SameTexts
      BY <2>3, RunShaken
    <3>2. This \in DOMAIN file /\ Held(This)
      BY <3>1, ThisInHand, InHand DEF Held, Rewriting
    <3>3. This \notin hit
      BY <3>1, WrittenKept
    <3>4. file'[This] = file[This] /\ written'[This] = written[This]
      BY <2>3, <3>1, <3>2, TextSteps DEF Truncate, Write, CodexAppends, CodexArchives, CodexSavesGlobal, Trouble
    <3>5. Old(This)' = Old(This)
      BY <3>1 DEF Old, SameWork, SameTexts
    <3> QED
      BY <3>1, <3>3, <3>4, <3>5 DEF TextsInHand, At
  <2>4. CASE Truncate
    <3>1. ToStep("write") /\ UNCHANGED <<hit, written>> /\ At("truncate")
      BY <2>4, OwnSteps DEF Truncate, history
    <3>2. This' = This /\ Old(This)' = Old(This)
      BY <3>1 DEF This, Old, ToStep, SameWork, SameTexts
    <3> QED
      BY <3>1, <3>2 DEF TextsInHand, At, ToStep
  <2> QED
    BY <2>1, <2>2, <2>3, <2>4, ToHeld
<1>8. (\A t \in DOMAIN job.changes :
         /\ t \in DOMAIN file /\ job.changes[t].old.body <= written[t]
         /\ job.changes[t].old.meta # {}
         /\ job.changes[t].new = Rewritten(job.changes[t].old)
         /\ t \in job.todo \cup job.applied => job.changes[t].new # job.changes[t].old)'
  BY <1>6 DEF Rewritten
<1> HIDE DEF RW, Fact, Reads, Open2
<1> QED
  BY <1>7, <1>8 DEF TextsInHand, Open2

-----------------------------------------------------------------------------
(* The backups.                                                            *)

Late == {"update", "match", "plan", "repair", "rows", "prune"} \cup RewriteSteps \cup GlobalSteps

(* The steps behind the backup.                                            *)
LEMMA LateSteps ==
  ASSUME TypeOK, Phases, [Next]_vars, job'.step \in Late, job'.kind # "recovery", ~ MarkBackup
  PROVE  /\ job.step \in Late /\ job.kind # "recovery"
         /\ job'.changes = job.changes /\ job'.todo \cup job'.applied \subseteq job.todo \cup job.applied
         /\ backups' = backups /\ runs' = runs
<1> USE DEF SameRun, SameTexts, SameWork, SameDbs, ToStep, At, Late, RewriteSteps, GlobalSteps
<1>1. ~ Ended /\ ~ Begun /\ job' # Idle
  BY Edges
<1>2. ~ Collects /\ ~ Finds /\ ~ Onward("known", "plan")
  <2>1. Onward("known", "plan") => job'.kind = "recovery"
    BY StepKinds DEF Onward
  <2> QED
    BY <2>1 DEF Collects, CollectedFrom, Finds
<1>3. job'.kind = job.kind /\ job'.changes = job.changes
      /\ job'.todo \cup job'.applied \subseteq job.todo \cup job.applied
  BY <1>1, <1>2, WorkSteps
<1>4. ~ (ReadKinds \/ Count \/ MakeBackup)
  BY OwnSteps
<1>5. CASE Still
  BY <1>3, <1>5 DEF Still, disk
<1>6. CASE CodexAppends \/ CodexArchives \/ CodexSavesGlobal
  BY <1>3, <1>6, RunShaken, CodexSteps
<1>7. CASE Open \/ Truncate \/ Write \/ Verify \/ UpdateDb \/ RepairDb \/ MoveRows \/ Plan
  <2>1. job.step \in Late /\ backups' = backups /\ runs' = runs
    BY <1>7 DEF Open, Opened, Truncate, Write, Verify, UpdateDb, RepairDb, MoveRows, Plan, disk
  <2> QED
    BY <1>3, <2>1
<1>8. CASE Skips \/ Undoes \/ PhaseDone \/ NormalizeGlobal
  <2>1. job.step \in Late /\ backups' = backups /\ runs' = runs
    BY <1>8, PhaseSteps, GlobalMoves DEF Skips, Opened, Undoes, Onward, disk
  <2> QED
    BY <1>3, <2>1
<1>9. CASE At("match") /\ ToStep("plan") /\ UNCHANGED <<disk, answer, runs, history>>
  BY <1>3, <1>9 DEF disk
<1> QED
  BY <1>1, <1>2, <1>4, <1>5, <1>6, <1>7, <1>8, <1>9, StepCases

(* Every step keeps what the backups say of the runs that wrote them.      *)
LEMMA BackupsHold ==
  ASSUME TypeOK, Phases, BackupInv, [Next]_vars
  PROVE  BackupInv'
<1> DEFINE Saved(B, n, work, c) ==
             \E b \in B : /\ b.complete /\ b.name = n
                          /\ \A t \in work : t \in DOMAIN b.meta /\ b.meta[t] = c[t].old.meta
<1>1. job.kind # "recovery" /\ job.step \in Late =>
        Saved(backups, runs, job.todo \cup job.applied, job.changes)
  BY DEF BackupInv, Late
<1>2. job' # Idle => runs' > 0
  <2>1. runs \in Nat
    BY Numbers
  <2>2. Begun \/ runs' = runs
    BY StepCases, CodexSteps, PhaseSteps, GlobalMoves DEF Still, Ended, ReadKinds, Collects, Count,
       MakeBackup, MarkBackup, Open, Skips, Verify, UpdateDb, Plan, RepairDb, MoveRows, Undoes, Finds, Onward,
       Truncate, Write
  <2>3. Begun => runs' = runs + 1
    BY DEF Begun, Began
  <2>4. job' # Idle => Begun \/ job # Idle
    <3>1. job.step # "idle" => job # Idle
      BY StepKinds
    <3>2. Still \/ CodexAppends \/ CodexArchives \/ CodexSavesGlobal => ((job' = Idle) <=> (job = Idle))
      BY RunShaken DEF Still
    <3>3. ReadKinds \/ Collects \/ Count \/ MakeBackup \/ MarkBackup \/ Open \/ Skips \/ Truncate \/ Write \/ Verify
            \/ PhaseDone \/ UpdateDb \/ Plan \/ RepairDb \/ MoveRows \/ NormalizeGlobal \/ Undoes \/ Finds
            \/ At("match") \/ Onward("known", "plan") => job.step # "idle"
      BY PhaseSteps, GlobalMoves DEF ReadKinds, Collects, Count, MakeBackup, MarkBackup, Open, Opened, Skips,
         Truncate, Write, Verify, UpdateDb, Plan, RepairDb, MoveRows, Undoes, Finds, Onward, At
    <3>4. Ended => job' = Idle
      BY DEF Ended
    <3> QED
      BY <3>1, <3>2, <3>3, <3>4, StepCases
  <2>5. job # Idle => runs > 0
    BY DEF BackupInv
  <2> QED
    BY <2>1, <2>2, <2>3, <2>4, <2>5
<1>3. job'.step = "marker" => job'.backup = runs'
  <2> SUFFICES ASSUME job'.step = "marker" PROVE job'.backup = runs'
    OBVIOUS
  <2>1. CASE MakeBackup
    BY <2>1, OwnSteps DEF MakeBackup
  <2>2. CASE Still
    BY <2>2 DEF Still, BackupInv, At
  <2>3. CASE CodexAppends \/ CodexArchives \/ CodexSavesGlobal
    BY <2>3, RunShaken, CodexSteps DEF BackupInv, At, SameDbs
  <2>4. ~ Ended /\ ~ Begun /\ ~ Collects /\ ~ Finds /\ ~ Skips /\ ~ Undoes /\ ~ Onward("known", "plan")
    BY Edges DEF Collects, CollectedFrom, Finds, Skips, Undoes, Onward
  <2>5. ~ (PhaseDone \/ NormalizeGlobal \/ ToStep("plan"))
    BY PhaseSteps, GlobalMoves DEF Onward, ToStep
  <2>6. ~ (ReadKinds \/ Count \/ MarkBackup \/ Open \/ Truncate \/ Write \/ Verify \/ Plan)
    BY OwnSteps DEF ToStep
  <2>7. ~ (UpdateDb \/ RepairDb \/ MoveRows)
    BY OwnSteps DEF UpdateDb, RepairDb, MoveRows, At
  <2> QED
    BY <2>1, <2>2, <2>3, <2>4, <2>5, <2>6, <2>7, StepCases
<1>4. job'.kind # "recovery" /\ job'.step \in Late =>
        Saved(backups', runs', job'.todo \cup job'.applied, job'.changes)
  <2> SUFFICES ASSUME job'.kind # "recovery", job'.step \in Late
               PROVE  Saved(backups', runs', job'.todo \cup job'.applied, job'.changes)
    OBVIOUS
  <2>1. CASE MarkBackup
    <3> DEFINE m == [t \in job.todo |-> job.changes[t].old.meta]
               b == [name |-> job.backup, complete |-> TRUE, meta |-> m]
    <3>1. job.backup = runs /\ job.applied = {}
      BY <2>1 DEF MarkBackup, BackupInv, Phases, At
    <3>2. b \in backups' /\ runs' = runs
      BY <2>1 DEF MarkBackup
    <3>3. job'.todo = job.todo /\ job'.applied = job.applied /\ job'.changes = job.changes
      BY <2>1, OwnSteps DEF ToStep, SameWork, SameTexts
    <3>4. b.complete /\ b.name = runs /\ b.meta = m
      BY <3>1
    <3>5. \A t \in job.todo : t \in DOMAIN m /\ m[t] = job.changes[t].old.meta
      OBVIOUS
    <3> HIDE DEF b, m
    <3> QED
      BY <3>1, <3>2, <3>3, <3>4, <3>5
  <2>2. CASE ~ MarkBackup
    <3>1. /\ job.step \in Late /\ job.kind # "recovery" /\ job'.changes = job.changes
          /\ job'.todo \cup job'.applied \subseteq job.todo \cup job.applied
          /\ backups' = backups /\ runs' = runs
      BY <2>2, LateSteps
    <3> QED
      BY <1>1, <3>1
  <2> QED
    BY <2>1, <2>2
<1> QED
  BY <1>2, <1>3, <1>4 DEF BackupInv, At, Late

(* Before the lines of a file change their old form is in the backup, and  *)
(* a run that ends well leaves it there.                                   *)
LEMMA BackedUp ==
  ASSUME TypeOK, Phases, BackupInv, [Next]_vars, OwnStep, ~ job.undo,
         At("truncate") \/ (job.kind # "recovery" /\ job # Idle /\ answer' = "synced"),
         NEW t \in job.applied \cup (IF At("truncate") THEN {This} ELSE {})
  PROVE  \E b \in backups' : /\ b.complete /\ t \in DOMAIN b.meta
                             /\ b.meta[t] = job.changes[t].old.meta
<1>1. trouble' = trouble /\ trouble \in Nat
  BY Numbers DEF OwnStep
<1>2. ~ Trouble
  BY <1>1 DEF Trouble
<1>3. CASE At("truncate")
  <2>1. backups' = backups
    <3>1. ~ Prune
      BY <1>3 DEF Prune, At
    <3> QED
      BY <1>3, <3>1, WhileHeld, CodexSteps DEF At, Still, Ended, Truncate, disk
  <2>2. job.kind # "recovery"
    BY <1>3 DEF Phases, RepairSteps, At
  <2>3. t \in job.todo \cup job.applied
    BY <1>3, ThisInHand DEF Rewriting, At
  <2>4. \E b \in backups : /\ b.complete /\ b.name = runs
                           /\ \A u \in job.todo \cup job.applied :
                                u \in DOMAIN b.meta /\ b.meta[u] = job.changes[u].old.meta
    BY <1>3, <2>2 DEF BackupInv, At, RewriteSteps
  <2> QED
    BY <2>1, <2>3, <2>4
<1>4. CASE ~ At("truncate")
  <2>1. job.kind # "recovery" /\ job # Idle /\ answer' = "synced" /\ answer = "none"
    BY <1>4 DEF Phases
  <2>2. Prune
    <3>1. Ended => Prune
      BY <2>1 DEF Ended
    <3>2. ~ (Still \/ CodexAppends \/ CodexArchives \/ CodexSavesGlobal)
      BY <2>1, CodexSteps DEF Still
    <3>3. ~ Begun
      BY <2>1 DEF Begun, Began
    <3>4. ~ (ReadKinds \/ Collects \/ Count \/ MakeBackup \/ MarkBackup \/ Open \/ Skips \/ Truncate \/ Write \/ Verify
            \/ PhaseDone \/ UpdateDb \/ Plan \/ RepairDb \/ MoveRows \/ NormalizeGlobal \/ Undoes \/ Finds
            \/ Onward("known", "plan"))
      BY <2>1, PhaseSteps, GlobalMoves DEF ReadKinds, Collects, Count, MakeBackup, MarkBackup, Open, Skips,
         Truncate, Write, Verify, UpdateDb, Plan, RepairDb, MoveRows, Undoes, Finds, Onward
    <3> QED
      BY <2>1, <3>1, <3>2, <3>3, <3>4, StepCases
  <2>3. PICK b \in backups : /\ b.complete /\ b.name = runs
                             /\ \A u \in job.todo \cup job.applied :
                                  u \in DOMAIN b.meta /\ b.meta[u] = job.changes[u].old.meta
    BY <2>1, <2>2 DEF Prune, BackupInv, At
  <2>4. {c \in backups : c.complete /\ c.name > b.name} = {}
    <3>1. runs \in Nat /\ \A c \in backups : c.name \in Nat /\ c.name <= runs
      BY Numbers
    <3> QED
      BY <2>3, <3>1
  <2>5. Cardinality({c \in backups : c.complete /\ c.name > b.name}) < BACKUP_KEEP_COUNT
    BY <2>4, FS_EmptySet, BoundsAssumption
  <2>6. b \in backups'
    BY <2>2, <2>5 DEF Prune
  <2>7. t \in job.applied
    BY <1>4
  <2> QED
    BY <2>3, <2>6, <2>7
<1> QED
  BY <1>3, <1>4

-----------------------------------------------------------------------------
(* The evidence of agents.                                                 *)

(* The steps of a sync that has read everything.                           *)
LEMMA CollectedSteps ==
  ASSUME TypeOK, Phases, [Next]_vars, job'.kind = "sync", job'.step \notin {"kinds", "collect"}, ~ Collects
  PROVE  /\ job.kind = "sync" /\ job.step \notin {"kinds", "collect"} /\ SameTexts /\ start' = start
         /\ job'.skipped = job.skipped \/ (Skips /\ ~ job.undo /\ job'.skipped = job.skipped \cup {This})
         /\ \A t \in job.todo \cup job.applied : t \in job'.skipped \cup job'.todo \cup job'.applied
<1> USE DEF SameRun, SameTexts, SameWork, SameDbs, ToStep, At
<1> DEFINE Goal == /\ job.kind = "sync" /\ job.step \notin {"kinds", "collect"} /\ SameTexts /\ start' = start
                   /\ job'.skipped = job.skipped \/ (Skips /\ ~ job.undo /\ job'.skipped = job.skipped \cup {This})
                   /\ \A t \in job.todo \cup job.applied : t \in job'.skipped \cup job'.todo \cup job'.applied
<1>1. ~ Ended /\ ~ Begun /\ job' # Idle
  BY Edges
<1>2. ~ Finds /\ ~ Onward("known", "plan") /\ ~ ReadKinds
        /\ ~ (At("match") /\ ToStep("plan") /\ UNCHANGED <<disk, answer, runs, history>>)
  BY StepKinds, OwnSteps DEF Onward, Finds
<1>3. CASE Still
  BY <1>3 DEF Still, history
<1>4. CASE CodexAppends \/ CodexArchives \/ CodexSavesGlobal
  BY <1>4, RunShaken, CodexSteps
<1>5. CASE Count \/ MakeBackup \/ MarkBackup \/ Open \/ Truncate \/ Write \/ UpdateDb \/ RepairDb \/ MoveRows \/ Plan
  <2>1. start' = start /\ job.step \notin {"kinds", "collect"}
    BY <1>5 DEF Count, MakeBackup, MarkBackup, Open, Opened, Truncate, Write, UpdateDb, RepairDb, MoveRows, Plan, history
  <2> QED
    BY <1>5, <2>1, OwnSteps
<1>6. CASE Verify
  <2>1. start' = start /\ job.step \notin {"kinds", "collect"}
    BY <1>6 DEF Verify, history
  <2>2. job.undo => This \in job.applied
    BY <1>6, ThisInHand DEF Verify, Rewriting
  <2> QED
    BY <1>6, <2>1, <2>2, OwnSteps
<1>7. CASE Skips
  <2>1. start' = start /\ job.step \notin {"kinds", "collect"}
    BY <1>7 DEF Skips, Opened, history
  <2>2. job.undo => This \in job.applied
    BY <1>7, ThisInHand DEF Skips
  <2> QED
    BY <1>7, <2>1, <2>2 DEF Skips
<1>8. CASE Undoes
  <2>1. job.todo = {}
    BY <1>8 DEF Undoes, Phases, RewriteSteps
  <2> QED
    BY <1>8, <2>1 DEF Undoes, history
<1>9. CASE PhaseDone \/ NormalizeGlobal
  BY <1>9, PhaseSteps, GlobalMoves DEF Onward, history
<1> QED
  BY <1>1, <1>2, <1>3, <1>4, <1>5, <1>6, <1>7, <1>8, <1>9, StepCases

(* Which steps lead to a step that reads.                                  *)
LEMMA ReadingSteps ==
  ASSUME TypeOK, Phases, [Next]_vars, job'.step \in {"kinds", "collect", "count"}
  PROVE  \/ Begun
         \/ Still \/ CodexAppends \/ CodexArchives \/ CodexSavesGlobal
         \/ ReadKinds \/ Collects
<1>1. ~ Ended
  BY Edges
<1>2. ~ (Count \/ MakeBackup \/ MarkBackup \/ Open \/ Truncate \/ Write \/ Verify \/ Plan)
  BY OwnSteps DEF ToStep
<1>3. ~ (UpdateDb \/ RepairDb \/ MoveRows)
  BY OwnSteps DEF UpdateDb, RepairDb, MoveRows, At
<1>4. ~ (PhaseDone \/ NormalizeGlobal \/ Undoes \/ Skips \/ Finds \/ ToStep("plan") \/ Onward("known", "plan"))
  BY PhaseSteps, GlobalMoves DEF Onward, Undoes, Skips, Finds, ToStep
<1> QED
  BY <1>1, <1>2, <1>3, <1>4, StepCases

(* Codex changes nothing that says who an agent is.                        *)
LEMMA AgentsShaken ==
  ASSUME TypeOK, CodexAppends \/ CodexArchives \/ CodexSavesGlobal
  PROVE  Subagents(db') = Subagents(db)
<1>1. CASE CodexArchives
  BY <1>1, Archived, SameMarksSameAgents
<1>2. CASE CodexAppends \/ CodexSavesGlobal
  BY <1>2, CodexSteps
<1> QED
  BY <1>1, <1>2

(* Every step keeps what the evidence collected says of the history.       *)
LEMMA EvidenceHold ==
  ASSUME TypeOK, Phases, TextsInHand, EvidenceInv, [Next]_vars
  PROVE  EvidenceInv'
<1> USE DEF At
<1>h. DOMAIN file' = DOMAIN file
  BY HistoryKept
<1>1. job'.kind = "sync" /\ job'.step \in {"kinds", "collect", "count"} =>
        Subagents(db') = Subagents(start'.db)
  <2> SUFFICES ASSUME job'.kind = "sync", job'.step \in {"kinds", "collect", "count"}
               PROVE  Subagents(db') = Subagents(start'.db)
    OBVIOUS
  <2>1. CASE Begun
    <3>1. db' = db /\ start' = Snapshot
      BY <2>1 DEF Begun, Began
    <3>2. start'.db = db
      BY <3>1 DEF Snapshot
    <3> QED
      BY <3>1, <3>2
  <2>2. Reading => Subagents(db) = Subagents(start.db)
    BY DEF EvidenceInv
  <2>3. CASE Still
    <3>1. job' = job /\ db' = db /\ start' = start
      BY <2>3 DEF Still, disk, history
    <3> QED
      BY <2>2, <3>1 DEF Reading
  <2>4. CASE CodexAppends \/ CodexArchives \/ CodexSavesGlobal
    <3>1. Reading /\ start' = start
      BY <2>4, RunShaken, CodexSteps DEF Reading
    <3> QED
      BY <2>2, <2>4, <3>1, AgentsShaken
  <2>5. CASE ReadKinds \/ Collects
    <3>1. /\ Reading /\ start' = start /\ db' = db
      <4>1. job.kind = "sync"
        BY <2>5, StepKinds DEF ReadKinds, Collects
      <4> QED
        BY <2>5, <4>1 DEF Reading, ReadKinds, Collects, disk, history
    <3> QED
      BY <2>2, <3>1
  <2> QED
    BY <2>1, <2>3, <2>4, <2>5, ReadingSteps
<1>2. job'.kind = "sync" /\ job'.step = "collect" => job'.excluded = Subagents(start'.db)
  <2> SUFFICES ASSUME job'.kind = "sync", job'.step = "collect" PROVE job'.excluded = Subagents(start'.db)
    OBVIOUS
  <2>1. ~ Begun /\ ~ Collects
    BY DEF Begun, Began, Idle, Collects, CollectedFrom
  <2>2. CASE Still
    BY <2>2 DEF Still, history, EvidenceInv
  <2>3. CASE CodexAppends \/ CodexArchives \/ CodexSavesGlobal
    BY <2>3, RunShaken, CodexSteps DEF EvidenceInv, SameTexts
  <2>4. CASE ReadKinds
    <3>1. Reading /\ start' = start /\ job'.excluded = Subagents(db)
      <4>1. job.kind = "sync"
        BY <2>4, StepKinds DEF ReadKinds
      <4> QED
        BY <2>4, <4>1, OwnSteps DEF Reading, ReadKinds, history
    <3> QED
      BY <3>1 DEF EvidenceInv
  <2> QED
    BY <2>1, <2>2, <2>3, <2>4, ReadingSteps
<1> DEFINE Parts ==
  /\ \A t \in Threads : t \in job.excluded <=> AgentEvidence(t)
  /\ \A t \in DOMAIN job.changes : t \notin job.excluded /\ ~ job.changes[t].old.agent
  /\ job.events \subseteq DOMAIN job.changes
  /\ \A t \in DOMAIN file \ (job.excluded \cup job.skipped \cup DOMAIN job.changes) : file[t].meta = {}
  /\ \A t \in DOMAIN job.changes :
       /\ t \in job.skipped \/ t \in job.todo \cup job.applied
            \/ job.changes[t].new = job.changes[t].old
       /\ t \in job.events <=> job.changes[t].old.event
<1>3. Collected => Parts
  BY DEF EvidenceInv
<1>4. ASSUME Collected' PROVE Parts'
  <2>1. job'.kind = "sync" /\ job'.step \notin {"kinds", "collect"}
    BY <1>4 DEF Collected
  <2>2. CASE Collects
    <3>1. PICK L : CollectedFrom(L)
      BY <2>2 DEF Collects
    <3>2. job.kind = "sync" /\ At("collect") /\ start' = start /\ file' = file /\ job.excluded = Subagents(start.db)
      BY <2>1, <2>2, <3>1 DEF Collects, CollectedFrom, SameRun, disk, history, EvidenceInv
    <3> DEFINE ids == {t \in L : file[t].meta # {}}
               agents == {t \in ids : file[t].agent}
               S == ids \ (agents \cup job.excluded)
    <3>3. /\ L \subseteq DOMAIN file
          /\ job'.excluded = job.excluded \cup agents
          /\ job'.skipped = DOMAIN file \ L
          /\ job'.changes = [t \in S |-> [old |-> file[t], new |-> Rewritten(file[t])]]
          /\ job'.events = {t \in S : file[t].event}
          /\ job'.todo = {t \in S : Rewritten(file[t]) # file[t]}
      BY <3>1 DEF CollectedFrom, RewriteNeeded
    <3>4. \A t \in DOMAIN file : file[t].agent => file[t].meta # {}
      BY DEF TypeOK, IsHistory
    <3>5. \A t : t \in agents <=> t \in L /\ file[t].agent
      BY <3>3, <3>4
    <3>6. \A t : AgentEvidence(t)' <=> (t \in Subagents(start.db) \/ (t \in L /\ file[t].agent))
      BY <3>2, <3>3 DEF AgentEvidence
    <3>7. /\ DOMAIN job'.changes = S
          /\ \A t \in S : job'.changes[t].old = file[t] /\ job'.changes[t].new = Rewritten(file[t])
      BY <3>3
    <3>8. /\ S \cap job'.excluded = {} /\ \A t \in S : t \in L /\ ~ file[t].agent
          /\ \A t \in L : t \in S \/ t \in job'.excluded \/ file[t].meta = {}
      BY <3>3, <3>5
    <3> HIDE DEF S, agents, ids
    <3>9. \A t \in Threads : t \in job'.excluded <=> AgentEvidence(t)'
      BY <3>2, <3>3, <3>5, <3>6
    <3>10. \A t \in DOMAIN job'.changes : t \notin job'.excluded /\ ~ job'.changes[t].old.agent
      BY <3>7, <3>8
    <3>11. \A t \in DOMAIN file' \ (job'.excluded \cup job'.skipped \cup DOMAIN job'.changes) : file'[t].meta = {}
      BY <3>2, <3>3, <3>7, <3>8
    <3>12. \A t \in DOMAIN job'.changes :
             /\ t \in job'.skipped \/ t \in job'.todo \cup job'.applied
                  \/ job'.changes[t].new = job'.changes[t].old
             /\ t \in job'.events <=> job'.changes[t].old.event
      BY <3>3, <3>7
    <3>13. job'.events \subseteq DOMAIN job'.changes
      BY <3>3, <3>7
    <3> QED
      BY <3>9, <3>10, <3>11, <3>12, <3>13
  <2>3. CASE ~ Collects
    <3>1. /\ job.kind = "sync" /\ job.step \notin {"kinds", "collect"} /\ SameTexts /\ start' = start
          /\ job'.skipped = job.skipped \/ (Skips /\ ~ job.undo /\ job'.skipped = job.skipped \cup {This})
          /\ \A t \in job.todo \cup job.applied : t \in job'.skipped \cup job'.todo \cup job'.applied
      BY <2>1, <2>3, CollectedSteps
    <3>2. Parts
      BY <1>3, <3>1 DEF Collected
    <3>3. job.skipped \subseteq job'.skipped /\ \A t \in job'.skipped : t \in job.skipped \/ t \in DOMAIN job.changes
      BY <3>1, ThisInHand DEF Skips
    <3>4. /\ job'.excluded = job.excluded /\ job'.events = job.events /\ job'.changes = job.changes
      BY <3>1 DEF SameTexts
    <3>5. ASSUME NEW t \in DOMAIN file
          PROVE  /\ file'[t].agent = file[t].agent \/ (t \in DOMAIN job.changes /\ ~ file'[t].agent)
                 /\ t \notin DOMAIN job.changes => file'[t].meta = file[t].meta
      <4>1. CASE file'[t] = file[t]
        BY <4>1
      <4>2. CASE Truncate /\ t = This /\ file'[t] = Empty
        <5>1. t \in DOMAIN job.changes
          BY <4>2, ThisInHand DEF Truncate, Rewriting
        <5>2. ~ Empty.agent
          BY DEF Empty
        <5>3. ~ file'[t].agent
          BY <4>2, <5>2
        <5> QED
          BY <5>1, <5>3
      <4>3. CASE Write /\ t = This /\ file'[t] = New(t)
        <5>1. t \in DOMAIN job.changes
          BY <4>3, ThisInHand DEF Write, Rewriting
        <5>2. New(t).agent = job.changes[t].old.agent
          BY <5>1, InHand
        <5>3. ~ job.changes[t].old.agent
          BY <3>2, <5>1
        <5>4. file'[t].agent = job.changes[t].old.agent
          BY <4>3, <5>2
        <5>5. ~ file'[t].agent
          BY <5>3, <5>4
        <5> QED
          BY <5>1, <5>5
      <4>4. CASE file'[t] = [file[t] EXCEPT !.body = file[t].body + 1]
        <5>1. IsTable(file, Texts)
          BY DEF TypeOK, IsHistory
        <5>2. file[t] \in Texts
          BY <5>1, TableRow
        <5> QED
          BY <4>4, <5>2 DEF Texts
      <4> QED
        BY <4>1, <4>2, <4>3, <4>4, TextSteps
    <3>6. ASSUME NEW t \in Threads PROVE t \in job'.excluded <=> AgentEvidence(t)'
      <4>1. AgentEvidence(t) <=> (t \in Subagents(start.db) \/ (t \in DOMAIN file \ job.skipped /\ file[t].agent))
        BY DEF AgentEvidence
      <4>2. AgentEvidence(t)' <=> (t \in Subagents(start.db) \/ (t \in DOMAIN file \ job'.skipped /\ file'[t].agent))
        BY <1>h, <3>1 DEF AgentEvidence
      <4>3. t \in job.excluded <=> AgentEvidence(t)
        BY <3>2
      <4>4. CASE t \in DOMAIN job.changes
        <5>1. t \notin job.excluded
          BY <3>2, <4>4
        <5>2. t \in DOMAIN file
          BY <4>4, InHand
        <5> QED
          BY <3>3, <3>4, <3>5, <4>1, <4>2, <4>3, <5>1, <5>2
      <4>5. CASE t \notin DOMAIN job.changes
        BY <3>3, <3>4, <3>5, <4>1, <4>2, <4>3, <4>5
      <4> QED
        BY <4>4, <4>5
    <3>7. \A t \in DOMAIN file' \ (job'.excluded \cup job'.skipped \cup DOMAIN job'.changes) : file'[t].meta = {}
      BY <1>h, <3>2, <3>3, <3>4, <3>5
    <3>8. \A t \in DOMAIN job'.changes :
             /\ t \in job'.skipped \/ t \in job'.todo \cup job'.applied
                  \/ job'.changes[t].new = job'.changes[t].old
             /\ t \in job'.events <=> job'.changes[t].old.event
      BY <3>1, <3>2, <3>3, <3>4
    <3>9. \A t \in DOMAIN job'.changes : t \notin job'.excluded /\ ~ job'.changes[t].old.agent
      BY <3>2, <3>4
    <3>10. job'.events \subseteq DOMAIN job'.changes
      BY <3>2, <3>4
    <3> QED
      BY <3>6, <3>7, <3>8, <3>9, <3>10
  <2> QED
    BY <2>2, <2>3
<1> QED
  BY <1>1, <1>2, <1>4 DEF EvidenceInv, Reading

-----------------------------------------------------------------------------
(* The files of a sync.                                                    *)

(* The steps within a sync.                                                *)
LEMMA SyncGoesOn ==
  ASSUME TypeOK, Phases, [Next]_vars, job'.kind = "sync", ~ Begun
  PROVE  /\ job.kind = "sync" /\ job # Idle /\ job' # Idle /\ ~ Ended /\ ~ Finds
         /\ ~ (At("match") /\ ToStep("plan") /\ UNCHANGED <<disk, answer, runs, history>>)
         /\ ~ Onward("known", "plan") /\ ~ MoveRows
         /\ start' = start
         /\ job'.quiet = job.quiet \/ ~ job'.quiet
<1>1. ~ Ended /\ job' # Idle
  BY Edges
<1>2. job.kind = "sync" /\ job # Idle
  <2>1. Collects \/ Finds => job'.kind = job.kind
    BY DEF Collects, CollectedFrom, Finds, SameRun
  <2>2. job = Idle => job.kind = "none"
    BY DEF Idle
  <2> QED
    BY <1>1, <2>1, <2>2, WorkSteps
<1>3. /\ ~ Finds /\ ~ (At("match") /\ ToStep("plan") /\ UNCHANGED <<disk, answer, runs, history>>)
      /\ ~ Onward("known", "plan")
  BY <1>2, StepKinds DEF Finds, Onward
<1>4. ~ MoveRows
  BY <1>2 DEF MoveRows, At, Phases, SyncSteps, RewriteSteps, GlobalSteps
<1>5. start' = start /\ (job'.quiet = job.quiet \/ ~ job'.quiet)
  <2>1. CASE Still
    BY <2>1 DEF Still, history
  <2>2. CASE CodexAppends \/ CodexArchives \/ CodexSavesGlobal
    BY <1>2, <2>2, RunShaken, CodexSteps
  <2>3. CASE \/ Collects \/ ReadKinds \/ Count \/ MakeBackup \/ MarkBackup
             \/ Open \/ Truncate \/ Write \/ Verify \/ UpdateDb \/ RepairDb \/ Plan
    BY <2>3, OwnSteps DEF Collects, CollectedFrom, ReadKinds, Count, MakeBackup, MarkBackup,
       Open, Truncate, Write, Verify, UpdateDb, RepairDb, Plan, history, SameRun, ToStep
  <2>4. CASE PhaseDone \/ NormalizeGlobal \/ Skips \/ Undoes
    BY <2>4, PhaseSteps, GlobalMoves DEF Onward, Skips, Undoes, history, SameRun
  <2> QED
    BY <1>1, <1>3, <1>4, <2>1, <2>2, <2>3, <2>4, StepCases
<1> QED
  BY <1>1, <1>2, <1>3, <1>4, <1>5

(* What was steady at the end of a step was so before.                     *)
LEMMA SteadyBefore ==
  ASSUME TypeOK, Phases, TextsInHand, [Next]_vars, job'.kind = "sync", ~ Begun,
         NEW t \in DOMAIN file, Steady(t)'
  PROVE  Steady(t)
<1>1. start' = start /\ (job'.quiet = job.quiet \/ ~ job'.quiet)
  BY SyncGoesOn
<1>2. /\ written[t] \in Nat /\ written'[t] \in Nat /\ written[t] <= written'[t] /\ hit \subseteq hit'
  BY WrittenKept
<1>3. start.written[t] \in Nat /\ start.written[t] <= written[t]
  BY DEF TypeOK
<1>4. CASE job'.quiet
  BY <1>1, <1>4 DEF Steady
<1>5. CASE ~ job'.quiet
  <2>1. written'[t] = start.written[t] /\ t \notin hit'
    BY <1>1, <1>5 DEF Steady
  <2>2. written[t] = start.written[t] /\ t \notin hit
    BY <1>2, <1>3, <2>1
  <2> QED
    BY <2>2 DEF Steady
<1> QED
  BY <1>4, <1>5

(* The steps that neither take a file nor give one back.                   *)
LEMMA SameExpected ==
  ASSUME SameWork, job'.changes = job.changes, start' = start, NEW t,
         \/ job'.step = job.step
         \/ job.step \notin {"write", "verify"} /\ job'.step \notin {"write", "verify"}
  PROVE  Expected(t)' = Expected(t)
<1>1. This' = This /\ New(t)' = New(t)
  BY DEF This, New, SameWork
<1> QED
  BY <1>1 DEF Expected, At, SameWork

(* Every step keeps what the run has done to the rollout files so far.     *)
LEMMA FilesHold ==
  ASSUME TypeOK, Phases, TextsInHand, FilesInv, [Next]_vars
  PROVE  FilesInv'
<1> SUFFICES ASSUME job'.kind = "sync", NEW t \in DOMAIN file, Steady(t)'
             PROVE  /\ file'[t] = Expected(t)'
                    /\ t \in DOMAIN job'.changes => job'.changes[t].old = start'.file[t]
  BY HistoryKept DEF FilesInv
<1>1. CASE Begun
  <2>1. file' = file /\ start' = Snapshot /\ job'.applied = {} /\ job'.changes = <<>> /\ job'.step \notin {"write", "verify"}
    BY <1>1 DEF Begun, Began, Idle
  <2>2. start'.file = file
    BY <2>1 DEF Snapshot
  <2> QED
    BY <2>1, <2>2 DEF Expected, At
<1>2. CASE ~ Begun
  <2>1. /\ job.kind = "sync" /\ job # Idle /\ start' = start
        /\ ~ Ended /\ ~ Finds /\ ~ Onward("known", "plan") /\ ~ MoveRows
        /\ ~ (At("match") /\ ToStep("plan") /\ UNCHANGED <<disk, answer, runs, history>>)
    BY <1>2, SyncGoesOn
  <2>2. file[t] = Expected(t) /\ (t \in DOMAIN job.changes => job.changes[t].old = start.file[t])
    BY <1>2, <2>1, SteadyBefore DEF FilesInv
  <2>3. ASSUME file'[t] = file[t], job'.changes = job.changes, SameWork,
               \/ job'.step = job.step
               \/ job.step \notin {"write", "verify"} /\ job'.step \notin {"write", "verify"}
        PROVE  /\ file'[t] = Expected(t)'
               /\ t \in DOMAIN job'.changes => job'.changes[t].old = start'.file[t]
    BY <2>1, <2>2, <2>3, SameExpected
  <2>4. CASE Still
    <3>1. job' = job /\ file' = file
      BY <2>4 DEF Still, disk
    <3> QED
      BY <2>3, <3>1 DEF SameWork
  <2>5. CASE CodexAppends \/ CodexArchives \/ CodexSavesGlobal
    <3>1. job'.step = job.step /\ job'.changes = job.changes /\ SameWork /\ ~ job'.quiet
      BY <2>1, <2>5, RunShaken DEF SameTexts
    <3>2. CASE file'[t] = file[t]
      BY <2>3, <3>1, <3>2
    <3>3. CASE written'[t] = written[t] + 1
      <4>1. written'[t] = start.written[t]
        BY <2>1, <3>1 DEF Steady
      <4>2. written[t] \in Nat /\ start.written[t] \in Nat /\ start.written[t] <= written[t]
        BY DEF TypeOK
      <4> QED
        BY <3>3, <4>1, <4>2
    <3>4. ~ Truncate /\ ~ Write
      BY <2>5, <3>1, OwnSteps DEF Truncate, Write, At, ToStep
    <3> QED
      BY <3>2, <3>3, <3>4, TextSteps
  <2>6. CASE ReadKinds \/ Count \/ MakeBackup \/ MarkBackup \/ Open \/ Plan \/ UpdateDb \/ RepairDb
    <3>1. file' = file /\ job.step \notin {"write", "verify"}
      BY <2>6 DEF ReadKinds, Count, MakeBackup, MarkBackup, Open, Opened, Plan, UpdateDb, RepairDb, disk, At
    <3>2. /\ job'.changes = job.changes /\ SameWork
          /\ job'.step = job.step \/ job'.step \notin {"write", "verify"}
      BY <2>6, OwnSteps DEF ToStep, SameTexts
    <3> QED
      BY <2>3, <3>1, <3>2
  <2>7. CASE PhaseDone
    <3>1. file' = file /\ SameTexts /\ SameWork
          /\ job.step \notin {"write", "verify"} /\ job'.step \notin {"write", "verify"}
      BY <2>7, PhaseSteps DEF Onward, At, disk
    <3> QED
      BY <2>3, <3>1 DEF SameTexts
  <2>8. CASE NormalizeGlobal
    <3>1. file' = file /\ SameTexts /\ SameWork
          /\ job.step \notin {"write", "verify"} /\ job'.step \notin {"write", "verify"}
      BY <2>8, GlobalMoves DEF At
    <3> QED
      BY <2>3, <3>1 DEF SameTexts
  <2>9. CASE Collects
    <3>1. job.applied = {} /\ file' = file /\ At("collect")
      BY <2>9 DEF Collects, Phases, At, disk
    <3>2. PICK L : CollectedFrom(L)
      BY <2>9 DEF Collects
    <3>3. job'.applied = {} /\ job'.step = "count"
      BY <3>1, <3>2 DEF CollectedFrom
    <3>4. \A u \in DOMAIN job'.changes : job'.changes[u].old = file[u]
      BY <3>2 DEF CollectedFrom
    <3>5. file[t] = start.file[t]
      BY <2>2, <3>1 DEF Expected, At
    <3>6. Expected(t)' = start'.file[t]
      BY <3>3 DEF Expected, At
    <3> QED
      BY <2>1, <3>1, <3>4, <3>5, <3>6
  <2>10. CASE Truncate
    <3>1. job'.step = "write" /\ job.step = "truncate" /\ SameWork /\ job'.changes = job.changes
      BY <2>10, OwnSteps DEF Truncate, At, ToStep, SameTexts
    <3>2. This' = This
      BY <3>1 DEF This, SameWork
    <3>3. CASE t = This
      <4>1. file'[t] = Empty
        BY <2>10, <3>3 DEF Truncate
      <4> QED
        BY <2>1, <2>2, <3>1, <3>2, <3>3, <4>1 DEF Expected, At
    <3>4. CASE t # This
      <4>1. file'[t] = file[t]
        BY <2>10, <3>4 DEF Truncate
      <4>2. Expected(t)' = Expected(t)
        BY <2>1, <3>1, <3>2, <3>4 DEF Expected, At, SameWork
      <4> QED
        BY <2>1, <2>2, <3>1, <4>1, <4>2
    <3> QED
      BY <3>3, <3>4
  <2>11. CASE Write
    <3>1. job'.step = "verify" /\ job.step = "write" /\ SameWork /\ job'.changes = job.changes
      BY <2>11, OwnSteps DEF Write, At, ToStep, SameTexts
    <3>2. This' = This /\ New(t)' = New(t)
      BY <3>1 DEF This, SameWork, New
    <3>3. CASE t = This
      <4>1. file'[t] = New(t)
        BY <2>11, <3>3 DEF Write
      <4> QED
        BY <2>1, <2>2, <3>1, <3>2, <3>3, <4>1 DEF Expected, At
    <3>4. CASE t # This
      <4>1. file'[t] = file[t]
        BY <2>11, <3>4 DEF Write
      <4>2. Expected(t)' = Expected(t)
        BY <2>1, <3>1, <3>2, <3>4 DEF Expected, At, SameWork
      <4> QED
        BY <2>1, <2>2, <3>1, <4>1, <4>2
    <3> QED
      BY <3>3, <3>4
  <2>12. CASE Verify
    <3>1. /\ file' = file /\ job.step = "verify" /\ job'.step = "open" /\ job'.changes = job.changes
          /\ job'.undo = job.undo /\ job'.todo = job.todo \ {This}
          /\ job'.applied = IF job.undo THEN job.applied ELSE job.applied \cup {This}
      BY <2>12, OwnSteps DEF Verify, At, disk, SameTexts
    <3>2. This \in DOMAIN job.changes /\ (job.undo => This \in job.applied)
      BY <3>1, ThisInHand DEF Rewriting
    <3>3. CASE t = This
      <4>1. file[t] = New(t)
        BY <2>2, <3>1, <3>3 DEF Expected, At
      <4>2. CASE job.undo
        <5>1. Expected(t)' = start.file[t] /\ New(t) = job.changes[t].old
          BY <2>1, <3>1, <3>3, <4>2 DEF Expected, At, New
        <5> QED
          BY <2>1, <2>2, <3>1, <3>2, <3>3, <4>1, <5>1
      <4>3. CASE ~ job.undo
        <5>1. Expected(t)' = job.changes[t].new /\ New(t) = job.changes[t].new
          BY <2>1, <3>1, <3>3, <4>3 DEF Expected, At, New
        <5> QED
          BY <2>1, <2>2, <3>1, <4>1, <5>1
      <4> QED
        BY <4>2, <4>3
    <3>4. CASE t # This
      <4>1. Expected(t)' = Expected(t)
        BY <2>1, <3>1, <3>4 DEF Expected, At
      <4> QED
        BY <2>1, <2>2, <3>1, <4>1
    <3> QED
      BY <3>3, <3>4
  <2>13. CASE Skips
    <3>1. /\ file' = file /\ job.step = "open" /\ job'.step = "open" /\ job'.changes = job.changes
          /\ job'.undo = job.undo /\ job'.todo = job.todo \ {This} /\ job'.applied = job.applied
          /\ job.undo => file[This] # Old(This)
      BY <2>13 DEF Skips, Opened, At, disk, SameTexts
    <3>2. This \in job.todo /\ (job.undo => This \in job.applied)
      BY <2>13, ThisInHand DEF Skips
    <3>3. ~ (job.undo /\ t = This)
      <4> SUFFICES ASSUME job.undo, t = This PROVE FALSE
        OBVIOUS
      <4>1. Expected(t) = job.changes[t].new
        BY <3>1, <3>2 DEF Expected, At
      <4> QED
        BY <2>2, <3>1, <4>1 DEF Old
    <3>4. Expected(t)' = Expected(t)
      BY <2>1, <3>1, <3>3 DEF Expected, At
    <3> QED
      BY <2>1, <2>2, <3>1, <3>4
  <2>14. CASE Undoes
    <3>1. /\ file' = file /\ job.step \notin {"write", "verify"} /\ job'.step = "open"
          /\ job'.changes = job.changes /\ ~ job.undo
          /\ job'.undo /\ job'.todo = job.applied /\ job'.applied = job.applied
      BY <2>14 DEF Undoes, disk, SameTexts, Phases, RewriteSteps
    <3>2. Expected(t)' = Expected(t)
      BY <2>1, <3>1 DEF Expected, At
    <3> QED
      BY <2>1, <2>2, <3>1, <3>2
  <2> QED
    BY <1>2, <2>1, <2>4, <2>5, <2>6, <2>7, <2>8, <2>9, <2>10, <2>11, <2>12, <2>13, <2>14, StepCases
<1> QED
  BY <1>1, <1>2

-----------------------------------------------------------------------------
(* The rows, the catalogs and the global state file.                       *)

Settling == {"plan", "repair", "prune"} \cup GlobalSteps

(* The steps of a sync behind the rewriting of the files.                  *)
LEMMA SettlingSteps ==
  ASSUME TypeOK, Phases, [Next]_vars, job'.kind = "sync", job'.step \in {"update"} \cup Settling
  PROVE  /\ job.kind = "sync" /\ job # Idle /\ SameTexts /\ start' = start
         /\ job'.skipped = job.skipped /\ job'.applied = job.applied
         /\ job'.quiet = job.quiet \/ ~ job'.quiet
         /\ \/ Still \/ CodexAppends \/ CodexArchives \/ CodexSavesGlobal
            \/ UpdateDb \/ Plan \/ RepairDb
            \/ NormalizeGlobal
            \/ PhaseDone
         /\ ~ PhaseDone => job.step \in {"update"} \cup Settling
<1> USE DEF Settling, GlobalSteps
<1>1. ~ Begun
  BY Edges
<1>2. /\ job.kind = "sync" /\ job # Idle /\ start' = start
      /\ job'.quiet = job.quiet \/ ~ job'.quiet
      /\ ~ Ended /\ ~ Finds /\ ~ Onward("known", "plan") /\ ~ MoveRows
      /\ ~ (At("match") /\ ToStep("plan") /\ UNCHANGED <<disk, answer, runs, history>>)
  BY <1>1, SyncGoesOn
<1>3. ~ (ReadKinds \/ Collects \/ Count \/ MakeBackup \/ MarkBackup \/ Open \/ Truncate \/ Write \/ Verify \/ Skips \/ Undoes)
  BY OwnSteps DEF ToStep, Collects, CollectedFrom, Skips, Undoes
<1>4. \/ Still \/ CodexAppends \/ CodexArchives \/ CodexSavesGlobal
      \/ UpdateDb \/ Plan \/ RepairDb \/ NormalizeGlobal \/ PhaseDone
  BY <1>1, <1>2, <1>3, StepCases
<1>5. SameTexts /\ job'.skipped = job.skipped /\ job'.applied = job.applied
  <2>1. CASE Still
    BY <2>1 DEF Still, SameTexts
  <2>2. CASE CodexAppends \/ CodexArchives \/ CodexSavesGlobal
    BY <2>2, RunShaken DEF SameWork
  <2>3. CASE UpdateDb \/ Plan \/ RepairDb
    BY <2>3, OwnSteps DEF SameWork
  <2>4. CASE NormalizeGlobal \/ PhaseDone
    BY <2>4, GlobalMoves, PhaseSteps DEF Onward, SameWork
  <2> QED
    BY <1>4, <2>1, <2>2, <2>3, <2>4
<1>6. ~ PhaseDone => job.step \in {"update"} \cup Settling
  <2>1. CASE Still
    BY <2>1 DEF Still
  <2>2. CASE CodexAppends \/ CodexArchives \/ CodexSavesGlobal
    BY <2>2, RunShaken
  <2>3. CASE UpdateDb \/ Plan \/ RepairDb
    BY <2>3 DEF UpdateDb, Plan, RepairDb, At
  <2>4. CASE NormalizeGlobal
    BY <2>4, GlobalMoves DEF At
  <2> QED
    BY <1>4, <2>1, <2>2, <2>3, <2>4
<1> QED
  BY <1>2, <1>4, <1>5, <1>6

(* One database whose users' rows are at the target.                       *)
TargetIn(b, excluded, events) ==
  /\ \A t \in DOMAIN b.threads \ excluded :
       b.threads[t].provider = "target" /\ (t \in events => b.threads[t].event)
  /\ \A t \in DOMAIN b.catalog \ excluded : b.catalog[t].provider = "target"

(* The condition on the rows of a database, as one on its contents.        *)
LEMMA TargetRows ==
  ASSUME NEW d, NEW excluded, NEW events
  PROVE  RowsAtTarget(d, excluded, events) <=> TargetIn(db[d], excluded, events)
BY DEF RowsAtTarget, TargetIn

(* What the update and the repair of a database leave behind in it.        *)
LEMMA UpdatedAtTarget ==
  ASSUME TypeOK, Phases, UpdateDb, job'.excluded = job.excluded, job'.events = job.events
  PROVE  TargetIn(db'[Path], job'.excluded, job'.events)
<1>1. DbStep(Path, Updated(Path))
  BY DbSteps
<1>2. Path \in Dbs /\ db'[Path] = Updated(Path)
  BY <1>1 DEF DbStep
<1>3. IsHistory(file, db)
  BY DEF TypeOK
<1> DEFINE p == Path
           u == Updated(p)
<1>4. /\ DOMAIN u.threads = DOMAIN db[p].threads /\ DOMAIN u.catalog = DOMAIN db[p].catalog
      /\ \A t \in DOMAIN db[p].threads : t \notin job.excluded =>
            u.threads[t].provider = "target" /\ (t \in job.events => u.threads[t].event)
      /\ \A t \in DOMAIN db[p].catalog : t \notin job.excluded => u.catalog[t].provider = "target"
  BY <1>2, <1>3, UpdatedFacts
<1>5. db'[p] = u
  BY <1>2
<1> HIDE DEF u, p
<1>6. /\ \A t \in DOMAIN db'[p].threads \ job'.excluded :
           db'[p].threads[t].provider = "target" /\ (t \in job'.events => db'[p].threads[t].event)
      /\ \A t \in DOMAIN db'[p].catalog \ job'.excluded : db'[p].catalog[t].provider = "target"
  BY <1>4, <1>5
<1> QED
  BY <1>6 DEF TargetIn, p

(* The repair of a catalog leaves the rows at the target.                  *)
LEMMA RepairedAtTarget ==
  ASSUME TypeOK, Phases, RepairDb, job'.excluded = job.excluded, job'.events = job.events,
         RowsAtTarget(Path, job.excluded, job.events)
  PROVE  TargetIn(db'[Path], job'.excluded, job'.events)
<1>1. DbStep(Path, Repaired(Path, job.plan))
  BY DbSteps
<1>2. Path \in Dbs /\ db'[Path] = Repaired(Path, job.plan)
  BY <1>1 DEF DbStep
<1>3. IsHistory(file, db) /\ IsPlan(job.plan)
  BY DEF TypeOK, RepairDb
<1> DEFINE p == Path
           u == Repaired(p, job.plan)
<1>4. /\ u.threads = db[p].threads
      /\ \A t \in DOMAIN u.catalog :
           \/ t \in DOMAIN db[p].catalog /\ u.catalog[t] = db[p].catalog[t]
           \/ u.catalog[t].provider = "target"
  BY <1>2, <1>3, RepairedFacts
<1>5. db'[p] = u
  BY <1>2
<1>7. /\ \A t \in DOMAIN db[p].threads \ job.excluded :
           db[p].threads[t].provider = "target" /\ (t \in job.events => db[p].threads[t].event)
      /\ \A t \in DOMAIN db[p].catalog \ job.excluded : db[p].catalog[t].provider = "target"
  BY DEF RowsAtTarget
<1> HIDE DEF u, p
<1>6. /\ \A t \in DOMAIN db'[p].threads \ job'.excluded :
           db'[p].threads[t].provider = "target" /\ (t \in job'.events => db'[p].threads[t].event)
      /\ \A t \in DOMAIN db'[p].catalog \ job'.excluded : db'[p].catalog[t].provider = "target"
  BY <1>4, <1>5, <1>7
<1> QED
  BY <1>6 DEF TargetIn, p

(* The rows of a database that a step does not touch, or only archives.    *)
LEMMA StillAtTarget ==
  ASSUME TypeOK, NEW d \in Dbs, NEW excluded, NEW events, RowsAtTarget(d, excluded, events),
         db'[d] = db[d] \/ CodexArchives
  PROVE  TargetIn(db'[d], excluded, events)
<1>1. CASE db'[d] = db[d]
  BY <1>1, TargetRows
<1>2. CASE CodexArchives
  BY <1>2, Archived DEF RowsAtTarget, SameMarks, TargetIn
<1> QED
  BY <1>1, <1>2

(* Every step keeps what the run has done to the rows so far.              *)
LEMMA RowsHold ==
  ASSUME TypeOK, Phases, RowsInv, [Next]_vars
  PROVE  RowsInv'
<1> DEFINE Well(d) == RowsAtTarget(d, job.excluded, job.events)
<1> SUFFICES ASSUME job'.kind = "sync", job'.step \in {"update"} \cup Settling, NEW d \in Dbs,
                    ~ (job'.step = "update" /\ d \in Range(job'.paths))
             PROVE  TargetIn(db'[d], job'.excluded, job'.events)
  BY DEF RowsInv, RowsAtTarget, TargetIn, Settling, At
<1>1. /\ job.kind = "sync" /\ job'.excluded = job.excluded /\ job'.events = job.events
      /\ ~ PhaseDone => job.step \in {"update"} \cup Settling
  BY SettlingSteps DEF SameTexts
<1>2. job.step \in {"update"} \cup Settling => (job.step = "update" /\ d \in Range(job.paths)) \/ Well(d)
  BY <1>1 DEF RowsInv, Settling, At
<1>3. ASSUME Well(d), db'[d] = db[d] \/ CodexArchives PROVE TargetIn(db'[d], job'.excluded, job'.events)
  BY <1>1, <1>3, StillAtTarget
<1>4. CASE Still
  <2>1. job' = job /\ db' = db
    BY <1>4 DEF Still, disk
  <2> QED
    BY <1>1, <1>2, <1>3, <1>4, <2>1, PhaseSteps DEF Onward, At, Settling, GlobalSteps
<1>5. CASE CodexAppends \/ CodexArchives \/ CodexSavesGlobal
  <2>1. job'.step = job.step /\ job'.paths = job.paths
    BY <1>5, RunShaken DEF SameDbs
  <2>2. job.step \in {"update"} \cup Settling
    BY <2>1
  <2>3. db' = db \/ CodexArchives
    BY <1>5, CodexSteps
  <2> QED
    BY <1>2, <1>3, <2>1, <2>2, <2>3
<1>6. CASE UpdateDb
  <2>1. DbStep(Path, Updated(Path)) /\ At("update") /\ job'.paths = Tail(job.paths) /\ job'.step = job.step
        /\ job.paths # <<>>
    BY <1>6, DbSteps, OwnSteps DEF UpdateDb
  <2>2. CASE d = Path
    BY <1>1, <1>6, <2>2, UpdatedAtTarget
  <2>3. CASE d # Path
    <3>1. db'[d] = db[d]
      BY <2>1, <2>3 DEF DbStep
    <3>2. d \notin Range(job.paths)
      <4>1. job.paths \in Seq(Dbs) /\ \A i, j \in DOMAIN job.paths : job.paths[i] = job.paths[j] => i = j
        BY DEF TypeOK, Phases
      <4>2. \A e \in Range(job.paths) : e = Path \/ e \in Range(job'.paths)
        BY <2>1, <4>1, PathsToCome DEF Path
      <4> QED
        BY <2>1, <2>3, <4>2 DEF At
    <3> QED
      BY <1>2, <1>3, <2>1, <3>1, <3>2 DEF At
  <2> QED
    BY <2>2, <2>3
<1>7. CASE Plan
  <2>1. At("plan") /\ db' = db
    BY <1>7 DEF Plan, disk
  <2> QED
    BY <1>2, <1>3, <2>1 DEF At, Settling
<1>8. CASE RepairDb
  <2>1. DbStep(Path, Repaired(Path, job.plan)) /\ At("repair")
    BY <1>8, DbSteps DEF RepairDb
  <2>2. Well(d)
    BY <1>2, <2>1 DEF At, Settling
  <2>3. CASE d = Path
    BY <1>1, <1>8, <2>2, <2>3, RepairedAtTarget
  <2>4. CASE d # Path
    BY <1>3, <2>1, <2>2, <2>4 DEF DbStep
  <2> QED
    BY <2>3, <2>4
<1>9. CASE NormalizeGlobal
  <2>1. db' = db /\ job.step \in GlobalSteps
    BY <1>9, GlobalMoves DEF GlobalSteps, At
  <2> QED
    BY <1>2, <1>3, <2>1 DEF Settling, GlobalSteps
<1>10. CASE PhaseDone
  <2>1. db' = db /\ job'.paths = Paths
    BY <1>10, PhaseSteps DEF Onward, disk
  <2>2. job'.step # "update"
    BY <2>1 DEF Dbs
  <2>3. \/ job.paths = <<>> /\ At("update")
        \/ At("repair")
    BY <1>1, <1>10, <2>2, PhaseSteps DEF Onward
  <2>4. job.paths = <<>> => d \notin Range(job.paths)
    BY DEF Range
  <2> QED
    BY <1>2, <1>3, <2>1, <2>3, <2>4 DEF At, Settling
<1> QED
  BY <1>4, <1>5, <1>6, <1>7, <1>8, <1>9, <1>10, SettlingSteps

(* A catalog that lists what the plan inserts and nothing it removes.      *)
ListedIn(b, insert, remove) == insert \subseteq DOMAIN b.catalog /\ remove \cap DOMAIN b.catalog = {}
Now(b, f) == CatalogPlan(b, f, Threads)
PlanMade(b, f, d) ==
  \/ /\ job.step = "repair" /\ d \in Range(job.paths) /\ job.plan.remove[d] = Now(b, f).remove[d]
  \/ /\ job.step = "repair" => d \notin Range(job.paths)
     /\ ListedIn(b[d], DOMAIN Now(b, f).insert, Now(b, f).remove[d])

(* What is known of the plan, as conditions on the contents of the home.   *)
LEMMA PlanParts ==
  PlanInv <=>
    (job.kind = "sync" /\ job.quiet /\ job.step \in {"repair", "prune"} \cup GlobalSteps =>
       /\ \A d \in Catalogs : PlanMade(db, file, d)
       /\ job.step = "repair" => job.plan.insert = Now(db, file).insert
       /\ job.step \in {"copy", "copy text", "prune"} => global.main = "normal")
BY DEF PlanInv, PlanMade, ListedWell, ListedIn, Now, At

(* The repair of a catalog makes it one that lists what it should.         *)
LEMMA RepairedListed ==
  ASSUME TypeOK, Phases, RepairDb, job.kind = "sync", Path \in Catalogs,
         job.plan.insert = Now(db, file).insert, job.plan.remove[Path] = Now(db, file).remove[Path]
  PROVE  ListedIn(db'[Path], DOMAIN Now(db', file).insert, Now(db', file).remove[Path])
<1>1. DbStep(Path, Repaired(Path, job.plan))
  BY DbSteps
<1>2. Path \in Dbs /\ db'[Path] = Repaired(Path, job.plan) /\ IsHistory(file, db')
  BY <1>1 DEF DbStep
<1>3. IsHistory(file, db) /\ IsPlan(job.plan)
  BY DEF TypeOK, RepairDb
<1> DEFINE p == Path
           u == Repaired(p, job.plan)
           plan == job.plan
<1>4. /\ u.threads = db[p].threads /\ u.edges = db[p].edges /\ u.jobs = db[p].jobs
      /\ \A t \in DOMAIN u.catalog :
           \/ /\ t \in DOMAIN db[p].catalog /\ t \notin plan.remove[p]
              /\ u.catalog[t] = db[p].catalog[t]
           \/ t \in DOMAIN plan.insert /\ u.catalog[t].mark = plan.insert[t]
      /\ DOMAIN plan.insert \subseteq DOMAIN u.catalog
  BY <1>2, <1>3, RepairedFacts
<1>5. db'[p] = u /\ \A e \in Dbs : e # p => db'[e] = db[e]
  BY <1>1 DEF DbStep
<1>6. plan.insert = Now(db, file).insert /\ plan.remove[p] = Now(db, file).remove[p] /\ p \in Dbs
  BY <1>2
<1> HIDE DEF u, p, plan
<1>7. SameThreads(db, db')
  BY <1>4, <1>5 DEF SameThreads
<1> DEFINE ids == ObservedIds(db)
           fit == Fit(db, file, Threads)
           users == UsersOf(db, file, Threads)
<1>8. /\ ObservedIds(db') = ids /\ Fit(db', file, Threads) = fit /\ UsersOf(db', file, Threads) = users
      /\ Now(db', file).insert = Now(db, file).insert
      /\ \A t, mark : NonRoot(t, mark, db) <=> NonRoot(t, mark, db')
  BY <1>3, <1>7, SamePlan DEF Now
<1>9. Now(db, file).remove[p] = ((ids \cap Threads) \ fit) \cup ((Suspect(db, p) \cap Threads) \ users)
  BY <1>6, PlanRemove DEF Now
<1>10. Now(db', file).remove[p] = ((ids \cap Threads) \ fit) \cup ((Suspect(db', p) \cap Threads) \ users)
  BY <1>6, <1>8, PlanRemove DEF Now
<1>11. DOMAIN plan.insert = fit /\ \A t \in fit : plan.insert[t] = Observed(t, db, file).mark
  BY <1>6, PlanInsert DEF Now
<1>12. \A t \in fit : ~ NonRoot(t, Observed(t, db, file).mark, db)
  BY DEF Fit, Eligible
<1> HIDE DEF ids, fit, users
<1>13. ASSUME NEW t \in DOMAIN u.catalog PROVE t \notin Now(db', file).remove[p]
  <2>1. t \in Suspect(db', p) => NonRoot(t, u.catalog[t].mark, db)
    BY <1>5, <1>8 DEF Suspect
  <2>2. CASE /\ t \in DOMAIN db[p].catalog /\ t \notin plan.remove[p]
             /\ u.catalog[t] = db[p].catalog[t]
    <3>1. t \in Suspect(db', p) => t \in Suspect(db, p)
      BY <2>1, <2>2 DEF Suspect
    <3> QED
      BY <1>6, <1>9, <1>10, <2>2, <3>1
  <2>3. CASE t \in DOMAIN plan.insert /\ u.catalog[t].mark = plan.insert[t]
    <3>1. t \notin Suspect(db', p) /\ t \in fit
      BY <1>11, <1>12, <2>1, <2>3
    <3> QED
      BY <1>10, <3>1
  <2> QED
    BY <1>4, <2>2, <2>3
<1>14. DOMAIN Now(db', file).insert \subseteq DOMAIN u.catalog
  BY <1>4, <1>6, <1>8
<1>15. ListedIn(db'[p], DOMAIN Now(db', file).insert, Now(db', file).remove[p])
  BY <1>5, <1>13, <1>14 DEF ListedIn
<1> QED
  BY <1>15 DEF p

(* Every step keeps what is known of the plan.                             *)
LEMMA PlanHold ==
  ASSUME TypeOK, Phases, PlanInv, [Next]_vars
  PROVE  PlanInv'
<1> USE DEF At
<1> DEFINE Made(d) ==
             \/ /\ job'.step = "repair" /\ d \in Range(job'.paths) /\ job'.plan.remove[d] = Now(db', file').remove[d]
             \/ /\ job'.step = "repair" => d \notin Range(job'.paths)
                /\ ListedIn(db'[d], DOMAIN Now(db', file').insert, Now(db', file').remove[d])
<1>0. ASSUME (job'.kind = "sync" /\ job'.quiet /\ job'.step \in {"repair", "prune"} \cup GlobalSteps =>
                /\ \A d \in Catalogs : Made(d)
                /\ job'.step = "repair" => job'.plan.insert = Now(db', file').insert
                /\ job'.step \in {"copy", "copy text", "prune"} => global'.main = "normal")
      PROVE PlanInv'
  BY <1>0 DEF PlanInv, ListedWell, ListedIn, Now
<1> SUFFICES ASSUME job'.kind = "sync", job'.quiet, job'.step \in {"repair", "prune"} \cup GlobalSteps
             PROVE  /\ \A d \in Catalogs : Made(d)
                    /\ job'.step = "repair" => job'.plan.insert = Now(db', file').insert
                    /\ job'.step \in {"copy", "copy text", "prune"} => global'.main = "normal"
  BY <1>0
<1>1. /\ job.kind = "sync" /\ job.quiet /\ job # Idle
      /\ ~ PhaseDone => job.step \in {"update"} \cup Settling
  BY SettlingSteps DEF Settling
<1>2. job.step \in {"repair", "prune"} \cup GlobalSteps =>
        /\ \A d \in Catalogs : PlanMade(db, file, d)
        /\ job.step = "repair" => job.plan.insert = Now(db, file).insert
        /\ job.step \in {"copy", "copy text", "prune"} => global.main = "normal"
  BY <1>1, PlanParts
<1>3. Catalogs \subseteq Dbs
  BY FilesAssumption
<1>4. CASE Still
  <2>1. job' = job /\ db' = db /\ file' = file /\ global' = global
    BY <1>4 DEF Still, disk
  <2> QED
    BY <1>2, <2>1 DEF PlanMade
<1>5. ~ (CodexAppends \/ CodexArchives \/ CodexSavesGlobal)
  BY <1>1, RunShaken
<1>6. ~ UpdateDb
  BY OwnSteps DEF UpdateDb, GlobalSteps
<1>7. CASE Plan
  <2>1. /\ db' = db /\ file' = file /\ job.step = "plan" /\ job'.step = "repair" /\ job'.paths = job.paths
        /\ job'.plan = CatalogPlan(db, file, job.who)
    BY <1>7, OwnSteps DEF Plan, disk
  <2>2. job.who = Threads /\ job.paths = Paths
    BY <1>1, <2>1 DEF Phases
  <2>3. job'.plan = Now(db', file') /\ Range(job'.paths) = Dbs
    BY <2>1, <2>2 DEF Now, Dbs
  <2> QED
    BY <1>3, <2>1, <2>3
<1>8. CASE RepairDb
  <2>1. /\ file' = file /\ job.step = "repair" /\ job'.step = "repair" /\ job'.paths = Tail(job.paths)
        /\ job'.plan = job.plan /\ job.paths # <<>>
    BY <1>8, OwnSteps DEF RepairDb
  <2>2. DbStep(Path, Repaired(Path, job.plan))
    BY <1>8, DbSteps
  <2>3. IsHistory(file, db) /\ IsPlan(job.plan) /\ Path \in Dbs
    BY <2>1, <2>2 DEF TypeOK, DbStep
  <2>4. /\ \A e \in Range(job.paths) : e = Path \/ e \in Range(job'.paths)
        /\ \A e \in Range(job'.paths) : e \in Range(job.paths)
        /\ Path \in Range(job.paths) /\ Path \notin Range(job'.paths)
    <3>1. job.paths \in Seq(Dbs) /\ \A i, j \in DOMAIN job.paths : job.paths[i] = job.paths[j] => i = j
      BY DEF TypeOK, Phases
    <3> QED
      BY <2>1, <3>1, PathsToCome DEF Path
  <2>5. SameThreads(db, db')
    <3>1. /\ Repaired(Path, job.plan).threads = db[Path].threads
          /\ Repaired(Path, job.plan).edges = db[Path].edges /\ Repaired(Path, job.plan).jobs = db[Path].jobs
      BY <2>3, RepairedFacts
    <3> QED
      BY <2>2, <3>1 DEF DbStep, SameThreads
  <2>6. Now(db, file).insert = Now(db', file).insert
        /\ \A e \in Dbs : db[e].catalog = db'[e].catalog => Now(db, file).remove[e] = Now(db', file).remove[e]
    BY <2>3, <2>5, SamePlan DEF Now
  <2>7. ASSUME NEW d \in Catalogs PROVE Made(d)
    <3>1. PlanMade(db, file, d) /\ job.plan.insert = Now(db, file).insert
      BY <1>2, <2>1
    <3>2. CASE d = Path
      <4>1. job.plan.remove[Path] = Now(db, file).remove[Path]
        BY <2>1, <2>4, <3>1, <3>2 DEF PlanMade
      <4>2. ListedIn(db'[Path], DOMAIN Now(db', file).insert, Now(db', file).remove[Path])
        BY <1>1, <1>8, <3>1, <3>2, <4>1, RepairedListed
      <4> QED
        BY <2>1, <2>4, <3>2, <4>2
    <3>3. CASE d # Path
      <4>1. db'[d] = db[d]
        BY <1>3, <2>2, <3>3 DEF DbStep
      <4>2. Now(db, file).remove[d] = Now(db', file).remove[d]
        BY <1>3, <2>6, <4>1
      <4>3. CASE d \in Range(job.paths) /\ job.plan.remove[d] = Now(db, file).remove[d]
        BY <2>1, <2>4, <3>3, <4>2, <4>3
      <4>4. CASE d \notin Range(job.paths) /\ ListedIn(db[d], DOMAIN Now(db, file).insert, Now(db, file).remove[d])
        BY <2>1, <2>4, <2>6, <4>1, <4>2, <4>4
      <4> QED
        BY <2>1, <3>1, <4>3, <4>4 DEF PlanMade
    <3> QED
      BY <3>2, <3>3
  <2>8. job'.plan.insert = Now(db', file').insert
    BY <1>2, <2>1, <2>6
  <2> HIDE DEF Made
  <2> QED
    BY <2>1, <2>7, <2>8
<1>9. CASE NormalizeGlobal
  <2>1. /\ db' = db /\ file' = file /\ job.step \in GlobalSteps /\ job'.step \in {"prune"} \cup GlobalSteps
    BY <1>9, GlobalMoves DEF GlobalSteps
  <2>2. \A d \in Catalogs : Made(d)
    BY <1>2, <2>1 DEF PlanMade, GlobalSteps
  <2>3. job'.step \in {"copy", "copy text", "prune"} => global'.main = "normal"
    <3>1. DOMAIN global = {"main", "bak"}
      BY DEF TypeOK
    <3>2. job.step \in {"copy", "copy text"} => global.main = "normal"
      BY <1>2, <2>1
    <3> QED
      BY <1>9, <3>1, <3>2, GlobalMoves
  <2> HIDE DEF Made
  <2> QED
    BY <2>1, <2>2, <2>3 DEF GlobalSteps
<1>10. CASE PhaseDone
  <2>1. /\ db' = db /\ file' = file /\ job.step = "repair" /\ job.paths = <<>> /\ job'.step = "global"
    BY <1>1, <1>10, PhaseSteps DEF Onward, disk, GlobalSteps
  <2>2. \A d \in Catalogs : d \notin Range(job.paths)
    BY <2>1 DEF Range
  <2>3. \A d \in Catalogs : Made(d)
    BY <1>2, <2>1, <2>2 DEF PlanMade
  <2> HIDE DEF Made
  <2> QED
    BY <2>1, <2>3
<1> QED
  BY <1>4, <1>5, <1>6, <1>7, <1>8, <1>9, <1>10, SettlingSteps DEF Settling

-----------------------------------------------------------------------------
(* A home at rest.                                                         *)

(* What a sync that nothing disturbed has before it at its end, be it that *)
(* it did everything or that it found nothing to do.                       *)
Done == job.kind = "sync" /\ job.quiet /\ (At("prune") \/ (At("count") /\ NothingToDo))

(* At the end of a quiet run each rollout file is at the target, or was    *)
(* skipped.                                                                *)
LEMMA DoneFiles ==
  ASSUME TypeOK, Phases, TextsInHand, EvidenceInv, FilesInv, Done
  PROVE  /\ \A t \in DOMAIN job.changes :
              /\ file[t].event <=> job.changes[t].old.event
              /\ t \notin job.skipped => file[t].meta = {"target"}
         /\ \A t \in DOMAIN file \ (job.excluded \cup job.skipped \cup DOMAIN job.changes) : file[t].meta = {}
         /\ \A t \in Threads : t \in job.excluded <=> AgentEvidence(t)
<1>1. Collected /\ job.kind = "sync" /\ job.quiet
  BY DEF Done, Collected, At
<1>2. job.todo = {} /\ ~ job.undo /\ job.step \notin {"write", "verify"}
  BY DEF Done, NothingToDo, Phases, RewriteSteps, At
<1>3. ASSUME NEW t \in DOMAIN job.changes
      PROVE  /\ file[t].event <=> job.changes[t].old.event
             /\ t \notin job.skipped => file[t].meta = {"target"}
  <2>1. /\ t \in DOMAIN file
        /\ job.changes[t].new.meta = {"target"}
        /\ New(t).event = job.changes[t].old.event /\ New(t) = job.changes[t].new
    BY <1>1, <1>2, InHand DEF New
  <2>2. file[t] = Expected(t) /\ job.changes[t].old = start.file[t]
    BY <1>1, <2>1 DEF FilesInv, Steady
  <2>3. Expected(t) = IF t \in job.applied THEN job.changes[t].new ELSE start.file[t]
    BY <1>2 DEF Expected, At
  <2>4. t \in job.skipped \/ t \in job.applied \/ job.changes[t].new = job.changes[t].old
    BY <1>1, <1>2 DEF EvidenceInv
  <2>5. file[t] = job.changes[t].new \/ (t \in job.skipped /\ file[t] = job.changes[t].old)
    BY <2>2, <2>3, <2>4
  <2> QED
    BY <2>1, <2>5
<1> QED
  BY <1>1, <1>3 DEF EvidenceInv

(* At the end of a quiet run the rows, the catalogs and the global state   *)
(* are at the target.                                                      *)
LEMMA DoneRows ==
  ASSUME TypeOK, Phases, RowsInv, PlanInv, Done
  PROVE  /\ \A d \in Dbs : TargetIn(db[d], job.excluded, job.events)
         /\ \A d \in Catalogs : ListedIn(db[d], DOMAIN Now(db, file).insert, Now(db, file).remove[d])
         /\ global.main = "normal"
<1>1. job.kind = "sync" /\ job.quiet /\ job.who = Threads
  BY DEF Done, Phases
<1>2. CASE At("prune")
  <2>1. \A d \in Dbs : RowsAtTarget(d, job.excluded, job.events)
    BY <1>1, <1>2 DEF RowsInv, At
  <2>2. /\ \A d \in Catalogs : PlanMade(db, file, d)
        /\ global.main = "normal"
    BY <1>1, <1>2, PlanParts DEF At
  <2> QED
    BY <1>2, <2>1, <2>2, TargetRows DEF PlanMade, At
<1>3. CASE NothingToDo
  <2>1. /\ \A d \in Dbs : Updated(d) = db[d]
        /\ \A d \in Catalogs : ListedIn(db[d], DOMAIN Now(db, file).insert, Now(db, file).remove[d])
        /\ global.main = "normal"
    BY <1>1, <1>3 DEF NothingToDo, ListedIn, Now
  <2>2. IsHistory(file, db)
    BY DEF TypeOK
  <2>3. ASSUME NEW d \in Dbs PROVE TargetIn(db[d], job.excluded, job.events)
    <3> DEFINE u == Updated(d)
    <3>1. /\ \A t \in DOMAIN db[d].threads : t \notin job.excluded =>
                u.threads[t].provider = "target" /\ (t \in job.events => u.threads[t].event)
          /\ \A t \in DOMAIN db[d].catalog : t \notin job.excluded => u.catalog[t].provider = "target"
      BY <2>2, UpdatedFacts
    <3>2. u = db[d]
      BY <2>1
    <3> HIDE DEF u
    <3> QED
      BY <3>1, <3>2 DEF TargetIn
  <2> QED
    BY <2>1, <2>3
<1> QED
  BY <1>2, <1>3 DEF Done

(* A home a sync would not change.                                         *)
LeftAlone(f, b) == Subagents(b) \cup {t \in DOMAIN f : f[t].agent}
Eventful(f) == {t \in DOMAIN f : f[t].meta # {} /\ f[t].event}
AtRest(f, b, g) ==
  /\ \A t \in DOMAIN f \ LeftAlone(f, b) : f[t].meta \in {{}, {"target"}}
  /\ \A d \in Dbs : TargetIn(b[d], LeftAlone(f, b), Eventful(f))
  /\ \A d \in Catalogs : ListedIn(b[d], DOMAIN Now(b, f).insert, Now(b, f).remove[d])
  /\ g.main = "normal"

(* What a settled home is, as a condition on its contents.                 *)
LEMMA SettledParts ==
  SettledInv <=> (settled /\ (job = Idle \/ Reading) => job.quiet /\ AtRest(file, db, global))
BY DEF SettledInv, AtRest, LeftAlone, Eventful, RowsAtTarget, TargetIn, ListedWell, ListedIn, Now

(* A run that ends with nothing skipped leaves a home with nothing left to *)
(* change.                                                                 *)
LEMMA DoneAtRest ==
  ASSUME TypeOK, Phases, TextsInHand, EvidenceInv, FilesInv, RowsInv, PlanInv, Done,
         job.skipped = {}, Subagents(db) = Subagents(start.db)
  PROVE  AtRest(file, db, global)
<1>1. /\ \A t \in DOMAIN job.changes :
           /\ file[t].event <=> job.changes[t].old.event
           /\ file[t].meta = {"target"}
      /\ \A t \in DOMAIN file \ (job.excluded \cup DOMAIN job.changes) : file[t].meta = {}
      /\ \A t \in Threads : t \in job.excluded <=> AgentEvidence(t)
  BY DoneFiles
<1>2. \A t \in Threads : t \in job.excluded <=> t \in LeftAlone(file, db)
  BY <1>1 DEF AgentEvidence, LeftAlone
<1>3. IsHistory(file, db) /\ DOMAIN file \subseteq Threads
  BY DEF TypeOK, IsHistory, IsTable
<1>4. \A t \in DOMAIN file \ LeftAlone(file, db) : file[t].meta \in {{}, {"target"}}
  BY <1>1, <1>2, <1>3
<1>5. ASSUME NEW t \in Eventful(file), t \in Threads, t \notin job.excluded PROVE t \in job.events
  <2>1. t \in DOMAIN job.changes /\ file[t].event
    BY <1>1, <1>5 DEF Eventful
  <2>2. job.changes[t].old.event
    BY <1>1, <2>1
  <2> QED
    BY <2>1, <2>2 DEF EvidenceInv, Done, Collected, At
<1>6. ASSUME NEW d \in Dbs PROVE TargetIn(db[d], LeftAlone(file, db), Eventful(file))
  <2>1. TargetIn(db[d], job.excluded, job.events)
    BY DoneRows
  <2>2. \A t \in DOMAIN db[d].threads : t \in Threads
    BY <1>3, DbParts, TableRow
  <2>3. \A t \in DOMAIN db[d].catalog : t \in Threads
    BY <1>3, DbParts, TableRow
  <2> QED
    BY <1>2, <1>5, <2>1, <2>2, <2>3 DEF TargetIn
<1> QED
  BY <1>4, <1>6, DoneRows DEF AtRest

(* The steps to a state without a run.                                     *)
LEMMA ToIdle ==
  ASSUME TypeOK, Phases, [Next]_vars, job' = Idle
  PROVE  Still \/ Ended \/ CodexAppends \/ CodexArchives \/ CodexSavesGlobal
<1>1. job'.step = "idle"
  BY Edges
<1>2. ~ Begun
  BY <1>1, Edges
<1>3. ~ (UpdateDb \/ RepairDb \/ MoveRows)
  BY <1>1, OwnSteps DEF UpdateDb, RepairDb, MoveRows, At
<1>4. ~ (ReadKinds \/ Collects \/ Count \/ MakeBackup \/ MarkBackup \/ Open \/ Truncate \/ Write \/ Verify \/ Plan)
  BY <1>1, OwnSteps DEF ToStep, Collects, CollectedFrom
<1>5. ~ (PhaseDone \/ NormalizeGlobal \/ Undoes \/ Skips \/ Finds \/ ToStep("plan") \/ Onward("known", "plan"))
  BY <1>1, PhaseSteps, GlobalMoves DEF Onward, Undoes, Skips, Finds, ToStep
<1> QED
  BY <1>2, <1>3, <1>4, <1>5, StepCases

(* Every step keeps a settled home at rest, until Codex writes again.      *)
LEMMA SettledHold ==
  ASSUME TypeOK, Phases, TextsInHand, EvidenceInv, FilesInv, RowsInv, PlanInv, SettledInv, [Next]_vars
  PROVE  SettledInv'
<1>0. ASSUME settled' /\ (job' = Idle \/ Reading') => job'.quiet /\ AtRest(file', db', global')
      PROVE  SettledInv'
  BY <1>0 DEF SettledInv, AtRest, LeftAlone, Eventful, RowsAtTarget, TargetIn, ListedWell, ListedIn, Now
<1> SUFFICES ASSUME settled', job' = Idle \/ Reading'
             PROVE  job'.quiet /\ AtRest(file', db', global')
  BY <1>0
<1>1. settled /\ (job = Idle \/ Reading) => job.quiet /\ AtRest(file, db, global)
  BY SettledParts
<1>2. \/ Still \/ Ended \/ Begun \/ ReadKinds \/ Collects
      \/ CodexAppends \/ CodexArchives \/ CodexSavesGlobal
  BY ToIdle, ReadingSteps DEF Reading, At
<1>3. CASE Still
  <2>1. job' = job /\ file' = file /\ db' = db /\ global' = global /\ settled' = settled
    BY <1>3 DEF Still, disk, history
  <2>2. Reading' => Reading
    BY <2>1 DEF Reading, At
  <2> QED
    BY <1>1, <2>1, <2>2
<1>4. CASE Begun
  <2>1. job = Idle /\ file' = file /\ db' = db /\ global' = global /\ settled' = settled
    BY <1>4 DEF Begun, Began
  <2>2. job'.quiet
    BY <1>4 DEF Begun, Began, Idle
  <2> QED
    BY <1>1, <2>1, <2>2
<1>5. CASE ReadKinds \/ Collects
  <2>1. file' = file /\ db' = db /\ global' = global /\ settled' = settled /\ job.step \in {"kinds", "collect"}
    BY <1>5 DEF ReadKinds, Collects, disk, history, At
  <2>2. job.kind = "sync" /\ Reading
    BY <2>1, StepKinds DEF Reading
  <2>3. job'.quiet = job.quiet
    BY <1>5, OwnSteps DEF Collects, CollectedFrom, SameRun
  <2> QED
    BY <1>1, <2>1, <2>2, <2>3
<1>6. CASE CodexAppends \/ CodexArchives \/ CodexSavesGlobal
  BY <1>6, CodexSteps
<1>7. CASE Ended
  <2>1. /\ Prune \/ UpToDate
        /\ job.kind = "sync" /\ job.quiet /\ job.skipped = {}
        /\ Subagents(db) = Subagents(start.db)
        /\ file' = file /\ db' = db /\ global' = global /\ job' = Idle
    BY <1>7 DEF Ended
  <2>2. Done
    BY <2>1 DEF Done, Prune, UpToDate
  <2>3. job'.quiet
    BY <2>1 DEF Idle
  <2> QED
    BY <2>1, <2>2, <2>3, DoneAtRest
<1> QED
  BY <1>2, <1>3, <1>4, <1>5, <1>6, <1>7

-----------------------------------------------------------------------------
(* The theorems.                                                           *)

(* The invariant holds at first.                                           *)
LEMMA InitHome ==
  ASSUME Init
  PROVE  HomeInv
<1> USE DEF At
<1>1. PICK h \in Histories : file = h.file /\ db = h.db /\ global = [main |-> h.global, bak |-> "raw"]
  BY DEF Init
<1>2. IsHistory(file, db) /\ global \in [main : GlobalTexts, bak : GlobalTexts]
  BY <1>1, HistoriesAssumption DEF GlobalTexts
<1>3. /\ job = Idle /\ backups = {} /\ app = FALSE /\ answer = "none" /\ runs = 0 /\ trouble = 0
      /\ hit = {} /\ settled = FALSE /\ start = Snapshot
      /\ written = [t \in DOMAIN file |-> file[t].body]
  BY DEF Init
<1>4. start.file = file /\ start.db = db /\ start.written = written
  BY <1>3 DEF Snapshot
<1>5. /\ job.kind = "none" /\ job.step = "idle" /\ job.changes = <<>> /\ job.plan = <<>>
      /\ job.todo = {} /\ job.applied = {} /\ ~ job.undo /\ job.paths = <<>>
  BY <1>3 DEF Idle
<1>6. \A t \in DOMAIN file : file[t].body \in Nat
  <2>1. IsTable(file, Texts)
    BY <1>2 DEF IsHistory
  <2>2. \A t \in DOMAIN file : file[t] \in Texts
    BY <2>1, TableRow
  <2> QED
    BY <2>2 DEF Texts
<1>7. TypeOK
  <2>1. job \in JobRecs(<<>>, <<>>)
    <3>1. {} \in SUBSET Threads /\ <<>> \in Seq(Dbs) /\ "idle" \in Steps
      BY DEF Steps
    <3> QED
      BY <1>3, <3>1 DEF Idle, JobRecs
  <2>2. job \in JobRecs(job.changes, job.plan)
    BY <1>5, <2>1
  <2>3. IsTable(job.changes, [old : Texts, new : Texts])
    BY <1>5 DEF IsTable
  <2>4. /\ written \in [DOMAIN file -> Nat] /\ \A t \in DOMAIN file : file[t].body <= written[t] /\ written[t] <= written[t]
    BY <1>3, <1>6
  <2>5. runs \in 0..MaxRuns /\ trouble \in 0..MaxTrouble
    BY <1>3, BoundsAssumption
  <2>6. At("repair") => IsPlan(job.plan)
    BY <1>5
  <2>7. /\ app \in BOOLEAN /\ settled \in BOOLEAN /\ hit \subseteq DOMAIN file
        /\ answer \in {"none", "synced", "up to date", "ignored", "deferred", "failed"}
        /\ \A b \in backups : /\ b \in [name : 1..runs, complete : BOOLEAN, meta : {b.meta}]
                              /\ IsTable(b.meta, SUBSET Providers)
    BY <1>3
  <2>8. /\ IsHistory(start.file, start.db) /\ DOMAIN start.file = DOMAIN file
        /\ start.written \in [DOMAIN file -> Nat]
        /\ \A t \in DOMAIN file : file[t].body <= written[t] /\ start.written[t] <= written[t]
    BY <1>2, <1>4, <2>4
  <2> QED
    BY <1>2, <2>2, <2>3, <2>4, <2>5, <2>6, <2>7, <2>8 DEF TypeOK, JobRecs
<1>8. Phases
  BY <1>3, <1>5 DEF Phases, Rewriting, RewriteSteps
<1>9. RecordsKept
  BY <1>3, <1>6 DEF RecordsKept
<1>10. TextsInHand /\ BackupInv /\ EvidenceInv /\ FilesInv /\ RowsInv /\ PlanInv
  BY <1>3, <1>5 DEF TextsInHand, BackupInv, EvidenceInv, FilesInv, RowsInv, PlanInv, RewriteSteps,
     GlobalSteps, Reading, Collected
<1>11. SettledInv
  BY <1>3 DEF SettledInv
<1> QED
  BY <1>7, <1>8, <1>9, <1>10, <1>11 DEF HomeInv

(* Every step keeps the invariant.                                         *)
LEMMA NextHome ==
  ASSUME HomeInv, [Next]_vars
  PROVE  HomeInv'
<1>1. /\ TypeOK /\ Phases /\ RecordsKept /\ TextsInHand /\ BackupInv /\ EvidenceInv /\ FilesInv
      /\ RowsInv /\ PlanInv /\ SettledInv
  BY DEF HomeInv
<1>2. TypeOK'
  BY <1>1, TypesHold
<1>3. Phases'
  BY <1>1, PhasesHold
<1>4. RecordsKept' /\ TextsInHand'
  BY <1>1, RecordsHold, TextsHold
<1>5. BackupInv'
  BY <1>1, BackupsHold
<1>6. EvidenceInv'
  BY <1>1, EvidenceHold
<1>7. FilesInv'
  BY <1>1, FilesHold
<1>8. RowsInv'
  BY <1>1, RowsHold
<1>9. PlanInv'
  BY <1>1, PlanHold
<1>10. SettledInv'
  BY <1>1, SettledHold
<1> QED
  BY <1>2, <1>3, <1>4, <1>5, <1>6, <1>7, <1>8, <1>9, <1>10 DEF HomeInv

(* The home a run works on: its files lose no records, what the run has in *)
(* hand is what it found, and what it leaves behind is at rest.            *)
THEOREM HomeTheorem == Spec => []HomeInv
<1>1. Init => HomeInv
  BY InitHome
<1>2. HomeInv /\ [Next]_vars => HomeInv'
  BY NextHome
<1> QED
  BY <1>1, <1>2, PTL DEF Spec

(* The parts of the invariant, one by one.                                 *)
LEMMA HomeParts ==
  ASSUME HomeInv
  PROVE  /\ TypeOK /\ Phases /\ RecordsKept /\ TextsInHand /\ BackupInv /\ EvidenceInv /\ FilesInv
         /\ RowsInv /\ PlanInv /\ SettledInv
BY DEF HomeInv

(* A restore ends with its run.                                            *)
LEMMA RestoreEnds ==
  ASSUME TypeOK, Phases, [Next]_vars, job.undo, job' = Idle
  PROVE  Ended
<1>1. job.kind = "sync" /\ job # Idle /\ job'.kind = "none" /\ job'.kind # job.kind
  BY DEF Phases, Idle
<1>2. ~ (Still \/ CodexAppends \/ CodexArchives \/ CodexSavesGlobal)
  BY <1>1, CodexSteps DEF Still, Shaken
<1>3. ~ Begun
  BY <1>1 DEF Begun, Began
<1>4. ~ SameRun
  BY <1>1 DEF SameRun
<1>5. ~ (ReadKinds \/ Collects \/ Count \/ MakeBackup \/ MarkBackup \/ Open \/ Skips \/ Truncate \/ Write \/ Verify)
  BY <1>4, OwnSteps DEF Collects, CollectedFrom, Skips, ToStep
<1>6. ~ (PhaseDone \/ UpdateDb \/ Plan \/ RepairDb \/ MoveRows \/ NormalizeGlobal \/ Undoes \/ Finds
        \/ ToStep("plan") \/ Onward("known", "plan"))
  BY <1>4, OwnSteps, PhaseSteps, GlobalMoves DEF Undoes, Finds, ToStep, Onward
<1> QED
  BY <1>2, <1>3, <1>5, <1>6, StepCases

(* A restore, also one that is cut short, leaves every file as it was or   *)
(* as it was rewritten: restore_session_changes, whose error is ignored.   *)
THEOREM FilesRestoredTheorem == Spec => FilesRestored
<1> DEFINE Back == job.undo /\ job' = Idle =>
                     \A t \in DOMAIN file :
                       \/ file'[t] = start.file[t]
                       \/ t \in job.todo /\ file'[t] = job.changes[t].new
                       \/ written[t] # start.written[t] \/ t \in hit'
<1>1. ASSUME HomeInv, [Next]_vars PROVE Back
  <2> SUFFICES ASSUME job.undo, job' = Idle, NEW t \in DOMAIN file,
                      written[t] = start.written[t], t \notin hit'
               PROVE  file'[t] = start.file[t] \/ (t \in job.todo /\ file'[t] = job.changes[t].new)
    OBVIOUS
  <2>1. TypeOK /\ Phases /\ FilesInv
    BY <1>1, HomeParts
  <2>2. Ended
    BY <1>1, <2>1, RestoreEnds
  <2>3. file' = file /\ t \notin hit /\ ~ (At("write") /\ t = This)
    BY <2>2 DEF Ended
  <2>4. job.kind = "sync" /\ Steady(t)
    BY <2>1, <2>3 DEF Phases, Steady
  <2>5. file[t] = Expected(t) /\ (t \in DOMAIN job.changes => job.changes[t].old = start.file[t])
    BY <2>1, <2>4 DEF FilesInv
  <2>6. CASE At("verify") /\ t = This
    <3>1. t \in DOMAIN job.changes
      BY <2>1, <2>6, ThisInHand DEF Rewriting, At
    <3> QED
      BY <2>3, <2>5, <2>6, <3>1 DEF Expected, New, At
  <2>7. CASE ~ (At("verify") /\ t = This)
    BY <2>3, <2>5, <2>7 DEF Expected
  <2> QED
    BY <2>6, <2>7
<1>2. HomeInv /\ [Next]_vars => [Back]_vars
  BY <1>1
<1> QED
  BY <1>2, HomeTheorem, PTL DEF Spec, FilesRestored

(* Before the lines of a file change, their old form is in a complete      *)
(* backup, and it is still there when the run ends well.                   *)
THEOREM RewritesBackedUpTheorem == Spec => RewritesBackedUp
<1> DEFINE Saved ==
      OwnStep /\ ~ job.undo /\ (At("truncate") \/ (job.kind # "recovery" /\ job # Idle /\ answer' = "synced"))
        => \A t \in job.applied \cup (IF At("truncate") THEN {This} ELSE {}) :
             \E b \in backups' : /\ b.complete /\ t \in DOMAIN b.meta
                                 /\ b.meta[t] = job.changes[t].old.meta
<1>1. ASSUME HomeInv, [Next]_vars PROVE Saved
  <2>1. TypeOK /\ Phases /\ BackupInv
    BY <1>1, HomeParts
  <2> QED
    BY <1>1, <2>1, BackedUp
<1>2. HomeInv /\ [Next]_vars => [Saved]_vars
  BY <1>1
<1> QED
  BY <1>2, HomeTheorem, PTL DEF Spec, RewritesBackedUp

(* Of a thread with the evidence of an agent a sync changes neither the    *)
(* file nor a row of the threads tables.                                   *)
LEMMA AgentKept ==
  ASSUME TypeOK, Phases, TextsInHand, EvidenceInv, [Next]_vars, OwnStep, job.kind = "sync",
         NEW t \in Threads, AgentEvidence(t)
  PROVE  /\ t \in DOMAIN file => file'[t] = file[t]
         /\ \A d \in Dbs : t \in DOMAIN db[d].threads => db'[d].threads[t] = db[d].threads[t]
<1>1. ~ (CodexAppends \/ CodexArchives \/ CodexSavesGlobal)
  <2>1. trouble' = trouble /\ trouble \in Nat
    BY Numbers DEF OwnStep
  <2>2. ~ Trouble
    BY <2>1 DEF Trouble
  <2> QED
    BY <2>2 DEF CodexAppends, CodexArchives, CodexSavesGlobal
<1>2. Collected => t \in job.excluded /\ t \notin DOMAIN job.changes
  BY DEF EvidenceInv
<1>3. ASSUME t \in DOMAIN file PROVE file'[t] = file[t]
  <2>1. Truncate \/ Write => This # t
    <3>1. Truncate \/ Write => Rewriting /\ Collected
      BY DEF Truncate, Write, Rewriting, Collected, At
    <3> QED
      BY <1>2, <3>1, ThisInHand
  <2> QED
    BY <1>1, <1>3, <2>1, TextSteps
<1>4. ASSUME NEW d \in Dbs, t \in DOMAIN db[d].threads PROVE db'[d].threads[t] = db[d].threads[t]
  <2>0. IsHistory(file, db)
    BY DEF TypeOK
  <2>1. CASE db' = db
    BY <2>1
  <2>2. CASE UpdateDb
    <3>1. DbStep(Path, Updated(Path)) /\ Collected
      BY <2>2, DbSteps DEF UpdateDb, Collected, At
    <3>2. Updated(d).threads[t] = db[d].threads[t]
      BY <1>2, <1>4, <2>0, <3>1, UpdatedFacts
    <3>3. db'[d] = Updated(d) \/ db'[d] = db[d]
      BY <3>1 DEF DbStep
    <3> QED
      BY <3>2, <3>3
  <2>3. CASE RepairDb
    <3>1. DbStep(Path, Repaired(Path, job.plan)) /\ IsPlan(job.plan)
      BY <2>3, DbSteps DEF RepairDb, TypeOK
    <3>2. Repaired(d, job.plan).threads = db[d].threads
      BY <2>0, <3>1, RepairedFacts
    <3>3. db'[d] = Repaired(d, job.plan) \/ db'[d] = db[d]
      BY <3>1 DEF DbStep
    <3> QED
      BY <3>2, <3>3
  <2>4. ~ MoveRows
    BY DEF MoveRows, At, Phases, SyncSteps, RewriteSteps, GlobalSteps
  <2> QED
    BY <1>1, <2>1, <2>2, <2>3, <2>4, HistoryKept
<1> QED
  BY <1>3, <1>4

(* Threads of agents keep their provider, in the file and in their rows.   *)
THEOREM AgentsUntouchedTheorem == Spec => AgentsUntouched
<1> DEFINE Kept == OwnStep /\ job.kind = "sync" =>
       \A t \in Threads : AgentEvidence(t) =>
         /\ t \in DOMAIN file => file'[t] = file[t]
         /\ \A d \in Dbs : t \in DOMAIN db[d].threads => db'[d].threads[t] = db[d].threads[t]
<1>1. ASSUME HomeInv, [Next]_vars PROVE Kept
  <2>1. TypeOK /\ Phases /\ TextsInHand /\ EvidenceInv
    BY <1>1, HomeParts
  <2> QED
    BY <1>1, <2>1, AgentKept
<1>2. HomeInv /\ [Next]_vars => [Kept]_<<file, db>>
  BY <1>1
<1> QED
  BY <1>2, HomeTheorem, PTL DEF Spec, AgentsUntouched

(* A thread of which some database has a row, and none calls it a child,   *)
(* is observed in one of its rows.                                         *)
LEMMA SeenInRows ==
  ASSUME TypeOK, NEW t, ThreadRows(t) # {}, \A e \in Dbs : t \notin Filtered(e, db)
  PROVE  t \in ObservedIds(db) /\ t \in Threads /\ Observed(t, db, file) \in ThreadRows(t)
<1>1. IsHistory(file, db)
  BY DEF TypeOK
<1>2. PICK d \in Dbs : t \in DOMAIN db[d].threads
  BY DEF ThreadRows
<1>3. PICK i \in DOMAIN Paths : Paths[i] = d
  BY DEF Dbs, Range
<1>4. i \in Observations(t, db)
  BY <1>2, <1>3 DEF Observations
<1>5. t \in ObservedIds(db)
  BY <1>2, <1>4 DEF ObservedIds
<1>6. /\ t \in Threads
      /\ \E e \in Dbs : /\ t \in DOMAIN db[e].threads
                        /\ Observed(t, db, file) = db[e].threads[t]
  BY <1>1, <1>5, ObservedIdsRow
<1> QED
  BY <1>5, <1>6 DEF ThreadRows

(* What a sync has before it at its end is consistent.                     *)
LEMMA DoneConsistent ==
  ASSUME TypeOK, Phases, TextsInHand, EvidenceInv, FilesInv, RowsInv, PlanInv, Done
  PROVE  Consistent
<1>1. /\ \A t \in DOMAIN job.changes : t \notin job.skipped => file[t].meta = {"target"}
      /\ \A t \in DOMAIN file \ (job.excluded \cup job.skipped \cup DOMAIN job.changes) : file[t].meta = {}
      /\ \A t \in Threads : t \in job.excluded <=> AgentEvidence(t)
  BY DoneFiles
<1>2. /\ \A d \in Dbs : TargetIn(db[d], job.excluded, job.events)
      /\ \A d \in Catalogs : ListedIn(db[d], DOMAIN Now(db, file).insert, Now(db, file).remove[d])
  BY DoneRows
<1>3. IsHistory(file, db) /\ Catalogs \subseteq Dbs
  BY FilesAssumption DEF TypeOK
<1>4. ASSUME NEW t \in Threads
      PROVE  t \in DOMAIN file \ job.skipped /\ file[t].meta # {} /\ ~ AgentEvidence(t) => file[t].meta = {"target"}
  BY <1>1
<1>5. ASSUME NEW t \in Threads, ~ AgentEvidence(t), NEW d \in Dbs
      PROVE  /\ t \in DOMAIN db[d].threads => db[d].threads[t].provider = "target"
             /\ t \in DOMAIN db[d].catalog => db[d].catalog[t].provider = "target"
  <2>1. t \notin job.excluded /\ TargetIn(db[d], job.excluded, job.events)
    BY <1>1, <1>2, <1>5
  <2> QED
    BY <2>1 DEF TargetIn
<1>6. ASSUME NEW t \in Threads, ThreadRows(t) # {}, NEW d \in Catalogs,
             \A e \in Dbs : t \notin Filtered(e, db),
             \A r \in ThreadRows(t) : Live(r) /\ (r.filed => t \in DOMAIN file)
      PROVE  t \in DOMAIN db[d].catalog
  <2>1. /\ t \in ObservedIds(db) /\ Live(Observed(t, db, file))
        /\ Observed(t, db, file).filed => t \in DOMAIN file
    BY <1>6, SeenInRows
  <2>2. t \notin Spawned(db)
    BY <1>6 DEF Spawned, Filtered
  <2>3. Eligible(t, Observed(t, db, file), db, file)
    BY <1>6, <2>1, <2>2 DEF Live, Eligible, NonRoot
  <2>4. t \in Fit(db, file, Threads)
    BY <2>1, <2>3 DEF Fit
  <2>5. t \in DOMAIN Now(db, file).insert
    BY <2>4, PlanInsert DEF Now
  <2> QED
    BY <1>2, <2>5 DEF ListedIn
<1>7. ASSUME NEW t \in Threads, ThreadRows(t) # {}, NEW d \in Catalogs,
             \A r \in ThreadRows(t) : r.archived, \A e \in Dbs : t \notin Filtered(e, db)
      PROVE  t \notin DOMAIN db[d].catalog
  <2>1. t \in ObservedIds(db) /\ Observed(t, db, file).archived
    BY <1>7, SeenInRows
  <2>2. t \notin Fit(db, file, Threads)
    BY <2>1 DEF Fit, Eligible
  <2>3. t \in Now(db, file).remove[d]
    BY <1>3, <2>1, <2>2, PlanRemove DEF Now
  <2> QED
    BY <1>2, <2>3 DEF ListedIn
<1> QED
  BY <1>4, <1>5, <1>6, <1>7 DEF Consistent

(* A run's answer is that of its end.                                      *)
LEMMA Answers ==
  ASSUME TypeOK, Phases, [Next]_vars, job # Idle, answer' \in {"synced", "up to date"}
  PROVE  Ended
<1>1. answer = "none"
  BY DEF Phases
<1>2. ~ (Still \/ CodexAppends \/ CodexArchives \/ CodexSavesGlobal)
  BY <1>1, CodexSteps DEF Still
<1>3. ~ Begun
  BY DEF Begun, Began
<1>4. ~ (ReadKinds \/ Collects \/ Count \/ MakeBackup \/ MarkBackup \/ Open \/ Skips \/ Truncate \/ Write \/ Verify
        \/ PhaseDone \/ UpdateDb \/ Plan \/ RepairDb \/ MoveRows \/ NormalizeGlobal \/ Undoes \/ Finds
        \/ Onward("known", "plan"))
  BY <1>1, PhaseSteps, GlobalMoves DEF ReadKinds, Collects, Count, MakeBackup, MarkBackup, Open, Skips,
     Truncate, Write, Verify, UpdateDb, Plan, RepairDb, MoveRows, Undoes, Finds, Onward
<1> QED
  BY <1>1, <1>2, <1>3, <1>4, StepCases

(* What "synced" promises when nothing else wrote holds for every history. *)
THEOREM SyncedIsSyncedTheorem == Spec => SyncedIsSynced
<1> DEFINE Well == job.kind = "sync" /\ job.quiet /\ answer' \in {"synced", "up to date"} => Consistent
<1>1. ASSUME HomeInv, [Next]_vars, job.kind = "sync", job.quiet, answer' \in {"synced", "up to date"}
      PROVE  Consistent
  <2>1. TypeOK /\ Phases /\ TextsInHand /\ EvidenceInv /\ FilesInv /\ RowsInv /\ PlanInv
    BY <1>1, HomeParts
  <2>2. job # Idle
    <3>1. Idle.kind = "none"
      BY DEF Idle
    <3>2. job.kind = "sync"
      BY <1>1
    <3> QED
      BY <3>1, <3>2
  <2>3. Ended
    BY <1>1, <2>1, <2>2, Answers
  <2>4. Prune \/ UpToDate
    BY <1>1, <2>3 DEF Ended
  <2>5. Done
    BY <1>1, <2>4 DEF Done, Prune, UpToDate
  <2> QED
    BY <2>1, <2>5, DoneConsistent
<1>2. HomeInv /\ [Next]_vars => [Well]_vars
  BY <1>1
<1> QED
  BY <1>2, HomeTheorem, PTL DEF Spec, SyncedIsSynced

(* A sync that finds a home at rest has nothing to do.                     *)
LEMMA NothingUpdated ==
  ASSUME TypeOK, NEW d \in Dbs, TargetIn(db[d], job.excluded, job.events)
  PROVE  Updated(d) = db[d]
<1> DEFINE u == Updated(d)
<1>1. IsHistory(file, db)
  BY DEF TypeOK
<1>2. RowsAtTarget(d, job.excluded, job.events)
  BY TargetRows
<1>3. /\ IsDb(u, d) /\ u.edges = db[d].edges /\ u.jobs = db[d].jobs
      /\ DOMAIN u.threads = DOMAIN db[d].threads /\ DOMAIN u.catalog = DOMAIN db[d].catalog
      /\ \A t \in DOMAIN db[d].threads : u.threads[t] = db[d].threads[t]
      /\ \A t \in DOMAIN db[d].catalog : u.catalog[t] = db[d].catalog[t]
  BY <1>1, <1>2, UpdatedFacts
<1> HIDE DEF u
<1>4. /\ db[d] = [threads |-> db[d].threads, catalog |-> db[d].catalog,
                  edges |-> db[d].edges, jobs |-> db[d].jobs]
      /\ IsTable(db[d].threads, ThreadRecs) /\ IsTable(db[d].catalog, CatalogRecs)
  BY <1>1, DbParts
<1>5. u = [threads |-> u.threads, catalog |-> u.catalog, edges |-> u.edges, jobs |-> u.jobs]
      /\ IsTable(u.threads, ThreadRecs) /\ IsTable(u.catalog, CatalogRecs)
  BY <1>3 DEF IsDb
<1>6. u.threads = db[d].threads
  <2>1. u.threads \in [DOMAIN u.threads -> ThreadRecs] /\ db[d].threads \in [DOMAIN db[d].threads -> ThreadRecs]
    BY <1>4, <1>5 DEF IsTable
  <2> QED
    BY <1>3, <2>1
<1>7. u.catalog = db[d].catalog
  <2>1. u.catalog \in [DOMAIN u.catalog -> CatalogRecs] /\ db[d].catalog \in [DOMAIN db[d].catalog -> CatalogRecs]
    BY <1>4, <1>5 DEF IsTable
  <2> QED
    BY <1>3, <2>1
<1>8. u = db[d]
  BY <1>3, <1>4, <1>5, <1>6, <1>7
<1> QED
  BY <1>8 DEF u

(* A run over a settled home finds nothing to do.                          *)
LEMMA RestfulIdle ==
  ASSUME HomeInv, job.kind = "sync", At("count"), settled, job.skipped = {}
  PROVE  NothingToDo
<1>1. /\ TypeOK /\ Phases /\ TextsInHand /\ EvidenceInv /\ FilesInv /\ SettledInv
  BY HomeParts
<1>2. Reading /\ Collected
  BY DEF Reading, Collected, At
<1>3. job.quiet /\ AtRest(file, db, global)
  BY <1>1, <1>2, SettledParts
<1>4. job.who = Threads /\ ~ job.undo /\ job.applied = {}
  BY <1>1 DEF Phases, RewriteSteps, At
<1>5. /\ Subagents(db) = Subagents(start.db)
      /\ \A t \in Threads : t \in job.excluded <=> AgentEvidence(t)
      /\ \A t \in DOMAIN job.changes : t \notin job.excluded
      /\ job.events \subseteq DOMAIN job.changes
      /\ \A t \in DOMAIN job.changes : t \in job.events <=> job.changes[t].old.event
  BY <1>1, <1>2 DEF EvidenceInv
<1>6. \A t \in Threads : t \in job.excluded <=> t \in LeftAlone(file, db)
  BY <1>5 DEF AgentEvidence, LeftAlone
<1>7. ASSUME NEW t \in DOMAIN job.changes
      PROVE  /\ t \in DOMAIN file /\ t \in Threads
             /\ file[t] = job.changes[t].old /\ file[t] \in Texts /\ file[t].meta = {"target"}
  <2>1. t \in DOMAIN file /\ t \in Threads /\ job.changes[t].old \in Texts /\ job.changes[t].old.meta # {}
    BY <1>1, InHand
  <2>2. file[t] = Expected(t) /\ job.changes[t].old = start.file[t]
    BY <1>1, <1>3, <2>1 DEF FilesInv, Steady
  <2>3. Expected(t) = start.file[t]
    BY <1>4 DEF Expected, At
  <2>4. t \notin LeftAlone(file, db)
    BY <1>5, <1>6, <2>1
  <2>5. file[t].meta \in {{}, {"target"}}
    BY <1>3, <2>1, <2>4 DEF AtRest
  <2> QED
    BY <2>1, <2>2, <2>3, <2>5
<1>8. job.todo = {}
  <2> SUFFICES ASSUME NEW t \in job.todo PROVE FALSE
    OBVIOUS
  <2>1. t \in DOMAIN job.changes
    BY <1>1 DEF Phases
  <2>2. job.changes[t].new = Rewritten(job.changes[t].old) /\ job.changes[t].new # job.changes[t].old
    BY <1>1, <2>1 DEF TextsInHand
  <2>3. Rewritten(file[t]) = [file[t] EXCEPT !.meta = {"target"}]
    BY DEF Rewritten
  <2>4. [file[t] EXCEPT !.meta = {"target"}] = file[t]
    BY <1>7, <2>1 DEF Texts
  <2> QED
    BY <1>7, <2>1, <2>2, <2>3, <2>4
<1>9. ASSUME NEW d \in Dbs PROVE Updated(d) = db[d]
  <2>1. TargetIn(db[d], LeftAlone(file, db), Eventful(file))
    BY <1>3 DEF AtRest
  <2>2. IsHistory(file, db)
    BY <1>1 DEF TypeOK
  <2>3. \A t \in DOMAIN db[d].threads : t \in Threads
    BY <2>2, DbParts, TableRow
  <2>4. \A t \in DOMAIN db[d].catalog : t \in Threads
    BY <2>2, DbParts, TableRow
  <2>5. \A t \in job.events : t \in Eventful(file)
    BY <1>5, <1>7 DEF Eventful
  <2>6. TargetIn(db[d], job.excluded, job.events)
    BY <1>6, <2>1, <2>3, <2>4, <2>5 DEF TargetIn
  <2> QED
    BY <1>1, <2>6, NothingUpdated
<1>10. /\ \A d \in Catalogs : ListedIn(db[d], DOMAIN Now(db, file).insert, Now(db, file).remove[d])
       /\ global.main = "normal"
  BY <1>3 DEF AtRest
<1> QED
  BY <1>4, <1>8, <1>9, <1>10 DEF NothingToDo, ListedIn, Now

(* A second sync has nothing to do, whatever the history was.              *)
THEOREM SecondSyncIdleTheorem == Spec => SecondSyncIdle
<1> DEFINE Rests == job.kind = "sync" /\ At("count") /\ settled /\ job.skipped = {} => job'.step # "backup"
<1>1. ASSUME HomeInv, [Next]_vars, job.kind = "sync", At("count"), settled, job.skipped = {}
      PROVE  job'.step # "backup"
  <2>1. TypeOK /\ Phases
    BY <1>1, HomeParts
  <2>2. ~ Count
    BY <1>1, RestfulIdle DEF Count
  <2>3. job.step = "count"
    BY <1>1 DEF At
  <2>4. Ended \/ Begun => job'.step # "backup"
    BY Edges
  <2>5. Still \/ CodexAppends \/ CodexArchives \/ CodexSavesGlobal => job'.step = job.step
    BY <2>1, RunShaken DEF Still
  <2>6. ~ (ReadKinds \/ Collects \/ MakeBackup \/ MarkBackup \/ Open \/ Skips \/ Truncate \/ Write \/ Verify
           \/ PhaseDone \/ UpdateDb \/ Plan \/ RepairDb \/ MoveRows \/ NormalizeGlobal \/ Undoes \/ Finds
           \/ At("match") \/ Onward("known", "plan"))
    BY <2>1, <2>3, PhaseSteps, GlobalMoves DEF ReadKinds, Collects, MakeBackup, MarkBackup, Open, Opened, Skips,
       Truncate, Write, Verify, UpdateDb, Plan, RepairDb, MoveRows, Undoes, Finds, Onward, At
  <2> QED
    BY <1>1, <2>1, <2>2, <2>3, <2>4, <2>5, <2>6, StepCases
<1>2. HomeInv /\ [Next]_vars => [Rests]_vars
  BY <1>1
<1> QED
  BY <1>2, HomeTheorem, PTL DEF Spec, SecondSyncIdle
=============================================================================
