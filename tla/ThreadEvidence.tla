--------------------------- MODULE ThreadEvidence ---------------------------
(***************************************************************************)
(* What the history of Codex says about its threads, as provider_sync.rs   *)
(* reads it: which threads are agents' (subagents, internal ones), which   *)
(* are users', and which of them the local catalog has to list.            *)
(*                                                                         *)
(* A database is a record of its threads table and its local catalog, both *)
(* functions from thread ids to rows, of its spawn edges and of the        *)
(* threads its agent jobs name.  A rollout file is a record of what its    *)
(* session_meta lines say and of how many records follow.  A thread row is *)
(* filed when its rollout_path is not empty.                               *)
(* A mark stands for the source columns of a row:                          *)
(*   user   thread_source is "user"                                        *)
(*   agent  a structured source, or a thread_source, of an agent           *)
(*   other  another thread_source, an agent role or the source "exec"      *)
(*   plain  none of these                                                  *)
(***************************************************************************)
EXTENDS Naturals, Sequences, Functions

CONSTANT Paths          \* the SQLite databases, in the order of their paths

(* A path found twice is listed once.                                      *)
ASSUME PathsAssumption ==
  /\ Paths \in Seq(Range(Paths))
  /\ \A i, j \in DOMAIN Paths : Paths[i] = Paths[j] => i = j

Marks == {"user", "agent", "other", "plain"}
Dbs == Range(Paths)

Rows(db) == {db[d].threads : d \in Dbs} \cup {db[d].catalog : d \in Dbs}
Marked(db, mark) ==
  UNION {{t \in DOMAIN rows : rows[t].mark = mark} : rows \in Rows(db)}

(* collect_spawned_child_thread_ids                                        *)
Spawned(db) == UNION {db[d].edges : d \in Dbs}

(* subagent_filter: what one database itself says of a child or a job.     *)
Filtered(d, db) == db[d].edges \cup db[d].jobs
Called(db) == UNION {Filtered(d, db) : d \in Dbs}

-----------------------------------------------------------------------------
(* Which threads the rewriting leaves alone.                               *)

ExplicitUsers(db) == Marked(db, "user")

(* sqlite_provider_sync_thread_kinds: any row that says user outweighs     *)
(* what the other rows and the spawn edges say.                            *)
Subagents(db) == (Called(db) \cup Marked(db, "agent")) \ ExplicitUsers(db)

-----------------------------------------------------------------------------
(* The catalog: collect_catalog_repair_plan.                               *)

(* is_catalog_non_root_agent                                               *)
NonRoot(t, mark, db) == mark = "agent" \/ (mark # "user" /\ t \in Spawned(db))

Eligible(t, r, db, file) ==
  /\ ~ r.archived
  /\ r.event
  /\ r.mark \in {"user", "plain"}
  /\ ~ NonRoot(t, r.mark, db)
  /\ r.filed => t \in DOMAIN file

(* Which databases speak for a thread, by their places in the order of the *)
(* paths: those that have a row of it and do not call it a child.          *)
Observations(t, db) ==
  {i \in DOMAIN Paths : t \in DOMAIN db[Paths[i]].threads /\ t \notin Filtered(Paths[i], db)}

(* The newest row speaks for the thread; of equally new ones the first     *)
(* that is not eligible, if there is one.                                  *)
RowAt(i, t, db) == db[Paths[i]].threads[t]
Newest(t, db) ==
  {i \in Observations(t, db) :
     \A j \in Observations(t, db) : RowAt(j, t, db).at <= RowAt(i, t, db).at}
Observed(t, db, file) ==
  LET refuse == {i \in Newest(t, db) : ~ Eligible(t, RowAt(i, t, db), db, file)}
      choice == IF refuse = {} THEN Newest(t, db) ELSE refuse
  IN  RowAt(CHOOSE i \in choice : \A j \in choice : i <= j, t, db)

ObservedIds(db) ==
  {t \in UNION {DOMAIN db[d].threads : d \in Dbs} : Observations(t, db) # {}}

(* insert: the rows a catalog must have; remove[d]: those it must not.     *)
(* What only a catalog says counts for that catalog alone.                 *)
CatalogPlan(db, file, only) ==
  LET ids     == ObservedIds(db) \cap only
      users   == {t \in ids : Observed(t, db, file).mark = "user"}
      fit     == {t \in ids : Eligible(t, Observed(t, db, file), db, file)}
      suspect == [d \in Dbs |-> {t \in DOMAIN db[d].catalog :
                                   NonRoot(t, db[d].catalog[t].mark, db)}]
  IN  [insert |-> [t \in fit |-> Observed(t, db, file).mark],
       remove |-> [d \in Dbs |-> (ids \ fit) \cup ((suspect[d] \cap only) \ users)]]
=============================================================================
