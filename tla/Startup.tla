------------------------------ MODULE Startup ------------------------------
(***************************************************************************)
(* The database of one installation, from process to process: what         *)
(* Database.create_all does to a file that an earlier release, or a crash  *)
(* of the startup before, has left, and the full-text index the triggers   *)
(* keep beside the memories while the process serves.                      *)
(*                                                                         *)
(* SQLite commits each schema statement by itself here (the driver opens a *)
(* transaction only at the first INSERT), so a crash may fall between any  *)
(* two of them.  What the reconciler does next is in RunRecovery.          *)
(***************************************************************************)
EXTENDS Integers, Sequences

CONSTANTS
    Memories,   \* memories that may be written
    Texts,      \* what a memory may say
    MaxCrashes  \* bound on the crashes

ASSUME StartupAssumption == MaxCrashes \in Nat

VARIABLES
    fts5,       \* the build of SQLite has FTS5, in every process
    schema,     \* what exists in the file
    stamped,    \* schema_meta holds this version
    rows,       \* the memories stored, each with its text
    fts,        \* what the full-text index has, likewise
    up,         \* "down", "booting", "serving"
    next,       \* the next statement of create_all
    made,       \* what this startup has created
    crashes

-----------------------------------------------------------------------------
(* The schema: the names of what exists.                                   *)

Tables == {"runs", "events", "tasks", "task_attempts", "memories", "schema_meta"}

(* _LIGHT_MIGRATIONS *)
TaskColumns == {"attempt_count", "replan_generation", "parent_generation"}

Triggers == {"memories_ai", "memories_ad", "memories_au"}

(* The indexes the models declare, each with its table.                    *)
DeclaredIndexes ==
    {<<"runs", "ix_runs_created">>, <<"runs", "ix_runs_status">>,
     <<"events", "ix_events_run_seq">>, <<"tasks", "ix_tasks_run_index">>,
     <<"tasks", "ix_tasks_status">>,
     <<"task_attempts", "ix_attempts_task_number">>,
     <<"memories", "ix_memories_status_created">>,
     <<"memories", "ix_memories_status">>}

IndexesOf(table) == {d[2] : d \in {e \in DeclaredIndexes : e[1] = table}}

FullText == {"memories_fts"} \cup Triggers

(* create_all: each table and after it its indexes, one by one, then the   *)
(* columns and the index that files of earlier releases lack, the          *)
(* full-text index and the stamp.                                          *)
Migrations ==
    << "attempt_count", "replan_generation", "parent_generation",
       "ix_runs_created",
       "memories_fts", "memories_ai", "memories_ad", "memories_au" >>

(* Tables come by the depth of their foreign keys and then as declared.    *)
TableSteps ==
    << <<"table", "runs">>,          <<"index", "runs">>, <<"index", "runs">>,
       <<"table", "schema_meta">>,
       <<"table", "events">>,        <<"index", "events">>,
       <<"table", "tasks">>,         <<"index", "tasks">>, <<"index", "tasks">>,
       <<"table", "memories">>,      <<"index", "memories">>, <<"index", "memories">>,
       <<"table", "task_attempts">>, <<"index", "task_attempts">> >>

MigrationSteps == [i \in DOMAIN Migrations |-> <<"migration", Migrations[i]>>]

Stamping == <<"stamp", "schema_meta">>

Statements_StampFirst ==
    SubSeq(TableSteps, 1, 4) \o <<Stamping>>
        \o SubSeq(TableSteps, 5, Len(TableSteps)) \o MigrationSteps

Statements == Append(TableSteps \o MigrationSteps, Stamping)

(* What a statement may create: a new table has the columns of its model;  *)
(* its indexes are a set, which comes in any order.                        *)
Creates(s) ==
    CASE s[1] = "index"           -> {{i} : i \in IndexesOf(s[2]) \ schema}
      [] s = <<"table", "tasks">> -> {{"tasks"} \cup TaskColumns}
      [] OTHER                    -> {{s[2]}}

Required ==
    Tables \cup TaskColumns \cup {"ix_runs_created"}
        \cup (IF fts5 THEN FullText ELSE {})

(* The releases an installation may come from.                             *)
With(tables) ==
    tables \cup (UNION {IndexesOf(t) : t \in tables} \ {"ix_runs_created"})

M2 == With({"runs", "events"})
M3 == M2 \cup With({"tasks"})
M4 == M3 \cup TaskColumns \cup With({"task_attempts"})
M5 == M4 \cup With({"memories"}) \cup (IF fts5 THEN FullText ELSE {})

file == <<schema, stamped, rows, fts, fts5>>
vars == <<file, up, next, made, crashes>>

-----------------------------------------------------------------------------
Of(m) == {r \in rows : r[1] = m}

Init ==
    /\ fts5 \in BOOLEAN
    /\ schema \in {{}, M2, M3, M4, M5}
    /\ stamped = FALSE
    /\ rows \in SUBSET (Memories \X Texts)
    /\ rows # {} => "memories" \in schema
    /\ \A r \in rows : Of(r[1]) = {r}
    /\ fts = IF fts5 THEN rows ELSE {}
    /\ up = "down" /\ next = 1 /\ made = {} /\ crashes = 0

Boot ==
    /\ up = "down"
    /\ up' = "booting" /\ next' = 1 /\ made' = {}
    /\ UNCHANGED <<file, crashes>>

Current == Statements[next]

Left_TriggersOfOldTable(s) ==
    \/ s[1] # "index" /\ s[2] \in schema
    \/ s[1] = "index" /\ s[2] \notin made
    \/ s[2] \in FullText /\ ~fts5
    \/ s[2] \in Triggers /\ "memories_fts" \notin made

(* What is left out: what is there already, with the columns it has; a     *)
(* table's own indexes, unless this startup made the table; and where the  *)
(* build has no FTS5, the virtual table, which fails, and its triggers,    *)
(* which are not tried.                                                    *)
Left(s) ==
    \/ s[1] # "index" /\ s[2] \in schema
    \/ s[1] = "index" /\ s[2] \notin made
    \/ s[2] \in FullText /\ ~fts5

Guarded_NotColumns(s) == s[2] \notin TaskColumns

(* Looked up first, or IF NOT EXISTS: every statement is.                  *)
Guarded(s) == s[2] \in Tables \cup TaskColumns \cup FullText \cup {"ix_runs_created"}

(* A statement that finds what it creates raises, and nothing is served.   *)
Execute ==
    /\ up = "booting"
    /\ next <= Len(Statements) /\ Current # Stamping
    /\ Current[2] \in schema => Guarded(Current)
    /\ \E new \in IF Left(Current) THEN {{}} ELSE Creates(Current) :
           schema' = schema \cup new
    /\ made' = made \cup (schema' \ schema)
    /\ next' = next + 1
    /\ UNCHANGED <<fts5, stamped, rows, fts, up, crashes>>

(* _stamp_schema_meta, the one transaction of the startup.                 *)
Stamp ==
    /\ up = "booting"
    /\ next <= Len(Statements) /\ Current = Stamping
    /\ stamped' = TRUE
    /\ next' = next + 1
    /\ UNCHANGED <<fts5, schema, rows, fts, up, made, crashes>>

StartServing ==
    /\ up = "booting"
    /\ next > Len(Statements)
    /\ up' = "serving"
    /\ UNCHANGED <<file, next, made, crashes>>

(* A crash, or a stop: whatever was committed stays.                       *)
Crash ==
    /\ up # "down"
    /\ crashes < MaxCrashes
    /\ up' = "down"
    /\ crashes' = crashes + 1
    /\ UNCHANGED <<file, next, made>>

-----------------------------------------------------------------------------
(* The memories, each transaction with its trigger.                        *)

Indexed(trigger, new) == IF trigger \in schema THEN new ELSE fts

Write(m, text) ==
    /\ up = "serving" /\ Of(m) = {}
    /\ rows' = rows \cup {<<m, text>>}
    /\ fts' = Indexed("memories_ai", fts \cup {<<m, text>>})
    /\ UNCHANGED <<fts5, schema, stamped, up, next, made, crashes>>

(* Touched, pinned, hidden or, by a second write for its run, reworded:    *)
(* the old text is taken out of the index and the new one put in.          *)
Update(m, text) ==
    /\ up = "serving" /\ Of(m) # {}
    /\ rows' = (rows \ Of(m)) \cup {<<m, text>>}
    /\ fts' = Indexed("memories_au", (fts \ Of(m)) \cup {<<m, text>>})
    /\ UNCHANGED <<fts5, schema, stamped, up, next, made, crashes>>

Delete(m) ==
    /\ up = "serving" /\ Of(m) # {}
    /\ rows' = rows \ Of(m)
    /\ fts' = Indexed("memories_ad", fts \ Of(m))
    /\ UNCHANGED <<fts5, schema, stamped, up, next, made, crashes>>

Next ==
    \/ Boot \/ Execute \/ Stamp \/ StartServing \/ Crash
    \/ \E m \in Memories :
          Delete(m) \/ \E text \in Texts : Write(m, text) \/ Update(m, text)

Spec == Init /\ [][Next]_vars

(* An installation is started again, and a startup goes on by itself.      *)
FairSpec == Spec /\ WF_vars(Boot \/ Execute \/ Stamp \/ StartServing)

-----------------------------------------------------------------------------
TypeOK ==
    /\ fts5 \in BOOLEAN
    /\ schema \subseteq Required \cup UNION {IndexesOf(t) : t \in Tables}
    /\ stamped \in BOOLEAN
    /\ rows \subseteq Memories \X Texts /\ fts \subseteq Memories \X Texts
    /\ up \in {"down", "booting", "serving"}
    /\ next \in 1 .. (Len(Statements) + 1)
    /\ made \subseteq schema
    /\ crashes \in 0 .. MaxCrashes

(* The stamp tells the truth about the file, whatever crashed on the way   *)
(* there, and nothing is served from a file without it: "so migrations and *)
(* recovery can reason about on-disk shape" (RFC-0004, section 14).        *)
StampTellsSchema ==
    /\ stamped => Required \subseteq schema
    /\ up = "serving" => stamped

(* What a recall searches is what is stored: no memory the index misses,   *)
(* none it still has.                                                      *)
IndexMirrors == fts5 => fts = rows

(* Any file an earlier release or a crash has left can be started from.    *)
ComesUp == (up = "booting") ~> (up = "serving")
=============================================================================
