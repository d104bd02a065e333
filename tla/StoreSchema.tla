----------------------------- MODULE StoreSchema -----------------------------
(***************************************************************************)
(* The schema of a WorkspaceDO's SQLite store and its migrations           *)
(* (src/worker/workspace-store.ts): what the constructor does to a store   *)
(* that an older release of the code left behind.                          *)
(*                                                                         *)
(* A store is its schema version and its tables; a table has columns, a    *)
(* CHECK for some of them, and rows.  A row is a function from columns to  *)
(* values.  Indexes and column types are left out.  The constructor runs   *)
(* without an await, so its writes become durable together.                *)
(*                                                                         *)
(* A pure module: the assumptions at its end are evaluated over bounded    *)
(* old stores by the runs whose module extends this one.                   *)
(***************************************************************************)
EXTENDS Integers, TLC

Null == "null"
SchemaVersion == 5        \* WS_PROTOCOL_VERSION

Schema(cols, checks) == [cols |-> cols, checks |-> checks]
NoChecks == [c \in {} |-> {}]

(* The tables as each migration writes them.                               *)

MetaSchema == Schema({"key", "value"}, NoChecks)

UpdatesPhase1 ==
  Schema({"id", "author_id", "author_name", "body", "created_at"}, NoChecks)
UpdatesV2 ==
  Schema({"id", "author_id", "author_name", "type", "content", "created_at"},
         [type |-> {"DAILY", "WEEKLY", "GENERAL"}])

TaskChecks(priorities) ==
  [status |-> {"TODO", "IN_PROGRESS", "BLOCKED", "DONE"},
   priority |-> priorities \cup {Null}]
TaskColumns == {"id", "title", "description", "status", "priority",
                "assignee_id", "created_by", "created_at", "updated_at"}
TasksV2 == Schema(TaskColumns, TaskChecks({"LOW", "MEDIUM", "HIGH"}))
TasksV5 == Schema(TaskColumns \cup {"due_date"},
                  TaskChecks({"LOW", "MEDIUM", "HIGH", "URGENT"}))

BlockerColumns == {"id", "task_id", "description", "status", "created_by",
                   "created_at", "resolved_at"}
BlockersV2 == Schema(BlockerColumns, [status |-> {"OPEN", "RESOLVED"}])
BlockersV5 ==
  Schema(BlockerColumns \cup
           {"created_by_name", "resolution_requested_at",
            "resolution_requested_by", "resolved_by", "resolved_by_name",
            "resolution_note", "mentor_responded"},
         [status |-> {"OPEN", "RESOLUTION_REQUESTED", "RESOLVED"}])

FeedbackV2 == Schema({"id", "author_id", "author_name", "content", "task_id",
                      "created_at"}, NoChecks)
ActivityV2 == Schema({"id", "actor_id", "actor_name", "type", "entity_id",
                      "metadata", "created_at"}, NoChecks)
ProcessedV2 == Schema({"request_id", "created_at"}, NoChecks)

RemindersV3 ==
  Schema({"id", "recipient_user_id", "recipient_role", "type", "entity_type",
          "entity_id", "message", "status", "created_at", "acknowledged_at",
          "snoozed_until"},
         [recipient_role |-> {"intern", "mentor", "manager"},
          status |-> {"OPEN", "ACKNOWLEDGED"}])
WeeklyColumns ==
  {"id", "reporting_period", "status", "draft_content", "final_content",
   "mentor_feedback", "round", "ai_generated", "created_by",
   "workflow_instance_id", "created_at", "submitted_at", "mentor_reviewed_at",
   "finalized_at"}
WeeklyStatusesV3 == {"DRAFT", "SUBMITTED", "CHANGES_REQUESTED", "APPROVED"}
WeeklyV3 == Schema(WeeklyColumns, [status |-> WeeklyStatusesV3])
WeeklyV5 == Schema(WeeklyColumns \cup {"overridden_by", "overridden_by_name"},
                   [status |-> WeeklyStatusesV3 \cup {"RESUBMITTED"}])

AttachmentsV4 ==
  Schema({"id", "filename", "content_type", "size", "uploader_id",
          "uploader_name", "created_at", "index_status", "chunk_count"},
         NoChecks)

CommentsV5 == Schema({"id", "blocker_id", "author_id", "author_name",
                      "author_role", "content", "created_at"}, NoChecks)
MentionsV5 == Schema({"id", "mentioned_user_id", "mentioned_by_name",
                      "source_type", "source_id", "snippet", "created_at",
                      "read_at"}, NoChecks)

-----------------------------------------------------------------------------
(* The statements the migrations are made of.                              *)

\* CREATE TABLE IF NOT EXISTS.
CreateIfMissing(tables, name, schema) ==
  tables @@ (name :> [schema |-> schema, rows |-> {}])

\* A column that the copy leaves out takes its DEFAULT.
Default(col) == CASE col = "mentor_responded" -> 0
                  [] col = "created_by_name" -> ""
                  [] OTHER -> Null

\* Create the new table, copy the given columns, drop the old table, rename.
Rebuilt(tables, name, schema, copied) ==
  (name :> [schema |-> schema,
            rows   |-> {[c \in schema.cols |->
                           IF c \in copied THEN row[c] ELSE Default(c)] :
                        row \in tables[name].rows}]) @@ tables

\* DROP TABLE of a parent deletes its rows first: where SQLite enforces foreign
\* keys, ON DELETE SET NULL reaches the rows that refer to them.
Orphaned(tables, children, col, enforced) ==
  [name \in DOMAIN tables |->
     IF enforced /\ name \in children
       THEN [tables[name] EXCEPT !.rows = {[r EXCEPT ![col] = Null] : r \in @}]
       ELSE tables[name]]

-----------------------------------------------------------------------------
(* The migrations.                                                         *)

\* updates may be missing, of phase 1 (with body), or current.
UpdatesNormalised(tables) ==
  IF "updates" \notin DOMAIN tables
    THEN CreateIfMissing(tables, "updates", UpdatesV2)
    ELSE LET old == tables["updates"] IN
         IF "body" \in old.schema.cols /\ "content" \notin old.schema.cols
           THEN ("updates" :>
                  [schema |-> UpdatesV2,
                   rows |-> {[c \in UpdatesV2.cols |->
                                CASE c = "type" -> "GENERAL"
                                  [] c = "content" -> row["body"]
                                  [] OTHER -> row[c]] : row \in old.rows}])
                @@ tables
           ELSE tables

migrateToV2(tables) ==
  LET t1 == CreateIfMissing(UpdatesNormalised(tables), "tasks", TasksV2)
      t2 == CreateIfMissing(t1, "blockers", BlockersV2)
      t3 == CreateIfMissing(t2, "feedback", FeedbackV2)
      t4 == CreateIfMissing(t3, "activity", ActivityV2)
  IN CreateIfMissing(t4, "processed_requests", ProcessedV2)

migrateToV3(tables) ==
  CreateIfMissing(CreateIfMissing(tables, "reminders", RemindersV3),
                  "weekly_reports", WeeklyV3)

migrateToV4(tables) == CreateIfMissing(tables, "attachments", AttachmentsV4)

migrateToV5(tables, enforced) ==
  LET t1 == Rebuilt(Orphaned(tables, {"blockers", "feedback"}, "task_id",
                             enforced),
                    "tasks", TasksV5, TaskColumns)
      t2 == Rebuilt(t1, "blockers", BlockersV5, BlockerColumns)
      t3 == CreateIfMissing(t2, "blocker_comments", CommentsV5)
      t4 == CreateIfMissing(t3, "mentions", MentionsV5)
  IN Rebuilt(t4, "weekly_reports", WeeklyV5, WeeklyColumns)

\* meta("schema_version") ?? 0
VersionOf(tables) ==
  LET kept == {r \in tables["workspace_meta"].rows :
                 r["key"] = "schema_version"}
  IN IF kept = {} THEN 0 ELSE (CHOOSE r \in kept : TRUE)["value"]

\* INSERT ... ON CONFLICT(key) DO UPDATE.
setMeta(tables, key, value) ==
  [tables EXCEPT !["workspace_meta"].rows =
     {r \in @ : r["key"] # key}
       \cup {[c \in {"key", "value"} |-> IF c = "key" THEN key ELSE value]}]

\* The constructor's init: the missing migrations in order, then the version.
StoreInit(tables, enforced) ==
  LET meta == CreateIfMissing(tables, "workspace_meta", MetaSchema)
      v  == VersionOf(meta)
      t2 == IF v < 2 THEN migrateToV2(meta) ELSE meta
      t3 == IF v < 3 THEN migrateToV3(t2) ELSE t2
      t4 == IF v < 4 THEN migrateToV4(t3) ELSE t3
      t5 == IF v < 5 THEN migrateToV5(t4, enforced) ELSE t4
  IN IF v < SchemaVersion THEN setMeta(t5, "schema_version", SchemaVersion)
                          ELSE t5

-----------------------------------------------------------------------------
(* Old stores: what a release that stopped at version v left, with rows.   *)

EmptyStore == [name \in {} |-> [schema |-> MetaSchema, rows |-> {}]]

\* Any row its CHECKs allow, in which the other columns hold their own name.
RowsOf(schema) ==
  {[c \in schema.cols |->
      IF c \in DOMAIN schema.checks THEN pick[c] ELSE c] :
   pick \in {p \in [DOMAIN schema.checks -> UNION {schema.checks[c] :
                                              c \in DOMAIN schema.checks}] :
               \A c \in DOMAIN schema.checks : p[c] \in schema.checks[c]}}

Filled(tables) ==
  [name \in DOMAIN tables |->
     IF name = "workspace_meta" THEN tables[name]
     ELSE [tables[name] EXCEPT !.rows = RowsOf(tables[name].schema)]]

LeftBy(v) ==
  LET meta == CreateIfMissing(EmptyStore, "workspace_meta", MetaSchema)
      t2 == migrateToV2(meta)
      t3 == IF v < 3 THEN t2 ELSE migrateToV3(t2)
      t4 == IF v < 4 THEN t3 ELSE migrateToV4(t3)
      t5 == IF v < 5 THEN t4 ELSE migrateToV5(t4, FALSE)
  IN Filled(setMeta(t5, "schema_version", v))

Phase1Store == Filled("updates" :> [schema |-> UpdatesPhase1, rows |-> {}])
Fresh == StoreInit(EmptyStore, FALSE)

OldStores == {EmptyStore, Phase1Store} \cup {LeftBy(v) : v \in 2..SchemaVersion}

\* The text of an update, under its old name or its new one.
Content(row) == IF "body" \in DOMAIN row THEN row["body"] ELSE row["content"]

\* However old the store, it ends up with the tables a new one has: a query of
\* the present code never misses a column (every migration against the others).
ASSUME OneSchema ==
  \A old \in OldStores, enforced \in BOOLEAN :
    LET now == StoreInit(old, enforced) IN
    /\ DOMAIN now = DOMAIN Fresh
    /\ \A name \in DOMAIN now : now[name].schema = Fresh[name].schema
    /\ VersionOf(now) = SchemaVersion

\* No copy can fail: every row fits the CHECKs of the table it is copied to, so
\* a store cannot be left with a half-built __v5 table that stops every later
\* start.
ASSUME CopiesFit ==
  \A old \in OldStores, enforced \in BOOLEAN :
    LET now == StoreInit(old, enforced) IN
    \A name \in DOMAIN now : \A row \in now[name].rows :
      \A c \in DOMAIN now[name].schema.checks :
        row[c] \in now[name].schema.checks[c]

\* Every row is still there with every column it had; the links from blockers
\* and feedback to tasks only where foreign keys are not enforced.
ASSUME RowsKept ==
  \A old \in OldStores, enforced \in BOOLEAN :
    LET now == StoreInit(old, enforced) IN
    \A name \in DOMAIN old \ {"workspace_meta"} :
      \A row \in old[name].rows : \E kept \in now[name].rows :
        /\ \A c \in DOMAIN row \ {"body"} :
             kept[c] = row[c] \/ (enforced /\ c = "task_id")
        /\ name = "updates" => kept["content"] = Content(row)

\* Starting again changes nothing.
ASSUME SecondStart ==
  \A old \in OldStores, enforced \in BOOLEAN :
    LET now == StoreInit(old, enforced) IN StoreInit(now, enforced) = now
=============================================================================
