---------------------------- MODULE SQLiteSchema ----------------------------
(* A database of SQLiteStorage: the history of its migrations, what they made*)
(* and the timeline, whose rows are the only ones that a migration rewrites. *)
(* There are two ladders to the current schema: SQLiteStorage climbs one when*)
(* it makes a new database, and an upgrade climbs the other over the image of*)
(* a backup.  Both orders of the timeline, by index here and by sort key in  *)
(* FileStorage, are meant to be one.                                         *)
EXTENDS Naturals, Sequences, FiniteSets, SequencesExt

CONSTANTS Instant,     \* Instant[s]: when the written time s was in UTC, 0 if none can be read
          Nothing

Current == 11
Version(db) == Max(db.history \cup {0})
Contiguous(db) == db.history = 1..Version(db)

Blank == [history |-> {}, shape |-> {}, recent |-> "none",
          lines |-> {}, next |-> 1, related |-> FALSE]

BaseTables == <<"memory_nodes", "core_memories", "timeline_entries", "schema_migrations">>

-----------------------------------------------------------------------------
(* An entry of the timeline is who it is, when it was, whether it names the  *)
(* relationship or was written while there was none, and whether its source  *)
(* is known.  A row that was written by a legacy call holds no such payload. *)
LegacyIdentity(row) == <<IF row.ours THEN 0 ELSE 1, row.id>>

Named(row) == IF row.data # Nothing THEN row.data.identity
              ELSE IF row.name # Nothing THEN row.name ELSE LegacyIdentity(row)
Timed(row) == IF row.data # Nothing THEN row.data.stamp ELSE row.stamp

\* Faulty: only the rows without an identity get a sort key.
KeyedLegacyOnly(row) ==
    IF row.name # Nothing THEN row
    ELSE [row EXCEPT !.name = Named(row), !.key = Instant[Timed(row)]]

Keyed(row) == [row EXCEPT !.name = Named(row), !.key = Instant[Timed(row)]]

(* _timeline_entry_from_row                                                  *)
Entry(db, row) ==
    IF row.data # Nothing THEN row.data
    ELSE [identity |-> Named(row), stamp |-> row.stamp,
          related |-> db.related, modern |-> FALSE]

Ours(db) == {row \in db.lines : row.ours}
Entries(db) == {Entry(db, row) : row \in Ours(db)}

(* timeline_entry_order_key, by which FileStorage sorts.                     *)
OrderKey(entry) == <<Instant[entry.stamp], entry.identity>>

Below(a, b) == \/ a[1] < b[1]
               \/ a[1] = b[1] /\ a[2][1] < b[2][1]
               \/ a[1] = b[1] /\ a[2][1] = b[2][1] /\ a[2][2] < b[2][2]

(* get_recent_timeline_entries: the tail of the index.                       *)
RowKey(row) == <<row.key, row.name>>
Recent(db, limit) ==
    {Entry(db, row) : row \in {r \in Ours(db) :
        Cardinality({s \in Ours(db) : Below(RowKey(r), RowKey(s))}) < limit}}

-----------------------------------------------------------------------------
(* One name stands for all that a migration makes.                           *)
Making(db, parts) == [db EXCEPT !.shape = @ \cup parts]

RelationshipKernelV1(db) == Making(db, {"relationships"})
RelationshipAdjudicationV2(db) == Making(db, {"relationship_adjudications"})
PersonaStructuredRecallV3(db) == Making(db, {"persona_manifests"})
TurnLedgerV4(db) == Making(db, {"source_turns"})
ReliableArchivalV5(db) == Making(db, {"archival_records"})
RelationshipConsolidationV6(db) ==
    Making(db, {"relationship_processing_runs"})
RecentTimelineIndexV7(db) ==
    [db EXCEPT !.recent = IF @ = "none" THEN "row" ELSE @]
SemanticTimelineOrderV8(db) == [db EXCEPT !.recent = "timestamp"]
StableTimelineOrderV9(db) ==
    [Making(db, {"sort_key"}) EXCEPT !.lines = {Keyed(row) : row \in @}, !.recent = "sort_key"]
RelationshipConsequenceV10(db) == Making(db, {"relationship_consequences"})
MemoryPackWriteReceiptsV11(db) == Making(db, {"write_receipts"})

Migrated(db, v) ==
    CASE v = 1 -> RelationshipKernelV1(db)
      [] v = 2 -> RelationshipAdjudicationV2(db)
      [] v = 3 -> PersonaStructuredRecallV3(db)
      [] v = 4 -> TurnLedgerV4(db)
      [] v = 5 -> ReliableArchivalV5(db)
      [] v = 6 -> RelationshipConsolidationV6(db)
      [] v = 7 -> RecentTimelineIndexV7(db)
      [] v = 8 -> SemanticTimelineOrderV8(db)
      [] v = 9 -> StableTimelineOrderV9(db)
      [] v = 10 -> RelationshipConsequenceV10(db)
      [] v = 11 -> MemoryPackWriteReceiptsV11(db)

Recorded(db, v) == [db EXCEPT !.history = @ \cup {v}]

(* _init_db, after the base tables.                                          *)
Climbed(db) ==
    LET from == Version(db)
        up[v \in from..Current] == IF v = from THEN db ELSE Recorded(Migrated(up[v - 1], v), v)
    IN  up[Current]

Fresh == Climbed(Making(Blank, ToSet(BaseTables)))

-----------------------------------------------------------------------------
(* The ladder of the images, from the versions that have a verified route.   *)
UpgradeSources == {6, 9, 10}

ImageStableOrderV9(db) ==
    [Making(db, {"sort_key"}) EXCEPT
        !.lines = {row \in @ : row.id <= 0} \cup {Keyed(row) : row \in {r \in @ : r.id > 0}},
        !.recent = "sort_key"]

ImageMigrated(db, v) ==
    CASE v = 7 -> RecentTimelineIndexV7(db)
      [] v = 8 -> SemanticTimelineOrderV8(db)
      [] v = 9 -> ImageStableOrderV9(db)
      [] v = 10 -> RelationshipConsequenceV10(db)
      [] v = 11 -> MemoryPackWriteReceiptsV11(db)

Upgraded(db) ==
    LET from == Version(db)
        up[v \in from..Current] == IF v = from THEN db ELSE Recorded(ImageMigrated(up[v - 1], v), v)
    IN  up[Current]

(* _validate_upgraded_connection                                             *)
JournalsInstalled(db) == "relationship_consequences" \in db.shape
UpgradeVerified(db) ==
    /\ Version(db) = Current /\ Contiguous(db)
    /\ "sort_key" \in db.shape /\ db.recent = "sort_key"
    /\ JournalsInstalled(db)
    /\ "write_receipts" \in db.shape

Upgradable(db) == /\ Contiguous(db) /\ Version(db) \in UpgradeSources
                  /\ UpgradeVerified(Upgraded(db))

-----------------------------------------------------------------------------
(* Writing the timeline.  Identities are unique in the whole table.          *)
Names(db) == {row.name : row \in db.lines}
Row(db, ours, stamp) ==
    [id |-> db.next, ours |-> ours, stamp |-> stamp, name |-> Nothing, data |-> Nothing,
     key |-> Instant[stamp]]
Inserted(db, row) == [db EXCEPT !.lines = @ \cup {row}, !.next = @ + 1]

\* Faulty: the time of a new entry is not made comparable.
LegacyRowUnkeyed(db, ours, stamp) ==
    LET row == Row(db, ours, stamp) IN [row EXCEPT !.name = LegacyIdentity(row), !.key = 0]

(* add_timeline_entry: the identity comes from the number of the row.        *)
LegacyRow(db, ours, stamp) ==
    LET row == Row(db, ours, stamp) IN [row EXCEPT !.name = LegacyIdentity(row)]
CanAdd(db, ours) == <<IF ours THEN 0 ELSE 1, db.next>> \notin Names(db)
Added(db, ours, stamp) == Inserted(db, LegacyRow(db, ours, stamp))

(* import_timeline_entries, and what commit_archival_batch does.             *)
EntryRow(db, entry) ==
    [Row(db, TRUE, entry.stamp) EXCEPT !.name = entry.identity, !.data = entry]
Taken(db, entry) == \E row \in db.lines : row.name = entry.identity
Kept(db, entry) ==
    \A row \in db.lines : row.name = entry.identity => row.data = entry
Imported(db, entries) ==
    FoldLeft(LAMBDA d, e : IF Taken(d, e) THEN d ELSE Inserted(d, EntryRow(d, e)),
             db, SetToSortSeq(entries, LAMBDA x, y : Below(OrderKey(x), OrderKey(y))))

Packed(db) == [related |-> db.related, entries |-> Entries(db)]

(* _validate_timeline_import_conflicts, before anything is written.          *)
CrossesRelationships(pack) == \E e \in pack.entries : e.related # pack.related
ConflictsWithTarget(db, pack) ==
    \E e \in pack.entries : \E t \in Entries(db) : t.identity = e.identity /\ t # e
PassesPreflight(db, pack) == ~CrossesRelationships(pack) /\ ~ConflictsWithTarget(db, pack)

Importable(db, pack) == PassesPreflight(db, pack) /\ \A e \in pack.entries : Kept(db, e)
Merged(db, pack) ==
    Imported([db EXCEPT !.related = @ \/ pack.related], pack.entries)
=============================================================================
