---------------------------- MODULE StoreOpening ----------------------------
(* Hosts open the database under a name that the lifecycle may publish to at *)
(* any moment, with nothing but SQLite's own locks between them: SQLiteStorage*)
(* looks at the version, makes the base tables one by one, and climbs the    *)
(* ladder in one transaction.  Open hosts write, export and import timelines. *)
EXTENDS Lifecycle

CONSTANTS Hosts,
          ForeignPacks,   \* packs that other stores of the same pair exported
          MaxLines, MaxDeaths

VARIABLES opener,   \* opener[h]: how far h is with opening, and what it found
          packs,    \* what was exported
          spent     \* writes of hosts, and their deaths

openingVars == <<disk, plans, executor, budget, opener, packs, spent>>

Closed == [at |-> "closed", sawNothing |-> FALSE]
There == Has(disk, Opened)
Database == disk[Opened].db
Become(db) == disk' = [disk EXCEPT ![Opened].db = db]
Proceed(h, label) == opener' = [opener EXCEPT ![h].at = label]

(* A transaction of one host keeps the others from writing.                  *)
Writing == \E h \in Hosts : opener[h].at = "climbing"

\* Faulty: an older schema is opened, and migrated where it is.
LookUpUnguarded(h) ==
    /\ opener[h].at = "closed"
    /\ There => Version(Database) <= Current
    /\ opener' = [opener EXCEPT ![h] = [at |-> "connecting", sawNothing |-> ~There]]
    /\ UNCHANGED disk

(* SQLiteStorage.__init__                                                    *)
LookUp(h) ==
    /\ opener[h].at = "closed"
    /\ \/ /\ There => IsCurrent(disk[Opened]) /\ Contiguous(Database)
          /\ opener' = [opener EXCEPT ![h] = [at |-> "connecting", sawNothing |-> ~There]]
       \/ /\ There
          /\ ~(IsCurrent(disk[Opened]) /\ Contiguous(Database))
          /\ Proceed(h, "refused")
    /\ UNCHANGED disk

(* The first connection creates the file.                                    *)
Connect(h) ==
    /\ opener[h].at = "connecting"
    /\ disk' = IF There THEN disk
               ELSE With(disk, Opened, [db |-> Blank, items |-> {}, view |-> "fresh"])
    /\ Proceed(h, "tables")

MissingTables == SelectSeq(BaseTables, LAMBDA t : t \notin Database.shape)
BaseTable(h) ==
    /\ opener[h].at = "tables"
    /\ IF MissingTables = <<>>
       THEN Proceed(h, "begin") /\ UNCHANGED disk
       ELSE /\ ~Writing
            /\ Become(Making(Database, {Head(MissingTables)}))
            /\ UNCHANGED opener

Begin(h) ==
    /\ opener[h].at = "begin"
    /\ ~Writing
    /\ Proceed(h, "climbing")
    /\ UNCHANGED disk

Climb(h) ==
    /\ opener[h].at = "climbing"
    /\ Become(Climbed(Database))
    /\ Proceed(h, "open")

(* Waiting for another's transaction takes too long.                         *)
Busy(h) ==
    /\ opener[h].at \in {"tables", "begin"}
    /\ Writing
    /\ Proceed(h, "refused")
    /\ UNCHANGED disk

Die(h) ==
    /\ spent.deaths < MaxDeaths
    /\ opener[h].at \notin {"closed", "refused"}
    /\ opener' = [opener EXCEPT ![h] = Closed]
    /\ spent' = [spent EXCEPT !.deaths = @ + 1]
    /\ UNCHANGED <<disk, packs>>

Leave(h) ==
    /\ opener[h].at \in {"open", "refused"}
    /\ opener' = [opener EXCEPT ![h] = Closed]
    /\ UNCHANGED disk

Open(h) == \/ LookUp(h) \/ Connect(h) \/ BaseTable(h) \/ Begin(h) \/ Climb(h) \/ Busy(h)
           \/ Leave(h)

-----------------------------------------------------------------------------
CanWrite(h) == opener[h].at = "open" /\ There /\ ~Writing /\ spent.lines < MaxLines
Write(db) ==
    /\ Become(db)
    /\ spent' = [spent EXCEPT !.lines = @ + 1]
    /\ UNCHANGED <<opener, packs>>

(* The legacy archiver, for this pair and for others in the same table.      *)
AddTimelineEntry(h) ==
    /\ CanWrite(h)
    /\ \E ours \in BOOLEAN, stamp \in DOMAIN Instant :
          CanAdd(Database, ours) /\ Write(Added(Database, ours, stamp))

InitializeRelationship(h) ==
    /\ CanWrite(h)
    /\ ~Database.related
    /\ Write([Database EXCEPT !.related = TRUE])

(* An archival publishes an entry of its own identity, at a time in UTC.     *)
Modern(db, stamp) == [identity |-> <<2, db.next>>, stamp |-> stamp, related |-> TRUE, modern |-> TRUE]
CommitArchival(h) ==
    /\ CanWrite(h)
    /\ Database.related
    /\ \E stamp \in {s \in DOMAIN Instant : Instant[s] # 0} :
          Write(Imported(Database, {Modern(Database, stamp)}))

ExportMemory(h) ==
    /\ opener[h].at = "open" /\ There
    /\ packs' = packs \cup {Packed(Database)}
    /\ UNCHANGED <<disk, opener, spent>>

ImportMemory(h) ==
    /\ CanWrite(h)
    /\ \E pack \in packs : Importable(Database, pack) /\ Write(Merged(Database, pack))

-----------------------------------------------------------------------------
OpeningInit ==
    /\ Init
    /\ opener = [h \in Hosts |-> Closed]
    /\ packs = ForeignPacks
    /\ spent = [lines |-> 0, deaths |-> 0]

OpeningNext ==
    \/ Next /\ UNCHANGED <<opener, packs, spent>>
    \/ /\ \E h \in Hosts : \/ Open(h) /\ UNCHANGED <<packs, spent>>
                           \/ Die(h)
                           \/ AddTimelineEntry(h) \/ InitializeRelationship(h)
                           \/ CommitArchival(h) \/ ExportMemory(h) \/ ImportMemory(h)
       /\ UNCHANGED <<plans, executor, budget>>

-----------------------------------------------------------------------------
(* Every database that has a version has all of its parts and no others.     *)
Whole(db) ==
    IF Version(db) = 0 THEN db.shape \subseteq ToSet(BaseTables)
    ELSE /\ Contiguous(db)
         /\ LET up == Climbed(db) IN up.shape = Fresh.shape /\ up.recent = Fresh.recent

Unfinished == There /\ Version(Database) = 0

(* However openings race, die and are tried again: whoever is let in works   *)
(* with a whole current schema, and keeps it; a database of an older schema  *)
(* is left alone, unless it came up after the host had looked and seen       *)
(* nothing; and who is refused found an older schema or an opening that was  *)
(* not finished (sqlite_storage.py:171-193, 731-868).                        *)
HostsFindTheirStore ==
    [][ /\ \A h \in Hosts : opener'[h].at = "open" =>
             /\ Has(disk', Opened) /\ IsCurrent(disk'[Opened])
             /\ Whole(disk'[Opened].db) /\ UpgradeVerified(disk'[Opened].db)
        /\ There /\ Version(Database) \in 1..(Current - 1) /\ ~Holds(disk', Opened, disk[Opened]) =>
             \E h \in Hosts : opener[h].sawNothing
        /\ \A h \in Hosts : opener[h].at = "closed" /\ opener'[h].at = "refused" =>
             Unfinished \/ \E q \in plans : q.dest = Opened /\ Result(q).db = Database
      ]_openingVars

(* What one would expect: nobody is refused a store that was never an old    *)
(* one.  It is broken while another host makes the database, and for good    *)
(* when that host dies, for no upgrade starts from version 0.                *)
NewStoresOpen ==
    [][ \A h \in Hosts : opener[h].at = "closed" /\ opener'[h].at = "refused" => ~Unfinished
      ]_openingVars

-----------------------------------------------------------------------------
Databases == {disk[n].db : n \in {k \in DOMAIN disk : Len(k) = 1 /\ Store(disk[k])}}

(* Both stores order a timeline alike, by instant and identity.              *)
OrderIsOne ==
    \A db \in Databases : Version(db) >= 9 =>
        /\ \A row \in Ours(db) : RowKey(row) = OrderKey(Entry(db, row))
        /\ \A row \in db.lines : row.name # Nothing
                                 /\ \A other \in db.lines \ {row} : other.name # row.name

(* An upgrade changes no entry, nor which ones are the latest.               *)
UpgradeKeepsEntries ==
    \A q \in plans : q.op = "upgrade" =>
        LET old == q.seen.db
            new == Result(q).db
        IN  /\ Entries(new) = Entries(old)
            /\ \A e \in Recent(new, 1), f \in Entries(old) : f = e \/ Below(OrderKey(f), OrderKey(e))

(* A legacy entry is only refused when an entry that came with a pack has its*)
(* number, and a store takes back what it exported unless that holds legacy  *)
(* entries of its own or ones from before there was a relationship.          *)
OwnLegacy(db) == \E row \in Ours(db) : row.data = Nothing
Displaced(db) == \E row \in Ours(db) : row.data # Nothing /\ row.data.related # db.related
RefusalsAreKnown ==
    There /\ IsCurrent(disk[Opened]) =>
        /\ \A row \in Database.lines :
              row.name[1] # 2 /\ row.name[2] >= Database.next => row.data # Nothing
        /\ Importable(Database, Packed(Database)) <=> ~OwnLegacy(Database) /\ ~Displaced(Database)
        /\ Importable(Fresh, Packed(Database)) <=> ~Displaced(Database)

(* Legacy lines, imported and archived ones in one table, written before and *)
(* after an upgrade: the timeline stays in one order, with one identity per  *)
(* entry, and its refusals are the known ones                                *)
(* (sqlite_storage.py:1260-1329, 1474-1713; engine.py:3433-3505).            *)
TimelineIsKept == OrderIsOne /\ UpgradeKeepsEntries /\ RefusalsAreKnown
=============================================================================
