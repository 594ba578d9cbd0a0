---------------------------- MODULE MCLifecycle ----------------------------
(* Two worlds.  In one, a live store, one of an old schema and a MemoryPack  *)
(* and what hosts ask for.  In the other, hosts open a name where nothing is *)
(* while an old database is upgraded to it and the backup of one restored.   *)
EXTENDS StoreOpening, TLC

CONSTANTS p1, p2, h1, h2

Symmetry == Permutations(Executors) \cup Permutations(Hosts)

Ask(op, source, dest, bak, item) ==
    [op |-> op, source |-> <<source>>, dest |-> <<dest>>, bak |-> <<bak>>, item |-> item]

SomeRequests ==
    {Ask("erase", "live", "live", "bak", "a"), Ask("erase", "live", "live", "other", "b"),
     Ask("rebuild", "live", "live", "bak", "-"), Ask("backup", "live", "bak", "-", "-"),
     Ask("restore", "bak", "live", "-", "-"),
     Ask("import", "pack", "copy", "-", "-"),
     Ask("upgrade", "older", "db", "kept", "-"), Ask("restore", "oldbak", "db", "-", "-")}

Written == [s \in {"noon +08", "noon", "?"} |-> CASE s = "noon +08" -> 4
                                                [] s = "noon" -> 12
                                                [] s = "?" -> 0]

Historical(n, lines) ==
    FoldLeft(LAMBDA d, v : Recorded(Migrated(d, v), v),
             [Making(Blank, ToSet(BaseTables)) EXCEPT !.lines = lines, !.related = TRUE, !.next = 4],
             [v \in 1..n |-> v])

LegacyLine(i, ours, stamp) == [id |-> i, ours |-> ours, stamp |-> stamp, name |-> Nothing,
                               data |-> Nothing, key |-> 0]
ModernLine(i, k) == [LegacyLine(i, TRUE, "noon +08") EXCEPT
    !.name = <<2, k>>,
    !.data = [identity |-> <<2, k>>, stamp |-> "noon +08", related |-> TRUE, modern |-> TRUE]]

OldLines == {LegacyLine(1, TRUE, "noon"), LegacyLine(2, FALSE, "?"), ModernLine(3, 99)}
StoreOf(db, items, view) == [db |-> db, items |-> items, view |-> view]

Stores == [n \in {<<"live">>, <<"old">>, <<"pack">>} |->
              CASE n = <<"live">> -> StoreOf(Fresh, {"a"}, "stale")
                [] n = <<"old">>  -> StoreOf(Historical(6, {}), {"a"}, "fresh")
                [] n = <<"pack">> -> [pack |-> {"a"}, timeline |-> [related |-> FALSE, entries |-> {}]]]

OldDatabases == [n \in {<<"older">>, <<"oldbak">>} |->
              CASE n = <<"older">>  -> StoreOf(Historical(6, OldLines), {}, "fresh")
                [] n = <<"oldbak">> -> [plan |-> Nothing,
                                        content |-> StoreOf(Historical(9, OldLines), {}, "fresh")]]

ForeignEntry(k, related) == [identity |-> <<0, k>>, stamp |-> "noon", related |-> related, modern |-> FALSE]
Foreign == {[related |-> FALSE, entries |-> {ForeignEntry(2, FALSE)}],
            [related |-> TRUE, entries |-> {ForeignEntry(3, TRUE)}]}

OpenedName == <<"db">>

Resting == [at |-> "away", sawNothing |-> FALSE]
NobodyPlans(found) ==
    /\ disk = found
    /\ plans = {}
    /\ executor = [p \in Executors |-> Idle]
    /\ budget = [writes |-> MaxWrites, crashes |-> MaxCrashes, faults |-> MaxFaults]

MCInit ==
    \/ /\ Init
       /\ opener = [h \in Hosts |-> Resting]
       /\ packs = {}
       /\ spent = [lines |-> MaxLines, deaths |-> MaxDeaths]
    \/ /\ NobodyPlans(OldDatabases)
       /\ opener = [h \in Hosts |-> Closed]
       /\ packs = {}
       /\ spent = [lines |-> MaxLines, deaths |-> 0]
    \/ /\ \E found \in {<<>>, OpenedName :> StoreOf(Upgraded(Historical(6, OldLines)), {}, "fresh")} :
             NobodyPlans(found)
       /\ \E user \in Hosts : opener = [h \in Hosts |-> IF h = user THEN Closed ELSE Resting]
       /\ packs = ForeignPacks
       /\ spent = [lines |-> 0, deaths |-> MaxDeaths]

MCSpec == MCInit /\ [][OpeningNext]_openingVars
=============================================================================
