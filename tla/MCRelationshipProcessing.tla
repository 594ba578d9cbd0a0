---------------------- MODULE MCRelationshipProcessing ----------------------
EXTENDS ProcessingPack

CONSTANTS r1, r2, host, none, nobody

Promise == [id |-> <<host, "promise">>, occurrence |-> "promise", resolves |-> none]

Of(key, occurrence, needs, resolves) ==
  [key |-> key, occurrence |-> occurrence, sound |-> TRUE, needs |-> needs,
   resolves |-> resolves]

\* A Promise retold and kept; an event told twice, the other way round.
KeepsPromise == <<Of("a", "promise", {}, none), Of("b", "kept", {}, Promise.id)>>
TellsTwice   == <<Of("a", "snow", {"b"}, none), Of("b", "snow", {}, none)>>

\* Batches like this one break ResolvedInOrder; MCBatches has none.
Layered == <<Of("p", "snow", {"s"}, none), Of("s", "kept", {"z"}, none),
             Of("q", "snow", {"z"}, none), Of("z", "promise", {}, none)>>

MCRuns        == {r1, r2}
MCNormal      == {r1}
MCPlanned     == {r1}
MCKeys        == {"a", "b", "promise"}
MCOccurrences == {"snow", "promise", "kept"}
MCBatches     == {KeepsPromise, TellsTwice}
MCDirect      == {Promise}

\* Only reflections of r1 read the growth, so deciding about it commutes with all
\* else; here it waits for r1 to be adjudicated and r2 not to be under way.
GrowthInTime ==
  growth' # growth =>
    /\ runs[r1].status \in {"adjudicated", "reflection_pending", "partial_failed", "completed"}
    /\ runs[r2].status \in {"absent", "completed"}

MCSpec == PackInit /\ [][PackNext /\ GrowthInTime]_packVars
=============================================================================
