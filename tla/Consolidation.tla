--------------------------- MODULE Consolidation ---------------------------
(* RelationshipConsolidator (core/consolidation.py): the narrative layers of *)
(* one complete history. Episodes are the events that an occurrence or a     *)
(* thread of time ties together, chapters the episodes whose events refer to *)
(* one another; both are found by joining trees of parents. An event is      *)
(* [id, at, on, refers, spec], spec with its kind and occurrence; rank tells *)
(* the lexical order of identities, which are random.                        *)
EXTENDS Integers, SequencesExt, FiniteSetsExt

MaxItems == 256     \* of an episode or a chapter, models/consolidation.py

(* The events by the time they were recorded at.                             *)
InOrder(rank, h) ==
    SortSeq(h, LAMBDA e, f : e.at < f.at \/ (e.at = f.at /\ rank[e.id] < rank[f.id]))

-----------------------------------------------------------------------------
(* Trees of parents. The code halves the paths it follows, which moves no    *)
(* root.                                                                     *)
Root(parent, x) ==
    LET root[y \in DOMAIN parent] == IF parent[y] = y THEN y ELSE root[parent[y]]
    IN  root[x]

Below(rank, parent, x, y) ==
    CASE x = y             -> parent
      [] rank[x] < rank[y] -> [parent EXCEPT ![y] = x]
      [] rank[x] > rank[y] -> [parent EXCEPT ![x] = y]

\* Faulty: the two are joined and not their roots.
JoinedThemselves(rank, parent, x, y) ==
    IF {x, y} \subseteq DOMAIN parent THEN Below(rank, parent, x, y) ELSE parent

Joined(rank, parent, x, y) ==
    IF {x, y} \subseteq DOMAIN parent
    THEN Below(rank, parent, Root(parent, x), Root(parent, y))
    ELSE parent

(* What the trees hold in the end, those with a single node aside.           *)
Groups(rank, nodes, pairs) ==
    LET parent[n \in 0 .. Len(pairs)] ==
            IF n = 0 THEN [x \in nodes |-> x]
            ELSE LET before == parent[n - 1] IN Joined(rank, before, pairs[n][1], pairs[n][2])
        last == parent[Len(pairs)]
        tree(r) == {x \in nodes : Root(last, x) = r}
    IN  {g \in {tree(r) : r \in {Root(last, x) : x \in nodes}} : Cardinality(g) >= 2}

-----------------------------------------------------------------------------
(* Events that tell of one occurrence are joined to the first of them.       *)
OccurrencePairs(ordered, none) ==
    LET First(o) == SelectInSeq(ordered, LAMBDA e : e.spec.occurrence = o)
        known == SelectSeq(ordered, LAMBDA e : e.spec.occurrence # none)
    IN  [i \in DOMAIN known |-> <<ordered[First(known[i].spec.occurrence)].id, known[i].id>>]

(* Resolutions and confirmations are joined to the promise or the open loop, *)
(* and a successor to nothing.                                               *)
ThreadPairs(ordered) ==
    LET ends == SelectSeq(ordered, LAMBDA e : e.spec.kind \in {"resolved", "confirmed"})
    IN  [i \in DOMAIN ends |-> <<ends[i].id, ends[i].on>>]

Episodes(rank, ordered, none) ==
    Groups(rank, {ordered[i].id : i \in DOMAIN ordered},
           OccurrencePairs(ordered, none) \o ThreadPairs(ordered))

(* The episodes that the episode of an event refers to through it.           *)
ReferencePairs(ordered, episodes) ==
    LET Of(id) == {g \in episodes : id \in g}
        pairs(e) == {<<g, t>> \in Of(e.id) \X UNION {Of(r) : r \in e.refers} : g # t}
    IN  FlattenSeq([i \in DOMAIN ordered |-> SetToSeq(pairs(ordered[i]))])

(* An episode is named by its events, so its rank could be any.              *)
Chapters(rank, ordered, episodes) ==
    LET place == [g \in episodes |-> Min({rank[id] : id \in g})]
    IN  IF Cardinality(episodes) < 2 THEN {}
        ELSE Groups(place, episodes, ReferencePairs(ordered, episodes))

(* project(): the two layers, and which events they cover.                   *)
Consolidated(rank, h, none) ==
    LET ordered == InOrder(rank, h)
        ids == [i \in DOMAIN ordered |-> ordered[i].id]
        episodes == Episodes(rank, ordered, none)
    IN  [episodes |-> episodes,
         chapters |-> Chapters(rank, ordered, episodes),
         covered |-> SelectSeq(ids, LAMBDA id : id \in UNION episodes),
         unconsolidated |-> SelectSeq(ids, LAMBDA id : id \notin UNION episodes)]

-----------------------------------------------------------------------------
(* What the records demand of themselves, or project() raises.               *)
UniqueTexts(seq, most) == Len(seq) <= most /\ IsInjective(seq)

EpisodeAnswers(g) == Cardinality(g) \in 1 .. MaxItems

ChapterAnswers(c) ==
    /\ Cardinality(c) \in 2 .. MaxItems
    /\ Cardinality(UNION c) <= MaxItems
    /\ \A g, t \in c : g = t \/ g \cap t = {}

Answers(n) ==
    /\ \A g \in n.episodes : EpisodeAnswers(g)
    /\ \A c \in n.chapters : ChapterAnswers(c)
    /\ UniqueTexts(n.covered, 100000) /\ UniqueTexts(n.unconsolidated, 100000)
    /\ Range(n.covered) \cap Range(n.unconsolidated) = {}
=============================================================================
