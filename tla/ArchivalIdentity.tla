-------------------------- MODULE ArchivalIdentity --------------------------
(***************************************************************************)
(* Which archival a submission names.  The ledger of a store keeps live    *)
(* records and, once their retention has passed, tombstones; MemoryPacks   *)
(* carry tombstones to other stores of the same relationship.  A key and a *)
(* request (the fingerprints of the caller's idempotency key and of the    *)
(* Source Turn with its extractor) select an existing archival or make a   *)
(* new one.  What happens to an archival before it is terminal is module   *)
(* Archival; here it is one step.                                          *)
(*                                                                         *)
(* Every transaction of a store is atomic.  The calls are not: submit and  *)
(* get first compact in a transaction of their own, and get then reads     *)
(* records and tombstones in two more.                                     *)
(***************************************************************************)
EXTENDS Integers, FiniteSets

CONSTANTS
  Stores,     \* stores holding this relationship
  Keys,       \* idempotency fingerprints
  Requests,   \* request fingerprints
  Ids,        \* archival ids; a fresh uuid is one no store or pack knows
  NoId,       \* no archival id
  MaxPacks    \* bound: MemoryPacks in circulation

ASSUME IdentityAssumption == NoId \notin Ids /\ MaxPacks \in Nat

VARIABLES
  live,       \* the archival records of each store
  tombs,      \* the tombstones of each store
  packs,      \* exported MemoryPacks; each may be imported late and repeatedly
  resolved,   \* history: what a store last answered to a key and a request
  lookup      \* a get() in flight in each store

vars == <<live, tombs, packs, resolved, lookup>>

\* Outcome, source and commit data are fixed by the id; "committed" says that
\* the artifact commitments are known (old versions omit them).
Live == [id: Ids, key: Keys, request: Requests, terminal: BOOLEAN, committed: BOOLEAN]
Tomb == [id: Ids, key: Keys, request: Requests, committed: BOOLEAN]

IdleLookup == [at |-> "idle", id |-> NoId]
Lookup == [at: {"idle", "live", "tombs", "found", "missing"}, id: Ids \cup {NoId}]

Init ==
  /\ live = [s \in Stores |-> {}]
  /\ tombs = [s \in Stores |-> {}]
  /\ packs = {}
  /\ resolved = [s \in Stores |-> [q \in Keys \X Requests |-> NoId]]
  /\ lookup = [s \in Stores |-> IdleLookup]

Entries(s) == live[s] \cup tombs[s]

\* uuid4: never handed out before by anyone.
Fresh(id) ==
  /\ \A s \in Stores : \A e \in Entries(s) : e.id # id
  /\ \A p \in packs : \A t \in p : t.id # id

-----------------------------------------------------------------------------
(* create_archival_record *)

\* Faulty: tombstones are not consulted.
TombMatchesNone(s, k, r) == {}

\* Tombstones of the relationship that the key or the request may select.  They
\* are scanned in storage order, and the first match decides.
TombMatches(s, k, r) == {t \in tombs[s] : t.key = k \/ t.request = r}

\* Of the live records, one with the key decides before one with the request.
LiveMatches(s, k, r) ==
  IF \E l \in live[s] : l.key = k
    THEN {l \in live[s] : l.key = k}
    ELSE {l \in live[s] : l.request = r}

Matches(s, k, r) ==
  IF TombMatches(s, k, r) # {} THEN TombMatches(s, k, r) ELSE LiveMatches(s, k, r)

Answer(s, k, r, id) == resolved' = [resolved EXCEPT ![s][<<k, r>>] = id]

\* The match that decides has this request: its identity is the answer.
SubmitKnown(s, k, r) ==
  /\ \E e \in Matches(s, k, r) : e.request = r /\ Answer(s, k, r, e.id)
  /\ UNCHANGED <<live, tombs, packs, lookup>>

\* It has the key of another request: ArchivalConflictError, nothing changes.
SubmitConflict(s, k, r) ==
  /\ \E e \in Matches(s, k, r) : e.request # r
  /\ UNCHANGED vars

SubmitNew(s, k, r) ==
  /\ Matches(s, k, r) = {}
  /\ \E id \in Ids :
       /\ Fresh(id)
       /\ live' = [live EXCEPT ![s] = @ \cup
                    {[id |-> id, key |-> k, request |-> r,
                      terminal |-> FALSE, committed |-> FALSE]}]
       /\ Answer(s, k, r, id)
  /\ UNCHANGED <<tombs, packs, lookup>>

\* The archival reaches COMPLETED (with artifact commitments) or FAILED.
Finish(s, l) ==
  /\ l \in live[s] /\ ~l.terminal
  /\ \E committed \in BOOLEAN :
       live' = [live EXCEPT ![s] = (@ \ {l}) \cup
                 {[l EXCEPT !.terminal = TRUE, !.committed = committed]}]
  /\ UNCHANGED <<tombs, packs, resolved, lookup>>

-----------------------------------------------------------------------------
(* Tombstones: compaction, export and import. *)

TombOf(l) == [id |-> l.id, key |-> l.key, request |-> l.request,
              committed |-> l.committed]

\* is_compatible_with: same identity; present commitments agree by their id.
Compatible(t, u) == t.id = u.id /\ t.key = u.key /\ t.request = u.request

\* Faulty: the newcomer replaces what was known.
StrongerNewest(t, u) == u

\* prefer_stronger_commitment.
Stronger(t, u) == [t EXCEPT !.committed = t.committed \/ u.committed]

\* Set U with every tombstone strengthened by its counterpart in T.
Strengthened(U, T) ==
  {IF \E t \in T : t.id = u.id
     THEN Stronger(u, CHOOSE t \in T : t.id = u.id) ELSE u : u \in U}

With(U, T) == Strengthened(U, T) \cup {t \in T : \A u \in U : u.id # t.id}

\* Faulty: expired records are dropped without a trace.
CompactAway(s, expired) ==
  /\ live' = [live EXCEPT ![s] = @ \ expired]
  /\ UNCHANGED <<tombs, packs, resolved, lookup>>

\* compact_archival_records: the terminal records whose retention passed.
Compact(s, expired) ==
  /\ live' = [live EXCEPT ![s] = @ \ expired]
  /\ tombs' = [tombs EXCEPT ![s] = With(@, {TombOf(l) : l \in expired})]
  /\ UNCHANGED <<packs, resolved, lookup>>

Terminals(s) == {l \in live[s] : l.terminal}

\* list_archival_tombstones: stored ones and those of terminal records.
Ledger(s) == With(tombs[s], {TombOf(l) : l \in Terminals(s)})

\* A pack of this version, or of one that knew no artifact commitments.
Export(s) ==
  /\ Cardinality(packs) < MaxPacks
  /\ \E pack \in {Ledger(s), {[t EXCEPT !.committed = FALSE] : t \in Ledger(s)}} :
       packs' = packs \cup {pack}
  /\ UNCHANGED <<live, tombs, resolved, lookup>>

\* Another archival already holds the key or the request of t.
Collides(t, e) == (t.key = e.key \/ t.request = e.request) /\ t.id # e.id

\* Faulty: live records are not compared with the incoming bindings.
MergeableIgnoringLive(s, pack) ==
  \A t \in pack : \A e \in tombs[s] : ~Collides(t, e)

\* merge_archival_tombstone_batch raises unless all of this holds.
Mergeable(s, pack) ==
  /\ \A t \in pack, e \in Entries(s) :
       ~Collides(t, e) /\ (t.id = e.id => Compatible(t, e))
  /\ \A t, u \in pack : ~Collides(t, u)
  /\ \A t \in pack, l \in live[s] : t.id = l.id => l.terminal

\* Incoming tombstones to append: unknown here, or stronger than a record.
Newcomers(s, pack) ==
  {t \in pack :
     /\ \A u \in tombs[s] : u.id # t.id
     /\ \A l \in live[s] : l.id = t.id => ~l.committed /\ t.committed}

\* import_archival_tombstones, whole batch or nothing.
Import(s, pack) ==
  /\ Mergeable(s, pack)
  /\ tombs' = [tombs EXCEPT ![s] = Strengthened(@, pack) \cup Newcomers(s, pack)]
  /\ UNCHANGED <<live, packs, resolved, lookup>>

-----------------------------------------------------------------------------
(* ArchivalCoordinator.get *)

\* A caller asks for an archival the store has acknowledged.
GetStart(s) ==
  /\ lookup[s].at = "idle"
  /\ \E e \in Entries(s) : lookup' = [lookup EXCEPT ![s] = [at |-> "live", id |-> e.id]]
  /\ UNCHANGED <<live, tombs, packs, resolved>>

\* Faulty: the tombstones are read first, then the records.
GetTombsFirst(s) ==
  /\ \/ /\ lookup[s].at = "live"
        /\ lookup' = [lookup EXCEPT ![s].at =
             IF \E t \in Ledger(s) : t.id = lookup[s].id THEN "found" ELSE "tombs"]
     \/ /\ lookup[s].at = "tombs"
        /\ lookup' = [lookup EXCEPT ![s].at =
             IF \E l \in live[s] : l.id = lookup[s].id THEN "found" ELSE "missing"]
  /\ UNCHANGED <<live, tombs, packs, resolved>>

\* get_archival_record, and when it finds nothing list_archival_tombstones.
GetRead(s) ==
  /\ \/ /\ lookup[s].at = "live"
        /\ lookup' = [lookup EXCEPT ![s].at =
             IF \E l \in live[s] : l.id = lookup[s].id THEN "found" ELSE "tombs"]
     \/ /\ lookup[s].at = "tombs"
        /\ lookup' = [lookup EXCEPT ![s].at =
             IF \E t \in Ledger(s) : t.id = lookup[s].id THEN "found" ELSE "missing"]
  /\ UNCHANGED <<live, tombs, packs, resolved>>

GetReturn(s) ==
  /\ lookup[s].at \in {"found", "missing"}
  /\ lookup' = [lookup EXCEPT ![s] = IdleLookup]
  /\ UNCHANGED <<live, tombs, packs, resolved>>

-----------------------------------------------------------------------------

Next ==
  \E s \in Stores :
    \/ \E k \in Keys, r \in Requests :
         SubmitKnown(s, k, r) \/ SubmitConflict(s, k, r) \/ SubmitNew(s, k, r)
    \/ \E l \in live[s] : Finish(s, l)
    \/ \E expired \in SUBSET Terminals(s) : Compact(s, expired)
    \/ Export(s)
    \/ \E pack \in packs : Import(s, pack)
    \/ GetStart(s) \/ GetRead(s) \/ GetReturn(s)

Spec == Init /\ [][Next]_vars

-----------------------------------------------------------------------------
(* Properties *)

TypeOK ==
  /\ live \in [Stores -> SUBSET Live]
  /\ tombs \in [Stores -> SUBSET Tomb]
  /\ packs \subseteq SUBSET Tomb
  /\ resolved \in [Stores -> [Keys \X Requests -> Ids \cup {NoId}]]
  /\ lookup \in [Stores -> Lookup]
  \* a ledger keeps one record and one tombstone per id
  /\ \A s \in Stores : \A x, y \in live[s] : x.id = y.id => x = y
  /\ \A ledger \in packs \cup {tombs[s] : s \in Stores} :
       \A x, y \in ledger : x.id = y.id => x = y

\* In one store an idempotency key names one archival, and so does a request,
\* whichever of compaction, export and import its ledger went through.
NamesOneArchival ==
  \A s \in Stores : \A e, f \in Entries(s) :
    e.key = f.key \/ e.request = f.request => e.id = f.id

\* get() finds every archival that was acknowledged before the call, although
\* compaction may move it between the two reads.
GetFindsAccepted == \A s \in Stores : lookup[s].at # "missing"

\* What was accepted is found under one name, and under that name alone.
OneIdentity == NamesOneArchival /\ GetFindsAccepted

\* Repeating a submission never yields another archival, hence never a second
\* extraction, however long ago the first was compacted.
RetryKeepsIdentity ==
  [][\A s \in Stores : \A q \in Keys \X Requests :
       resolved[s][q] # NoId => resolved'[s][q] = resolved[s][q]]_resolved

\* What a store knows about the artifacts of an archival it never forgets, not
\* even by importing a pack of a version that knew less.
Certified(s, id) == \E e \in Entries(s) : e.id = id /\ e.committed

CommitmentIsKept ==
  [][\A s \in Stores : \A id \in Ids : Certified(s, id) => Certified(s, id)']_<<live, tombs>>

\* Compaction and travel forget nothing: neither which archival a submission
\* named nor what is known of its artifacts.
NothingIsForgotten == RetryKeepsIdentity /\ CommitmentIsKept

\* docs/api/turn-lifecycle.md: a key reused for a different immutable intent
\* raises ArchivalConflictError; so no key is accepted for two requests.
KeyBindsOneIntent ==
  \A s \in Stores, k \in Keys : \A q, r \in Requests :
    resolved[s][<<k, q>>] # NoId /\ resolved[s][<<k, r>>] # NoId => q = r

=============================================================================
