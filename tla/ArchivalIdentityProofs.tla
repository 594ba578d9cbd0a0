----------------------- MODULE ArchivalIdentityProofs -----------------------
(***************************************************************************)
(* Proofs about ArchivalIdentity for any stores, keys, requests, ids and   *)
(* any number of MemoryPacks in circulation: within a store, an id, a key  *)
(* and a request belong together, whatever was compacted, exported and     *)
(* imported, and nothing that was known is forgotten.                      *)
(***************************************************************************)
EXTENDS ArchivalIdentity, TLAPS

\* Two entries stand for the same archival, and two entries claim to.
Same(e, f)   == e.id = f.id /\ e.key = f.key /\ e.request = f.request
Shares(e, f) == e.id = f.id \/ e.key = f.key \/ e.request = f.request

Distinct(ledger) == \A x, y \in ledger : x.id = y.id => x = y
OneNameIn(entries) == \A e, f \in entries : Shares(e, f) => Same(e, f)

-----------------------------------------------------------------------------
(* The invariant. *)

\* Records and tombstones of a store agree on what an id, a key, a request name.
OneName == \A s \in Stores : OneNameIn(Entries(s))

\* Whatever was answered for a request is still held for that request.
ResolvedIsHeld ==
  \A s \in Stores, k \in Keys, r \in Requests :
    resolved[s][<<k, r>>] # NoId =>
      \E e \in Entries(s) : e.id = resolved[s][<<k, r>>] /\ e.request = r

\* Artifact commitments come with the terminal receipt.
CommittedIsTerminal ==
  \A s \in Stores : \A l \in live[s] : l.committed => l.terminal

\* A get() under way asks for an archival the store still holds, in the
\* tombstones when it was not among the records.
LookupIsBacked ==
  \A s \in Stores :
    /\ lookup[s].at = "live" => \E e \in Entries(s) : e.id = lookup[s].id
    /\ lookup[s].at = "tombs" => \E t \in tombs[s] : t.id = lookup[s].id
    /\ lookup[s].at # "missing"

IInv == TypeOK /\ OneName /\ ResolvedIsHeld /\ CommittedIsTerminal /\ LookupIsBacked

\* What every step does to the ledgers: an entry stays, perhaps as a tombstone,
\* under its names and with what was known of its artifacts.
Kept ==
  \A s \in Stores :
    /\ \A e \in Entries(s) :
         \E f \in Entries(s)' : Same(e, f) /\ (e.committed => f.committed)
    /\ \A t \in tombs[s] : \E u \in tombs'[s] : u.id = t.id

-----------------------------------------------------------------------------
(* Sets of tombstones that strengthen one another. *)

LEMMA StrongerFacts ==
  ASSUME NEW t \in Tomb, NEW u \in Tomb
  PROVE  /\ Stronger(t, u) \in Tomb
         /\ Same(t, Stronger(t, u))
         /\ Stronger(t, u).committed = (t.committed \/ u.committed)
  BY DEF Tomb, Stronger, Same

LEMMA StrengthenedFacts ==
  ASSUME NEW U \in SUBSET Tomb, NEW T \in SUBSET Tomb, Distinct(U), Distinct(T)
  PROVE  /\ Strengthened(U, T) \subseteq Tomb
         /\ Distinct(Strengthened(U, T))
         /\ \A v \in Strengthened(U, T) : \E u \in U : Same(u, v)
         /\ \A u \in U : \E v \in Strengthened(U, T) :
              /\ Same(u, v) /\ (u.committed => v.committed)
              /\ \A t \in T : t.id = u.id /\ t.committed => v.committed
<1> DEFINE Of(u) == IF \E t \in T : t.id = u.id
                      THEN Stronger(u, CHOOSE t \in T : t.id = u.id) ELSE u
<1>1. ASSUME NEW u \in U
      PROVE  /\ Of(u) \in Tomb /\ Same(u, Of(u)) /\ (u.committed => Of(u).committed)
             /\ \A t \in T : t.id = u.id /\ t.committed => Of(u).committed
  <2>1. CASE \E t \in T : t.id = u.id
    <3>1. PICK w : w = CHOOSE t \in T : t.id = u.id
      OBVIOUS
    <3>2. w \in T /\ w.id = u.id
      BY <2>1, <3>1
    <3>3. \A t \in T : t.id = u.id => t = w
      BY <3>2 DEF Distinct
    <3>4. Of(u) = Stronger(u, w)
      BY <2>1, <3>1
    <3>5. w \in Tomb /\ u \in Tomb
      BY <3>2
    <3>6. QED  BY <3>3, <3>4, <3>5, StrongerFacts
  <2>2. CASE ~\E t \in T : t.id = u.id
    BY <2>2 DEF Same
  <2>3. QED  BY <2>1, <2>2
<1>2. Strengthened(U, T) = {Of(u) : u \in U}
  BY DEF Strengthened
<1> HIDE DEF Of
<1>3. Distinct(Strengthened(U, T))
  BY <1>1, <1>2 DEF Distinct, Same
<1>4. QED  BY <1>1, <1>2, <1>3

LEMMA WithFacts ==
  ASSUME NEW U \in SUBSET Tomb, NEW T \in SUBSET Tomb, Distinct(U), Distinct(T)
  PROVE  /\ With(U, T) \subseteq Tomb
         /\ Distinct(With(U, T))
         /\ \A v \in With(U, T) : \E w \in U \cup T : Same(w, v)
         /\ \A u \in U : \E v \in With(U, T) : Same(u, v) /\ (u.committed => v.committed)
         /\ \A t \in T : \E v \in With(U, T) :
              v.id = t.id /\ (t.committed => v.committed)
<1> DEFINE N == {t \in T : \A u \in U : u.id # t.id}
<1>1. With(U, T) = Strengthened(U, T) \cup N
  BY DEF With
<1>2. /\ Strengthened(U, T) \subseteq Tomb
      /\ Distinct(Strengthened(U, T))
      /\ \A v \in Strengthened(U, T) : \E u \in U : Same(u, v)
      /\ \A u \in U : \E v \in Strengthened(U, T) :
           /\ Same(u, v) /\ (u.committed => v.committed)
           /\ \A t \in T : t.id = u.id /\ t.committed => v.committed
  BY StrengthenedFacts
<1>3. Distinct(With(U, T))
  BY <1>1, <1>2 DEF Distinct, Same
<1>4. \A t \in T : \E v \in With(U, T) : v.id = t.id /\ (t.committed => v.committed)
  <2> SUFFICES ASSUME NEW t \in T
               PROVE  \E v \in With(U, T) : v.id = t.id /\ (t.committed => v.committed)
    OBVIOUS
  <2>1. CASE t \in N  BY <1>1, <2>1
  <2>2. CASE t \notin N  BY <1>1, <1>2, <2>2 DEF Same
  <2>3. QED  BY <2>1, <2>2
<1>5. QED  BY <1>1, <1>2, <1>3, <1>4 DEF Same

\* Entries that stand for named ones are named as well.
LEMMA NamesCarryOver ==
  ASSUME NEW E, NEW F, OneNameIn(E), \A f \in F : \E e \in E : Same(e, f)
  PROVE  OneNameIn(F)
  BY DEF OneNameIn, Same, Shares

LEMMA TombOfFacts ==
  ASSUME NEW l \in Live
  PROVE  TombOf(l) \in Tomb /\ Same(l, TombOf(l)) /\ TombOf(l).committed = l.committed
  BY DEF Live, Tomb, TombOf, Same

LEMMA TombsOfFacts ==
  ASSUME NEW L \in SUBSET Live, Distinct(L)
  PROVE  /\ {TombOf(l) : l \in L} \in SUBSET Tomb
         /\ Distinct({TombOf(l) : l \in L})
         /\ \A t \in {TombOf(l) : l \in L} : \E l \in L :
              t = TombOf(l) /\ Same(l, t) /\ t.committed = l.committed
<1>1. \A l \in L : /\ TombOf(l) \in Tomb /\ Same(l, TombOf(l))
                   /\ TombOf(l).committed = l.committed
  BY TombOfFacts
<1>2. QED  BY <1>1 DEF Distinct, Same
-----------------------------------------------------------------------------
(* One step of a store: its ledgers become L and T. *)

LEMMA Ledgers ==
  ASSUME TypeOK, NEW s \in Stores
  PROVE  /\ live[s] \in SUBSET Live /\ Distinct(live[s])
         /\ tombs[s] \in SUBSET Tomb /\ Distinct(tombs[s])
         /\ live = [live EXCEPT ![s] = live[s]]
         /\ tombs = [tombs EXCEPT ![s] = tombs[s]]
<1>1. /\ live[s] \in SUBSET Live /\ Distinct(live[s]) /\ tombs[s] \in SUBSET Tomb
      /\ live = [live EXCEPT ![s] = live[s]]
      /\ tombs = [tombs EXCEPT ![s] = tombs[s]]
  BY DEF TypeOK, Distinct
<1>2. tombs[s] \in packs \cup {tombs[d] : d \in Stores}
  OBVIOUS
<1>3. Distinct(tombs[s])
  BY <1>2 DEF TypeOK, Distinct
<1>4. QED  BY <1>1, <1>3

\* The answers that the store gives remain about archivals it holds.
Answers(s, entries) ==
  \A k \in Keys, r \in Requests :
    \/ resolved'[s][<<k, r>>] = resolved[s][<<k, r>>]
    \/ \E e \in entries : e.id = resolved'[s][<<k, r>>] /\ e.request = r

\* What a store did to its ledgers: L and T hold all that was held.
Holds(s, L, T) ==
  /\ \A e \in Entries(s) :
       \E f \in L \cup T : Same(e, f) /\ (e.committed => f.committed)
  /\ \A t \in tombs[s] : \E u \in T : u.id = t.id

LEMMA LedgerStep ==
  ASSUME IInv, NEW s \in Stores,
         NEW L \in SUBSET Live, NEW T \in SUBSET Tomb, Distinct(L), Distinct(T),
         live' = [live EXCEPT ![s] = L], tombs' = [tombs EXCEPT ![s] = T],
         UNCHANGED <<packs, lookup>>,
         resolved' \in [Stores -> [Keys \X Requests -> Ids \cup {NoId}]],
         \A d \in Stores : d # s => resolved'[d] = resolved[d],
         OneNameIn(L \cup T), \A l \in L : l.committed => l.terminal,
         Holds(s, L, T), Answers(s, L \cup T)
  PROVE  IInv' /\ Kept
<1>1. /\ live'[s] = L /\ tombs'[s] = T /\ Entries(s)' = L \cup T
      /\ \A d \in Stores : d # s =>
           /\ live'[d] = live[d] /\ tombs'[d] = tombs[d]
           /\ Entries(d)' = Entries(d)
  BY DEF IInv, TypeOK, Entries
<1>2. TypeOK'
  <2>1. live' \in [Stores -> SUBSET Live] /\ tombs' \in [Stores -> SUBSET Tomb]
    BY DEF IInv, TypeOK
  <2>2. packs' \subseteq SUBSET Tomb /\ lookup' \in [Stores -> Lookup]
    BY DEF IInv, TypeOK
  <2>3. \A d \in Stores : Distinct(live'[d]) /\ Distinct(tombs'[d])
    BY <1>1, Ledgers DEF IInv
  <2>4. \A p \in packs' : Distinct(p)
    BY DEF IInv, TypeOK, Distinct
  <2>5. \A ledger \in packs' \cup {tombs'[d] : d \in Stores} : Distinct(ledger)
    BY <2>3, <2>4
  <2>6. QED  BY <2>1, <2>2, <2>3, <2>5 DEF TypeOK, Distinct
<1>3. Kept
  <2>1. ASSUME NEW d \in Stores
        PROVE  /\ \A e \in Entries(d) :
                    \E f \in Entries(d)' : Same(e, f) /\ (e.committed => f.committed)
               /\ \A t \in tombs[d] : \E u \in tombs'[d] : u.id = t.id
    <3>1. CASE d = s  BY <1>1, <3>1 DEF Holds
    <3>2. CASE d # s  BY <1>1, <3>2 DEF Same
    <3>3. QED  BY <3>1, <3>2
  <2>2. QED  BY <2>1 DEF Kept
<1>4. OneName'
  BY <1>1 DEF IInv, OneName
<1>5. CommittedIsTerminal'
  BY <1>1 DEF IInv, CommittedIsTerminal
<1>6. LookupIsBacked'
  <2> SUFFICES ASSUME NEW d \in Stores
               PROVE  /\ lookup'[d].at = "live" =>
                           \E e \in Entries(d)' : e.id = lookup'[d].id
                      /\ lookup'[d].at = "tombs" =>
                           \E t \in tombs'[d] : t.id = lookup'[d].id
                      /\ lookup'[d].at # "missing"
    BY DEF LookupIsBacked
  <2>1. lookup'[d] = lookup[d]
    OBVIOUS
  <2>2. QED  BY <1>3, <2>1 DEF IInv, LookupIsBacked, Kept, Same
<1>7. ResolvedIsHeld'
  <2> SUFFICES ASSUME NEW d \in Stores, NEW k \in Keys, NEW r \in Requests,
                      resolved'[d][<<k, r>>] # NoId
               PROVE  \E e \in Entries(d)' : e.id = resolved'[d][<<k, r>>] /\ e.request = r
    BY DEF ResolvedIsHeld
  <2>1. CASE resolved'[d][<<k, r>>] = resolved[d][<<k, r>>]
    <3>1. PICK e \in Entries(d) : e.id = resolved[d][<<k, r>>] /\ e.request = r
      BY <2>1 DEF IInv, ResolvedIsHeld
    <3>2. QED  BY <1>3, <2>1, <3>1 DEF Kept, Same
  <2>2. CASE resolved'[d][<<k, r>>] # resolved[d][<<k, r>>]
    <3>1. d = s  BY <2>2
    <3>2. QED  BY <1>1, <2>2, <3>1 DEF Answers
  <2>3. QED  BY <2>1, <2>2
<1>8. QED  BY <1>2, <1>3, <1>4, <1>5, <1>6, <1>7 DEF IInv

\* A store's ledgers stay as they are.
LEMMA UntouchedLedger ==
  ASSUME IInv, NEW s \in Stores
  PROVE  /\ OneNameIn(live[s] \cup tombs[s])
         /\ \A l \in live[s] : l.committed => l.terminal
         /\ Holds(s, live[s], tombs[s])
  BY DEF IInv, OneName, CommittedIsTerminal, Holds, Entries, Same

\* Without an answer given, the answers are about what is held.
LEMMA NoAnswer ==
  ASSUME TypeOK, NEW s \in Stores, NEW entries, UNCHANGED resolved
  PROVE  /\ Answers(s, entries)
         /\ resolved' \in [Stores -> [Keys \X Requests -> Ids \cup {NoId}]]
         /\ \A d \in Stores : d # s => resolved'[d] = resolved[d]
  BY DEF Answers, TypeOK

LEMMA AnswerFacts ==
  ASSUME TypeOK, NEW s \in Stores, NEW k \in Keys, NEW r \in Requests,
         NEW id \in Ids, Answer(s, k, r, id), NEW entries,
         \E e \in entries : e.id = id /\ e.request = r
  PROVE  /\ Answers(s, entries)
         /\ resolved' \in [Stores -> [Keys \X Requests -> Ids \cup {NoId}]]
         /\ \A d \in Stores : d # s => resolved'[d] = resolved[d]
<1>1. resolved' = [resolved EXCEPT ![s] = [@ EXCEPT ![<<k, r>>] = id]]
  BY DEF Answer
<1>2. <<k, r>> \in Keys \X Requests /\ id \in Ids \cup {NoId}
  OBVIOUS
<1>3. /\ resolved' \in [Stores -> [Keys \X Requests -> Ids \cup {NoId}]]
      /\ \A d \in Stores : d # s => resolved'[d] = resolved[d]
      /\ resolved'[s] = [resolved[s] EXCEPT ![<<k, r>>] = id]
  BY <1>1, <1>2 DEF TypeOK
<1>4. Answers(s, entries)
  <2> SUFFICES ASSUME NEW j \in Keys, NEW q \in Requests
               PROVE  \/ resolved'[s][<<j, q>>] = resolved[s][<<j, q>>]
                      \/ \E e \in entries : e.id = resolved'[s][<<j, q>>] /\ e.request = q
    BY DEF Answers
  <2>1. resolved[s] \in [Keys \X Requests -> Ids \cup {NoId}]
    BY DEF TypeOK
  <2>2. CASE <<j, q>> = <<k, r>>
    <3>1. resolved'[s][<<j, q>>] = id /\ q = r
      BY <1>2, <1>3, <2>1, <2>2
    <3>2. QED  BY <3>1
  <2>3. CASE <<j, q>> # <<k, r>>
    BY <1>2, <1>3, <2>1, <2>3
  <2>4. QED  BY <2>2, <2>3
<1>5. QED  BY <1>3, <1>4

-----------------------------------------------------------------------------
(* Submissions. *)

LEMMA MatchesHeld ==
  ASSUME NEW s \in Stores, NEW k \in Keys, NEW r \in Requests
  PROVE  /\ Matches(s, k, r) \subseteq Entries(s)
         /\ Matches(s, k, r) = {} =>
              \A e \in Entries(s) : e.key # k /\ e.request # r
  BY DEF Matches, TombMatches, LiveMatches, Entries

LEMMA EntryTypes ==
  ASSUME TypeOK, NEW s \in Stores, NEW e \in Entries(s)
  PROVE  e.id \in Ids /\ e.key \in Keys /\ e.request \in Requests
         /\ e.committed \in BOOLEAN
<1>1. CASE e \in Live  BY <1>1 DEF Live
<1>2. CASE e \in Tomb  BY <1>2 DEF Tomb
<1>3. QED  BY <1>1, <1>2 DEF TypeOK, Entries

LEMMA SubmitKnownKeeps ==
  ASSUME IInv, NEW s \in Stores, NEW k \in Keys, NEW r \in Requests,
         SubmitKnown(s, k, r)
  PROVE  IInv' /\ Kept
<1>1. TypeOK  BY DEF IInv
<1>2. PICK e \in Matches(s, k, r) : e.request = r /\ Answer(s, k, r, e.id)
  BY DEF SubmitKnown
<1>3. e \in Entries(s) /\ e.id \in Ids
  BY <1>1, MatchesHeld, EntryTypes
<1>4. /\ live' = [live EXCEPT ![s] = live[s]] /\ tombs' = [tombs EXCEPT ![s] = tombs[s]]
      /\ UNCHANGED <<packs, lookup>>
  BY <1>1, Ledgers DEF SubmitKnown
<1>5. \E f \in live[s] \cup tombs[s] : f.id = e.id /\ f.request = r
  BY <1>2, <1>3 DEF Entries
<1>6. /\ Answers(s, live[s] \cup tombs[s])
      /\ resolved' \in [Stores -> [Keys \X Requests -> Ids \cup {NoId}]]
      /\ \A d \in Stores : d # s => resolved'[d] = resolved[d]
  BY <1>1, <1>2, <1>3, <1>5, AnswerFacts
<1>7. QED  BY <1>1, <1>4, <1>6, Ledgers, UntouchedLedger, LedgerStep

LEMMA SubmitNewKeeps ==
  ASSUME IInv, NEW s \in Stores, NEW k \in Keys, NEW r \in Requests,
         SubmitNew(s, k, r)
  PROVE  IInv' /\ Kept
<1>1. TypeOK  BY DEF IInv
<1>2. PICK id \in Ids :
        /\ Fresh(id)
        /\ live' = [live EXCEPT ![s] = @ \cup
                      {[id |-> id, key |-> k, request |-> r,
                        terminal |-> FALSE, committed |-> FALSE]}]
        /\ Answer(s, k, r, id)
  BY DEF SubmitNew
<1>3. PICK n : n = [id |-> id, key |-> k, request |-> r,
                    terminal |-> FALSE, committed |-> FALSE]
  OBVIOUS
<1>4. /\ n \in Live /\ n.id = id /\ n.key = k /\ n.request = r /\ ~n.committed
      /\ live' = [live EXCEPT ![s] = live[s] \cup {n}]
  BY <1>2, <1>3 DEF Live
<1>5. \A e \in Entries(s) : e.id # id /\ e.key # k /\ e.request # r
  BY <1>2, MatchesHeld DEF SubmitNew, Fresh
<1>6. /\ live[s] \cup {n} \in SUBSET Live /\ Distinct(live[s] \cup {n})
      /\ tombs[s] \in SUBSET Tomb /\ Distinct(tombs[s])
  BY <1>1, <1>4, <1>5, Ledgers DEF Distinct, Entries
<1>7. OneNameIn((live[s] \cup {n}) \cup tombs[s])
  BY <1>4, <1>5, UntouchedLedger DEF OneNameIn, Shares, Same, Entries
<1>8. /\ \A l \in live[s] \cup {n} : l.committed => l.terminal
      /\ Holds(s, live[s] \cup {n}, tombs[s])
  BY <1>4, UntouchedLedger DEF Holds, Same
<1>9. /\ tombs' = [tombs EXCEPT ![s] = tombs[s]] /\ UNCHANGED <<packs, lookup>>
  BY <1>1, Ledgers DEF SubmitNew
<1>10. \E e \in (live[s] \cup {n}) \cup tombs[s] : e.id = id /\ e.request = r
  BY <1>4
<1>11. /\ Answers(s, (live[s] \cup {n}) \cup tombs[s])
       /\ resolved' \in [Stores -> [Keys \X Requests -> Ids \cup {NoId}]]
       /\ \A d \in Stores : d # s => resolved'[d] = resolved[d]
  BY <1>1, <1>2, <1>10, AnswerFacts
<1>12. QED  BY <1>4, <1>6, <1>7, <1>8, <1>9, <1>11, LedgerStep

\* The archival becomes terminal under its name.
LEMMA FinishKeeps ==
  ASSUME IInv, NEW s \in Stores, NEW l \in live[s], Finish(s, l)
  PROVE  IInv' /\ Kept
<1>1. TypeOK  BY DEF IInv
<1>2. PICK committed \in BOOLEAN :
        live' = [live EXCEPT ![s] = (@ \ {l}) \cup
                   {[l EXCEPT !.terminal = TRUE, !.committed = committed]}]
  BY DEF Finish
<1>3. PICK n : n = [l EXCEPT !.terminal = TRUE, !.committed = committed]
  OBVIOUS
<1>4. l \in Live /\ ~l.committed
  BY <1>1, Ledgers DEF Finish, IInv, CommittedIsTerminal
<1>5. n \in Live /\ Same(l, n) /\ n.terminal
  BY <1>3, <1>4 DEF Live, Same
<1>6. PICK L : L = (live[s] \ {l}) \cup {n}
  OBVIOUS
<1>7. live' = [live EXCEPT ![s] = L]
  BY <1>2, <1>3, <1>6
<1>8. /\ L \in SUBSET Live /\ Distinct(L)
      /\ tombs[s] \in SUBSET Tomb /\ Distinct(tombs[s])
  BY <1>1, <1>5, <1>6, Ledgers DEF Distinct, Same
<1>9. \A f \in L \cup tombs[s] : \E e \in live[s] \cup tombs[s] : Same(e, f)
  BY <1>5, <1>6 DEF Same
<1>10. OneNameIn(L \cup tombs[s])
  BY <1>9, UntouchedLedger, NamesCarryOver
<1>11. \A m \in L : m.committed => m.terminal
  BY <1>5, <1>6, UntouchedLedger
<1>12. Holds(s, L, tombs[s])
  BY <1>4, <1>5, <1>6 DEF Holds, Same, Entries
<1>13. /\ tombs' = [tombs EXCEPT ![s] = tombs[s]]
       /\ UNCHANGED <<packs, resolved, lookup>>
  BY <1>1, Ledgers DEF Finish
<1>14. QED
  BY <1>1, <1>7, <1>8, <1>10, <1>11, <1>12, <1>13, NoAnswer, LedgerStep

-----------------------------------------------------------------------------
(* Compaction, and MemoryPacks on their way. *)

LEMMA CompactKeeps ==
  ASSUME IInv, NEW s \in Stores, NEW expired \in SUBSET Terminals(s),
         Compact(s, expired)
  PROVE  IInv' /\ Kept
<1>1. TypeOK  BY DEF IInv
<1>2. expired \subseteq live[s] /\ expired \in SUBSET Live /\ Distinct(expired)
  BY <1>1, Ledgers DEF Terminals, Distinct
<1>3. PICK N : N = {TombOf(l) : l \in expired}
  OBVIOUS
<1>4. PICK T : T = With(tombs[s], N)
  OBVIOUS
<1>5. /\ N \in SUBSET Tomb /\ Distinct(N)
      /\ \A l \in expired : TombOf(l) \in N
      /\ \A t \in N : \E l \in expired :
           t = TombOf(l) /\ Same(l, t) /\ t.committed = l.committed
  BY <1>2, <1>3, TombsOfFacts
<1>6. /\ T \in SUBSET Tomb /\ Distinct(T)
      /\ \A v \in T : \E w \in tombs[s] \cup N : Same(w, v)
      /\ \A u \in tombs[s] : \E v \in T : Same(u, v) /\ (u.committed => v.committed)
      /\ \A t \in N : \E v \in T : v.id = t.id /\ (t.committed => v.committed)
  BY <1>1, <1>4, <1>5, Ledgers, WithFacts
<1>7. live' = [live EXCEPT ![s] = live[s] \ expired] /\ tombs' = [tombs EXCEPT ![s] = T]
  BY <1>3, <1>4 DEF Compact
<1>8. live[s] \ expired \in SUBSET Live /\ Distinct(live[s] \ expired)
  BY <1>1, Ledgers DEF Distinct
<1>9. \A f \in (live[s] \ expired) \cup T : \E e \in live[s] \cup tombs[s] : Same(e, f)
  BY <1>2, <1>5, <1>6 DEF Same
<1>10. OneNameIn((live[s] \ expired) \cup T)
  <2>1. OneNameIn(live[s] \cup tombs[s])
    BY UntouchedLedger
  <2>2. QED  BY <1>9, <2>1, NamesCarryOver
<1>11. Holds(s, live[s] \ expired, T)
  <2>1. ASSUME NEW l \in expired
        PROVE  \E v \in T : Same(l, v) /\ (l.committed => v.committed)
    <3>1. TombOf(l).id = l.id /\ TombOf(l).committed = l.committed
      BY DEF TombOf
    <3>2. PICK v \in T : v.id = l.id /\ (l.committed => v.committed)
      BY <1>5, <1>6, <3>1
    <3>3. PICK e \in live[s] \cup tombs[s] : Same(e, v)
      BY <1>9
    <3>4. Same(l, e)
      BY <1>2, <3>2, <3>3, UntouchedLedger DEF OneNameIn, Shares, Same
    <3>5. QED  BY <3>2, <3>3, <3>4 DEF Same
  <2>2. \A t \in tombs[s] : \E u \in T : u.id = t.id
    BY <1>6 DEF Same
  <2>3. \A e \in Entries(s) : \E f \in (live[s] \ expired) \cup T :
          Same(e, f) /\ (e.committed => f.committed)
    <3> SUFFICES ASSUME NEW e \in Entries(s)
                 PROVE  \E f \in (live[s] \ expired) \cup T :
                          Same(e, f) /\ (e.committed => f.committed)
      OBVIOUS
    <3>1. CASE e \in expired  BY <2>1, <3>1
    <3>2. CASE e \in live[s] \ expired  BY <3>2 DEF Same
    <3>3. CASE e \in tombs[s]  BY <1>6, <3>3
    <3>4. QED  BY <3>1, <3>2, <3>3 DEF Entries
  <2>4. QED  BY <2>2, <2>3 DEF Holds
<1>12. \A l \in live[s] \ expired : l.committed => l.terminal
  BY UntouchedLedger
<1>13. UNCHANGED <<packs, resolved, lookup>>
  BY DEF Compact
<1>14. QED
  BY <1>1, <1>6, <1>7, <1>8, <1>10, <1>11, <1>12, <1>13, NoAnswer, LedgerStep

LEMMA PackFacts ==
  ASSUME TypeOK, NEW p \in packs
  PROVE  p \in SUBSET Tomb /\ Distinct(p)
  BY DEF TypeOK, Distinct

\* What a store exports: one tombstone for every id it answers for.
LEMMA LedgerFacts ==
  ASSUME TypeOK, NEW s \in Stores
  PROVE  Ledger(s) \in SUBSET Tomb /\ Distinct(Ledger(s))
<1>1. Terminals(s) \in SUBSET Live /\ Distinct(Terminals(s))
  BY Ledgers DEF Terminals, Distinct
<1>2. PICK N : N = {TombOf(l) : l \in Terminals(s)}
  OBVIOUS
<1>3. N \in SUBSET Tomb /\ Distinct(N)
  BY <1>1, <1>2, TombsOfFacts
<1>4. Ledger(s) = With(tombs[s], N)
  BY <1>2 DEF Ledger
<1>5. QED  BY <1>3, <1>4, Ledgers, WithFacts

\* A step that leaves the ledgers and the answers alone.
LEMMA QuietStep ==
  ASSUME IInv, UNCHANGED <<live, tombs, resolved>>,
         packs' \subseteq SUBSET Tomb, \A p \in packs' : Distinct(p),
         lookup' \in [Stores -> Lookup], LookupIsBacked'
  PROVE  IInv' /\ Kept
<1>1. TypeOK'
  <2>1. \A d \in Stores : Distinct(live'[d]) /\ Distinct(tombs'[d])
    BY Ledgers DEF IInv
  <2>2. \A ledger \in packs' \cup {tombs'[d] : d \in Stores} : Distinct(ledger)
    BY <2>1
  <2>3. QED  BY <2>1, <2>2 DEF IInv, TypeOK, Distinct
<1>2. \A d \in Stores : Entries(d)' = Entries(d)
  BY DEF Entries
<1>3. OneName' /\ ResolvedIsHeld' /\ CommittedIsTerminal'
  BY <1>2 DEF IInv, OneName, ResolvedIsHeld, CommittedIsTerminal
<1>4. Kept
  BY <1>2 DEF Kept, Same
<1>5. QED  BY <1>1, <1>3, <1>4 DEF IInv

LEMMA UnchangedLookups ==
  ASSUME IInv, UNCHANGED <<live, tombs, lookup>>
  PROVE  lookup' \in [Stores -> Lookup] /\ LookupIsBacked'
  BY DEF IInv, TypeOK, LookupIsBacked, Entries

LEMMA ExportKeeps ==
  ASSUME IInv, NEW s \in Stores, Export(s)
  PROVE  IInv' /\ Kept
<1>1. TypeOK  BY DEF IInv
<1>2. PICK old : old = {[t EXCEPT !.committed = FALSE] : t \in Ledger(s)}
  OBVIOUS
<1>3. \A t \in Ledger(s) : /\ [t EXCEPT !.committed = FALSE] \in Tomb
                           /\ Same(t, [t EXCEPT !.committed = FALSE])
  BY <1>1, LedgerFacts DEF Tomb, Same
<1>4. old \in SUBSET Tomb /\ Distinct(old)
  <2>1. old \in SUBSET Tomb
    BY <1>2, <1>3
  <2>2. ASSUME NEW x \in old, NEW y \in old, x.id = y.id  PROVE x = y
    <3>1. PICK t \in Ledger(s) : x = [t EXCEPT !.committed = FALSE]
      BY <1>2
    <3>2. PICK u \in Ledger(s) : y = [u EXCEPT !.committed = FALSE]
      BY <1>2
    <3>3. t.id = u.id
      BY <1>3, <2>2, <3>1, <3>2 DEF Same
    <3>4. t = u
      BY <1>1, <3>3, LedgerFacts DEF Distinct
    <3>5. QED  BY <3>1, <3>2, <3>4
  <2>3. QED  BY <2>1, <2>2 DEF Distinct
<1>5. PICK pack \in {Ledger(s), old} : packs' = packs \cup {pack}
  BY <1>2 DEF Export
<1>6. packs' \subseteq SUBSET Tomb /\ \A p \in packs' : Distinct(p)
  BY <1>1, <1>4, <1>5, LedgerFacts, PackFacts
<1>7. QED  BY <1>6, UnchangedLookups, QuietStep DEF Export

\* The names of a mergeable pack agree with those of the store.
LEMMA MergeableNames ==
  ASSUME IInv, NEW s \in Stores, NEW pack \in packs, Mergeable(s, pack)
  PROVE  OneNameIn(Entries(s) \cup pack)
<1>1. \A t \in pack, e \in Entries(s) : Shares(t, e) => Same(t, e)
  BY DEF Mergeable, Collides, Compatible, Shares, Same
<1>2. \A t, u \in pack : Shares(t, u) => Same(t, u)
  BY PackFacts DEF IInv, Mergeable, Collides, Shares, Same, Distinct
<1>3. OneNameIn(Entries(s))
  BY DEF IInv, OneName
<1>4. QED  BY <1>1, <1>2, <1>3 DEF OneNameIn, Shares, Same

LEMMA ImportKeeps ==
  ASSUME IInv, NEW s \in Stores, NEW pack \in packs, Import(s, pack)
  PROVE  IInv' /\ Kept
<1>1. TypeOK  BY DEF IInv
<1>2. pack \in SUBSET Tomb /\ Distinct(pack)
  BY <1>1, PackFacts
<1>3. PICK U : U = Strengthened(tombs[s], pack)
  OBVIOUS
<1>4. PICK N : N = Newcomers(s, pack)
  OBVIOUS
<1>5. N \subseteq pack /\ \A t \in N, u \in tombs[s] : u.id # t.id
  BY <1>4 DEF Newcomers
<1>6. /\ U \subseteq Tomb /\ Distinct(U)
      /\ \A v \in U : \E u \in tombs[s] : Same(u, v)
      /\ \A u \in tombs[s] : \E v \in U : Same(u, v) /\ (u.committed => v.committed)
  BY <1>1, <1>2, <1>3, Ledgers, StrengthenedFacts
<1>7. U \cup N \in SUBSET Tomb /\ Distinct(U \cup N)
  BY <1>2, <1>5, <1>6 DEF Distinct, Same
<1>8. OneNameIn(live[s] \cup (U \cup N))
  <2>1. \A f \in live[s] \cup (U \cup N) : \E e \in Entries(s) \cup pack : Same(e, f)
    BY <1>5, <1>6 DEF Entries, Same
  <2>2. OneNameIn(Entries(s) \cup pack)
    BY MergeableNames DEF Import
  <2>3. QED  BY <2>1, <2>2, NamesCarryOver
<1>9. Holds(s, live[s], U \cup N)
  <2>1. \A e \in Entries(s) : \E f \in live[s] \cup (U \cup N) :
          Same(e, f) /\ (e.committed => f.committed)
    <3> SUFFICES ASSUME NEW e \in Entries(s)
                 PROVE  \E f \in live[s] \cup (U \cup N) :
                          Same(e, f) /\ (e.committed => f.committed)
      OBVIOUS
    <3>1. CASE e \in live[s]  BY <3>1 DEF Same
    <3>2. CASE e \in tombs[s]  BY <1>6, <3>2
    <3>3. QED  BY <3>1, <3>2 DEF Entries
  <2>2. \A t \in tombs[s] : \E u \in U \cup N : u.id = t.id
    BY <1>6 DEF Same
  <2>3. QED  BY <2>1, <2>2 DEF Holds
<1>10. /\ live' = [live EXCEPT ![s] = live[s]]
       /\ tombs' = [tombs EXCEPT ![s] = U \cup N]
       /\ UNCHANGED <<packs, resolved, lookup>>
  BY <1>1, <1>3, <1>4, Ledgers DEF Import
<1>11. live[s] \in SUBSET Live /\ Distinct(live[s])
  BY <1>1, Ledgers
<1>12. \A l \in live[s] : l.committed => l.terminal
  BY UntouchedLedger
<1>13. Answers(s, live[s] \cup (U \cup N))
       /\ resolved' \in [Stores -> [Keys \X Requests -> Ids \cup {NoId}]]
       /\ \A d \in Stores : d # s => resolved'[d] = resolved[d]
  BY <1>1, <1>10, NoAnswer
<1>14. QED
  BY <1>7, <1>8, <1>9, <1>10, <1>11, <1>12, <1>13, LedgerStep

-----------------------------------------------------------------------------
(* get() *)

\* Every id a store keeps a tombstone of is in the ledger it lists.
LEMMA LedgerCovers ==
  ASSUME TypeOK, NEW s \in Stores, NEW t \in tombs[s]
  PROVE  \E u \in Ledger(s) : u.id = t.id
<1>1. Terminals(s) \in SUBSET Live /\ Distinct(Terminals(s))
  BY Ledgers DEF Terminals, Distinct
<1>2. PICK N : N = {TombOf(l) : l \in Terminals(s)}
  OBVIOUS
<1>3. N \in SUBSET Tomb /\ Distinct(N)
  BY <1>1, <1>2, TombsOfFacts
<1>4. Ledger(s) = With(tombs[s], N)
  BY <1>2 DEF Ledger
<1>5. QED  BY <1>3, <1>4, Ledgers, WithFacts DEF Same

LEMMA GetKeeps ==
  ASSUME IInv, NEW s \in Stores, GetStart(s) \/ GetRead(s) \/ GetReturn(s)
  PROVE  IInv' /\ Kept
<1>1. TypeOK  BY DEF IInv
<1>2. /\ UNCHANGED <<live, tombs, packs, resolved>>
      /\ \A d \in Stores : Entries(d)' = Entries(d)
  BY DEF GetStart, GetRead, GetReturn, Entries
<1>3. PICK n : lookup' = [lookup EXCEPT ![s] = n] /\ n = lookup'[s]
  BY <1>1 DEF GetStart, GetRead, GetReturn, TypeOK
<1>4. /\ n \in Lookup
      /\ n.at = "live" => \E e \in Entries(s) : e.id = n.id
      /\ n.at = "tombs" => \E t \in tombs[s] : t.id = n.id
      /\ n.at # "missing"
  <2>1. CASE GetStart(s)
    <3>1. PICK e \in Entries(s) : n = [at |-> "live", id |-> e.id]
      BY <1>1, <1>3, <2>1 DEF GetStart, TypeOK
    <3>2. e.id \in Ids  BY <1>1, EntryTypes
    <3>3. QED  BY <3>1, <3>2 DEF Lookup
  <2>2. CASE GetRead(s) /\ lookup[s].at = "live"
    <3>1. /\ n \in Lookup /\ n.id = lookup[s].id /\ n.at \in {"found", "tombs"}
          /\ n.at = "tombs" => ~\E l \in live[s] : l.id = lookup[s].id
      BY <1>1, <1>3, <2>2 DEF GetRead, TypeOK, Lookup
    <3>2. PICK e \in Entries(s) : e.id = lookup[s].id
      BY <2>2 DEF IInv, LookupIsBacked
    <3>3. QED  BY <3>1, <3>2 DEF Entries
  <2>3. CASE GetRead(s) /\ lookup[s].at = "tombs"
    <3>1. PICK t \in tombs[s] : t.id = lookup[s].id
      BY <2>3 DEF IInv, LookupIsBacked
    <3>2. \E u \in Ledger(s) : u.id = lookup[s].id
      BY <1>1, <3>1, LedgerCovers
    <3>3. n \in Lookup /\ n.at = "found"
      BY <1>1, <1>3, <2>3, <3>2 DEF GetRead, TypeOK, Lookup
    <3>4. QED  BY <3>3
  <2>4. CASE GetReturn(s)
    BY <1>1, <1>3, <2>4 DEF GetReturn, TypeOK, IdleLookup, Lookup
  <2>5. QED  BY <2>1, <2>2, <2>3, <2>4 DEF GetRead
<1>5. lookup' \in [Stores -> Lookup]
  BY <1>1, <1>3, <1>4 DEF TypeOK
<1>6. LookupIsBacked'
  <2> SUFFICES ASSUME NEW d \in Stores
               PROVE  /\ lookup'[d].at = "live" =>
                           \E e \in Entries(d)' : e.id = lookup'[d].id
                      /\ lookup'[d].at = "tombs" =>
                           \E t \in tombs'[d] : t.id = lookup'[d].id
                      /\ lookup'[d].at # "missing"
    BY DEF LookupIsBacked
  <2>1. CASE d = s  BY <1>2, <1>3, <1>4, <2>1
  <2>2. CASE d # s
    <3>1. lookup'[d] = lookup[d]  BY <1>1, <1>3, <2>2 DEF TypeOK
    <3>2. QED  BY <1>2, <3>1 DEF IInv, LookupIsBacked
  <2>3. QED  BY <2>1, <2>2
<1>7. packs' \subseteq SUBSET Tomb /\ \A p \in packs' : Distinct(p)
  BY <1>1, <1>2, PackFacts
<1>8. QED  BY <1>2, <1>5, <1>6, <1>7, QuietStep

-----------------------------------------------------------------------------
(* The theorems. *)

LEMMA StutterKeeps == ASSUME IInv, UNCHANGED vars  PROVE IInv' /\ Kept
<1>1. packs' \subseteq SUBSET Tomb /\ \A p \in packs' : Distinct(p)
  BY PackFacts DEF IInv, vars, TypeOK
<1>2. QED  BY <1>1, UnchangedLookups, QuietStep DEF vars

LEMMA NextKeeps == ASSUME IInv, [Next]_vars  PROVE IInv' /\ Kept
<1>1. CASE UNCHANGED vars
  BY <1>1, StutterKeeps
<1>2. CASE Next
  <2>1. PICK s \in Stores :
          \/ \E k \in Keys, r \in Requests :
               SubmitKnown(s, k, r) \/ SubmitConflict(s, k, r) \/ SubmitNew(s, k, r)
          \/ \E l \in live[s] : Finish(s, l)
          \/ \E expired \in SUBSET Terminals(s) : Compact(s, expired)
          \/ Export(s)
          \/ \E pack \in packs : Import(s, pack)
          \/ GetStart(s) \/ GetRead(s) \/ GetReturn(s)
    BY <1>2 DEF Next
  <2>2. CASE \E k \in Keys, r \in Requests :
               SubmitKnown(s, k, r) \/ SubmitConflict(s, k, r) \/ SubmitNew(s, k, r)
    BY <2>2, SubmitKnownKeeps, SubmitNewKeeps, StutterKeeps DEF SubmitConflict
  <2>3. CASE \E l \in live[s] : Finish(s, l)
    BY <2>3, FinishKeeps
  <2>4. CASE \E expired \in SUBSET Terminals(s) : Compact(s, expired)
    BY <2>4, CompactKeeps
  <2>5. CASE Export(s)
    BY <2>5, ExportKeeps
  <2>6. CASE \E pack \in packs : Import(s, pack)
    BY <2>6, ImportKeeps
  <2>7. CASE GetStart(s) \/ GetRead(s) \/ GetReturn(s)
    BY <2>7, GetKeeps
  <2>8. QED  BY <2>1, <2>2, <2>3, <2>4, <2>5, <2>6, <2>7
<1>3. QED  BY <1>1, <1>2

LEMMA InitHolds == Init => IInv
<1> SUFFICES ASSUME Init  PROVE IInv
  OBVIOUS
<1>1. \A s \in Stores : /\ live[s] = {} /\ tombs[s] = {} /\ Entries(s) = {}
                        /\ lookup[s] = IdleLookup
  BY DEF Init, Entries
<1>2. TypeOK
  BY DEF Init, TypeOK, IdleLookup, Lookup
<1>3. OneName /\ CommittedIsTerminal /\ LookupIsBacked
  BY <1>1 DEF OneName, OneNameIn, CommittedIsTerminal, LookupIsBacked, IdleLookup
<1>4. ResolvedIsHeld
  BY DEF Init, ResolvedIsHeld
<1>5. QED  BY <1>2, <1>3, <1>4 DEF IInv

\* The ledgers of a store agree, whatever was compacted, exported and imported.
THEOREM IdentityInvariance == Spec => []IInv
  BY InitHolds, NextKeeps, PTL DEF Spec

\* Every store keeps well-formed ledgers with one record and one tombstone per
\* id, and so does every MemoryPack in circulation.
THEOREM LedgersAreTyped == Spec => []TypeOK
  BY IdentityInvariance, PTL DEF IInv

\* An idempotency key and a request name one archival in a store, and get()
\* finds it even when compaction moves it between its two reads.
THEOREM IdentityIsOne == Spec => []OneIdentity
<1>1. IInv => OneIdentity
  BY DEF IInv, OneName, OneNameIn, Shares, Same, LookupIsBacked, OneIdentity,
         NamesOneArchival, GetFindsAccepted
<1>2. QED  BY <1>1, IdentityInvariance, PTL

\* A later answer to a request repeats the earlier one.
LEMMA AnswersRepeat ==
  ASSUME IInv, [Next]_vars, NEW d \in Stores, NEW j \in Keys, NEW q \in Requests,
         resolved[d][<<j, q>>] # NoId
  PROVE  resolved'[d][<<j, q>>] = resolved[d][<<j, q>>]
<1>1. PICK e \in Entries(d) : e.id = resolved[d][<<j, q>>] /\ e.request = q
  BY DEF IInv, ResolvedIsHeld
<1>2. ASSUME NEW s \in Stores, NEW k \in Keys, NEW r \in Requests, NEW id \in Ids,
             Answer(s, k, r, id),
             \A f \in Entries(s) : f.request = r => f.id = id
      PROVE  resolved'[d][<<j, q>>] = resolved[d][<<j, q>>]
  <2>1. /\ resolved' = [resolved EXCEPT ![s] = [resolved[s] EXCEPT ![<<k, r>>] = id]]
        /\ resolved \in [Stores -> [Keys \X Requests -> Ids \cup {NoId}]]
    BY <1>2 DEF Answer, IInv, TypeOK
  <2>2. CASE d = s /\ <<j, q>> = <<k, r>>
    BY <1>1, <1>2, <2>1, <2>2
  <2>3. CASE d # s \/ <<j, q>> # <<k, r>>
    <3>1. <<j, q>> \in Keys \X Requests
      OBVIOUS
    <3>2. QED  BY <2>1, <2>3, <3>1
  <2>4. QED  BY <2>2, <2>3
<1>3. CASE UNCHANGED resolved
  BY <1>3
<1>4. ASSUME NEW s \in Stores, NEW k \in Keys, NEW r \in Requests,
             SubmitKnown(s, k, r)
      PROVE  resolved'[d][<<j, q>>] = resolved[d][<<j, q>>]
  <2>1. PICK f \in Matches(s, k, r) : f.request = r /\ Answer(s, k, r, f.id)
    BY <1>4 DEF SubmitKnown
  <2>2. f \in Entries(s) /\ f.id \in Ids
    BY MatchesHeld, EntryTypes DEF IInv
  <2>3. \A g \in Entries(s) : g.request = r => g.id = f.id
    BY <2>1, <2>2 DEF IInv, OneName, OneNameIn, Shares, Same
  <2>4. QED  BY <1>2, <2>1, <2>2, <2>3
<1>5. ASSUME NEW s \in Stores, NEW k \in Keys, NEW r \in Requests,
             SubmitNew(s, k, r)
      PROVE  resolved'[d][<<j, q>>] = resolved[d][<<j, q>>]
  <2>1. PICK id \in Ids : Answer(s, k, r, id)
    BY <1>5 DEF SubmitNew
  <2>2. \A f \in Entries(s) : f.request # r
    BY <1>5, MatchesHeld DEF SubmitNew
  <2>3. QED  BY <1>2, <2>1, <2>2
<1>6. CASE Next
  <2>1. \/ UNCHANGED resolved
        \/ \E s \in Stores, k \in Keys, r \in Requests :
             SubmitKnown(s, k, r) \/ SubmitNew(s, k, r)
    BY <1>6 DEF Next, SubmitConflict, Finish, Compact, Export, Import, GetStart,
                GetRead, GetReturn, vars
  <2>2. QED  BY <1>3, <1>4, <1>5, <2>1
<1>7. QED  BY <1>3, <1>6 DEF vars

\* A retried submission gets the archival of the first, however long ago that
\* one was compacted, and nothing known of its artifacts is ever lost.
THEOREM IdentityIsRemembered == Spec => NothingIsForgotten
<1>1. IInv /\ [Next]_vars =>
        [\A s \in Stores : \A q \in Keys \X Requests :
           resolved[s][q] # NoId => resolved'[s][q] = resolved[s][q]]_resolved
  BY AnswersRepeat
<1>2. IInv /\ [Next]_vars =>
        [\A s \in Stores : \A id \in Ids :
           Certified(s, id) => Certified(s, id)']_<<live, tombs>>
  <2> SUFFICES ASSUME IInv, [Next]_vars, NEW s \in Stores, NEW id \in Ids,
                      Certified(s, id)
               PROVE  Certified(s, id)'
    OBVIOUS
  <2>1. Kept  BY NextKeeps
  <2>2. QED  BY <2>1 DEF Certified, Kept, Same
<1>3. QED
  BY <1>1, <1>2, IdentityInvariance, PTL
     DEF Spec, NothingIsForgotten, RetryKeepsIdentity, CommitmentIsKept

=============================================================================
