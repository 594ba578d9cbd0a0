------------------------- MODULE StoreContentsProofs -------------------------
(* Proofs about what the store of an engine holds: a relationship is pinned  *)
(* to what an approval made, and a pack's timeline is there once for each    *)
(* receipt of the pack.                                                      *)
EXTENDS EngineStoreProofs

-----------------------------------------------------------------------------
(* A store that is sound                                                     *)

(* The compilations in themselves: a Manifest is of a revision that is there *)
(* and that was approved.                                                    *)
IsRevision(r) == r = [status |-> r.status, by |-> r.by, decider |-> r.decider]
Consistent(c) ==
    /\ IsCompilations(c)
    /\ \A i \in 1..Len(c.revisions) : IsRevision(c.revisions[i])
    /\ \A m \in c.manifests :
          m.rev \in 1..Len(c.revisions) /\ c.revisions[m.rev].status \in {"approved", "revoked"}

Made(c, pin) == pin # 0 => \E m \in c.manifests : m.rev = pin

(* What an approval's journal may install.                                   *)
IsImage(v) ==
    /\ Consistent(v.compilations)
    /\ IsProfile(v.profile)
    /\ Made(v.compilations, v.profile.manifest)

(* A document that does not exist is not one that does.                      *)
AbsentIsNoImage == \A c, p : Absent # [compilations |-> c, profile |-> p]

(* What a write may leave in its document.                                   *)
Decent(f, v) ==
    /\ f = "profile" => IsProfile(v)
    /\ f = "compilations" => Consistent(v)
    /\ f \in Approvals => v = Absent \/ IsImage(v)

Sane(fs) == fs = [f \in Documents |-> fs[f]] /\ \A f \in Documents : Decent(f, fs[f])

(* The two documents agree, or an approval's journal is there to make them.  *)
Agreed(fs) ==
    (\A f \in Approvals : fs[f] = Absent)
    => Made(fs["compilations"], fs["profile"].manifest)

Sound(fs) == Sane(fs) /\ Agreed(fs)

LEMMA SaneIsStore == ASSUME NEW fs, Sane(fs) PROVE StoreOK(fs)
BY DEF Sane, StoreOK, Decent, Fits, Consistent, IsImage

LEMMA SaneHolds ==
    ASSUME NEW fs, Sane(fs)
    PROVE  /\ IsProfile(fs["profile"]) /\ Consistent(fs["compilations"])
           /\ \A f \in Approvals : fs[f] = Absent \/ IsImage(fs[f])
           /\ DOMAIN fs = Documents
BY DEF Sane, Decent, Documents, Approvals

LEMMA WriteKeepsSane ==
    ASSUME NEW fs, Sane(fs), NEW f, NEW v, Decent(f, v)
    PROVE  Sane([fs EXCEPT ![f] = v])
<1>1. PICK gs : gs = [fs EXCEPT ![f] = v] OBVIOUS
<1>2. DOMAIN fs = Documents BY DEF Sane
<1>3. gs = [g \in Documents |-> gs[g]] BY <1>1, <1>2
<1>4. \A g \in Documents : gs[g] = IF g = f THEN v ELSE fs[g] BY <1>1, <1>2
<1>5. \A g \in Documents : Decent(g, gs[g]) BY <1>4 DEF Sane
<1> QED BY <1>1, <1>3, <1>5 DEF Sane

-----------------------------------------------------------------------------
(* What a plan leads to, one write at a time                                 *)

(* S says what may be there when so many writes of a plan have been made.    *)
Leads(plan, S) ==
    \A n, fs : <<n, fs>> \in S =>
        /\ Sound(fs)
        /\ n < Len(plan) =>
              /\ <<n + 1, [fs EXCEPT ![plan[n + 1].file] = plan[n + 1].to]>> \in S
              /\ <<n, [fs EXCEPT ![plan[n + 1].file] = plan[n + 1].to]>> \in S
              /\ plan[n + 1].failing = "ignore" => <<n + 1, fs>> \in S

(* Whatever comes in between, what is left of the plan after its first n     *)
(* writes keeps the store sound.                                             *)
Safe(plan, n, fs) == \E S : Leads(plan, S) /\ <<n, fs>> \in S

LEMMA SafeIsSound ==
    ASSUME NEW plan, NEW n, NEW fs, Safe(plan, n, fs)
    PROVE  Sound(fs)
BY DEF Safe, Leads

LEMMA SafeGoesOn ==
    ASSUME NEW plan, NEW n, NEW fs, Safe(plan, n, fs), n < Len(plan)
    PROVE  /\ Safe(plan, n + 1, [fs EXCEPT ![plan[n + 1].file] = plan[n + 1].to])
           /\ Safe(plan, n, [fs EXCEPT ![plan[n + 1].file] = plan[n + 1].to])
           /\ plan[n + 1].failing = "ignore" => Safe(plan, n + 1, fs)
<1>1. PICK S : Leads(plan, S) /\ <<n, fs>> \in S BY DEF Safe
<1>2. /\ <<n + 1, [fs EXCEPT ![plan[n + 1].file] = plan[n + 1].to]>> \in S
      /\ <<n, [fs EXCEPT ![plan[n + 1].file] = plan[n + 1].to]>> \in S
      /\ plan[n + 1].failing = "ignore" => <<n + 1, fs>> \in S
  BY <1>1, Zenon DEF Leads
<1> QED BY <1>1, <1>2, Zenon DEF Safe

LEMMA SafeAtTheEnd ==
    ASSUME NEW plan, NEW fs, Sound(fs), Len(plan) \in Nat
    PROVE  Safe(plan, Len(plan), fs)
<1>1. PICK S : S = {<<Len(plan), fs>>} OBVIOUS
<1>2. ~(Len(plan) < Len(plan)) OBVIOUS
<1>3. Leads(plan, S) BY <1>1, <1>2 DEF Leads
<1> QED BY <1>1, <1>3 DEF Safe

LEMMA SafeBefore ==
    ASSUME NEW plan, NEW n \in Nat, NEW fs, Sound(fs), n < Len(plan), Len(plan) \in Nat,
           NEW gs, gs = [fs EXCEPT ![plan[n + 1].file] = plan[n + 1].to],
           Safe(plan, n + 1, gs),
           plan[n + 1].failing = "ignore" => Safe(plan, n + 1, fs)
    PROVE  Safe(plan, n, fs)
<1>1. PICK S : Leads(plan, S) /\ <<n + 1, gs>> \in S BY DEF Safe
<1>2. PICK T : Leads(plan, T) /\ (plan[n + 1].failing = "ignore" => <<n + 1, fs>> \in T)
  <2>1. CASE plan[n + 1].failing = "ignore" BY <2>1 DEF Safe
  <2>2. CASE plan[n + 1].failing # "ignore" BY <1>1, <2>2
  <2> QED BY <2>1, <2>2
<1>3. PICK U : U = S \cup T \cup {<<n, fs>>, <<n, gs>>} OBVIOUS
<1>4. PICK w : w = plan[n + 1] OBVIOUS
<1>5. gs = [fs EXCEPT ![w.file] = w.to] BY <1>4
<1>6. [gs EXCEPT ![w.file] = w.to] = gs BY <1>5
<1>7. Sound(gs) BY <1>1 DEF Leads
<1>8. ASSUME NEW m, NEW hs, <<m, hs>> \in U
      PROVE  /\ Sound(hs)
             /\ m < Len(plan) =>
                  /\ <<m + 1, [hs EXCEPT ![plan[m + 1].file] = plan[m + 1].to]>> \in U
                  /\ <<m, [hs EXCEPT ![plan[m + 1].file] = plan[m + 1].to]>> \in U
                  /\ plan[m + 1].failing = "ignore" => <<m + 1, hs>> \in U
  <2>1. CASE <<m, hs>> \in S BY <1>1, <1>3, <2>1 DEF Leads
  <2>2. CASE <<m, hs>> \in T BY <1>2, <1>3, <2>2 DEF Leads
  <2>3. CASE m = n /\ hs = fs BY <1>1, <1>2, <1>3, <1>4, <1>5, <2>3
  <2>4. CASE m = n /\ hs = gs BY <1>1, <1>3, <1>4, <1>6, <1>7, <2>4
  <2> QED BY <1>3, <1>8, <2>1, <2>2, <2>3, <2>4
<1>9. Leads(plan, U) BY <1>8, Zenon DEF Leads
<1>10. <<n, fs>> \in U BY <1>3
<1> QED BY <1>9, <1>10, Zenon DEF Safe

(* Carried out, it leaves a sound store, whichever of the writes that may be *)
(* lost were lost.                                                           *)
LEMMA SafePlanEndsSound ==
    ASSUME NEW plan, NEW closed, PlanOK(plan, closed), NEW fs, Safe(plan, 0, fs),
           NEW skipped, skipped \subseteq Ignored(plan)
    PROVE  Sound(Written(Without(plan, skipped), fs))
<1> DEFINE L == Len(plan)
           S == {n \in Nat : n <= L =>
                    \A losing \in SUBSET (Ignored(plan) \cap 1..n) :
                        Safe(plan, n, After(Without(plan, losing), n, fs))}
<1>1. IsSeq(plan) /\ L \in Nat /\ Ignored(plan) \subseteq 1..L
  BY DEF PlanOK, IsSeq, Ignored
<1>2. 0 \in S
  <2>1. fs = [f \in DOMAIN fs |-> fs[f]] BY SafeIsSound DEF Sound, Sane
  <2>2. \A losing : After(Without(plan, losing), 0, fs) = fs BY <2>1, AfterNone
  <2> QED BY <2>2
<1>3. ASSUME NEW n \in Nat, n \in S PROVE n + 1 \in S
  <2>1. SUFFICES ASSUME n + 1 <= L, NEW losing \in SUBSET (Ignored(plan) \cap 1..(n + 1))
                 PROVE  Safe(plan, n + 1, After(Without(plan, losing), n + 1, fs))
    OBVIOUS
  <2>2. \A less \in SUBSET (Ignored(plan) \cap 1..n) :
           Safe(plan, n, After(Without(plan, less), n, fs))
    BY <1>1, <1>3, <2>1
  <2>3. n < Len(plan) BY <1>1, <2>1
  <2> HIDE DEF S
  <2>4. CASE n + 1 \in losing
    <3>1. PICK less : less = losing \ {n + 1} OBVIOUS
    <3>2. less \in SUBSET (Ignored(plan) \cap 1..n) /\ losing = less \cup {n + 1}
      BY <2>4, <3>1
    <3>3. plan[n + 1].failing = "ignore" BY <2>4 DEF Ignored
    <3>4. After(Without(plan, losing), n + 1, fs) = After(Without(plan, less), n, fs)
      BY <2>1, <3>2, <3>3, NextWriteLost
    <3>5. PICK hs : hs = After(Without(plan, less), n, fs) OBVIOUS
    <3>6. Safe(plan, n, hs) BY <2>2, <3>2, <3>5
    <3>7. Safe(plan, n + 1, hs) BY <2>3, <3>3, <3>6, SafeGoesOn
    <3> QED BY <3>4, <3>5, <3>7
  <2>5. CASE n + 1 \notin losing
    <3>1. losing \in SUBSET (Ignored(plan) \cap 1..n) BY <2>5
    <3>2. PICK w : w = Without(plan, losing) OBVIOUS
    <3>3. n + 1 \in 1..L BY <1>1, <2>1
    <3>4. w[n + 1] = plan[n + 1] BY <1>1, <2>5, <3>2, <3>3, WithoutIsSeq
    <3>5. PICK hs : hs = After(w, n, fs) OBVIOUS
    <3>6. Safe(plan, n, hs) BY <2>2, <3>1, <3>2, <3>5
    <3>7. PICK ks : ks = After(w, n + 1, fs) OBVIOUS
    <3>8. ks = [hs EXCEPT ![plan[n + 1].file] = plan[n + 1].to]
      BY <3>4, <3>5, <3>7, AfterOneMore
    <3>9. Safe(plan, n + 1, ks) BY <2>3, <3>6, <3>8, SafeGoesOn
    <3> QED BY <3>2, <3>7, <3>9
  <2> QED BY <2>4, <2>5
<1>4. L \in S
  <2> HIDE DEF S, L
  <2> QED BY <1>1, <1>2, <1>3, Induction
<1>5. Safe(plan, L, Written(Without(plan, skipped), fs))
  <2>1. skipped \in SUBSET (Ignored(plan) \cap 1..L) BY <1>1
  <2>2. Len(Without(plan, skipped)) = L BY <1>1, WithoutIsSeq
  <2> QED BY <1>1, <1>4, <2>1, <2>2 DEF Written
<1> QED BY <1>5, SafeIsSound

-----------------------------------------------------------------------------
(* Writes that keep a store sound                                            *)

LEMMA NoneIsSafe == ASSUME NEW fs, Sound(fs) PROVE Safe(<<>>, 0, fs)
<1>1. PICK plan : plan = <<>> OBVIOUS
<1>2. Len(plan) = 0 BY <1>1
<1> QED BY <1>1, <1>2, SafeAtTheEnd

LEMMA OneIsSafe ==
    ASSUME NEW fs, Sound(fs), NEW w, w.failing # "ignore",
           Sound([fs EXCEPT ![w.file] = w.to])
    PROVE  Safe(<<w>>, 0, fs)
<1>1. PICK plan : plan = <<w>> OBVIOUS
<1>2. Len(plan) = 1 /\ plan[1] = w BY <1>1
<1>3. PICK gs : gs = [fs EXCEPT ![w.file] = w.to] OBVIOUS
<1>4. Safe(plan, 1, gs)
  <2>1. Len(plan) \in Nat /\ Sound(gs) BY <1>2, <1>3
  <2>2. Safe(plan, Len(plan), gs) BY <2>1, SafeAtTheEnd
  <2> QED BY <1>2, <2>2
<1>5. /\ gs = [fs EXCEPT ![plan[0 + 1].file] = plan[0 + 1].to] /\ 0 < Len(plan)
      /\ Safe(plan, 0 + 1, gs) /\ plan[0 + 1].failing # "ignore"
  <2>1. plan[0 + 1] = w /\ 0 < Len(plan) BY <1>2
  <2>2. gs = [fs EXCEPT ![plan[0 + 1].file] = plan[0 + 1].to] BY <1>3, <2>1
  <2>3. Safe(plan, 0 + 1, gs) BY <1>4
  <2> QED BY <2>1, <2>2, <2>3
<1>6. 0 \in Nat /\ Len(plan) \in Nat BY <1>2
<1> QED BY <1>1, <1>5, <1>6, SafeBefore

LEMMA DenyIsSafe ==
    ASSUME NEW fs, Sound(fs), NEW why, Nothing \notin Documents
    PROVE  Safe(<<Deny(why)>>, 0, fs)
<1>1. PICK w : w = Deny(why) OBVIOUS
<1>2. w.file = Nothing /\ w.failing = "denied" BY <1>1 DEF Deny
<1>3. DOMAIN fs = Documents /\ fs = [f \in Documents |-> fs[f]] BY DEF Sound, Sane
<1>4. [fs EXCEPT ![w.file] = w.to] = fs BY <1>2, <1>3
<1> QED BY <1>1, <1>2, <1>4, OneIsSafe

(* A document that is none of the two and no journal.                        *)
Aside(f) == f # "profile" /\ f # "compilations" /\ f \notin Approvals

LEMMA AsideIsSound ==
    ASSUME NEW fs, Sound(fs), NEW f, Aside(f), NEW v
    PROVE  Sound([fs EXCEPT ![f] = v])
<1>1. Decent(f, v) BY DEF Aside, Decent
<1>2. Sane([fs EXCEPT ![f] = v]) BY <1>1, WriteKeepsSane DEF Sound
<1>3. PICK gs : gs = [fs EXCEPT ![f] = v] OBVIOUS
<1>4. DOMAIN fs = Documents BY DEF Sound, Sane
<1>5. /\ gs["profile"] = fs["profile"] /\ gs["compilations"] = fs["compilations"]
      /\ \A g \in Approvals : gs[g] = fs[g]
  BY <1>3, <1>4 DEF Aside, Documents, Approvals
<1>6. Agreed(gs) BY <1>5 DEF Sound, Agreed
<1> QED BY <1>2, <1>3, <1>6 DEF Sound

LEMMA AsideIsSafe ==
    ASSUME NEW fs, Sound(fs), NEW f, Aside(f), NEW v
    PROVE  Safe(<<Put(f, v)>>, 0, fs)
<1>1. PICK w : w = Put(f, v) OBVIOUS
<1>2. w.file = f /\ w.to = v /\ w.failing = "raise" BY <1>1, PutSays
<1>3. Sound([fs EXCEPT ![w.file] = w.to]) BY <1>2, AsideIsSound
<1> QED BY <1>1, <1>2, <1>3, OneIsSafe

(* The compilations may grow.                                                *)
LEMMA GrowingIsSound ==
    ASSUME NEW fs, Sound(fs), NEW v, Consistent(v), Manifests(fs) \subseteq v.manifests
    PROVE  Sound([fs EXCEPT !["compilations"] = v])
<1>1. Decent("compilations", v) BY DEF Decent, Approvals
<1>2. Sane([fs EXCEPT !["compilations"] = v]) BY <1>1, WriteKeepsSane DEF Sound
<1>3. PICK gs : gs = [fs EXCEPT !["compilations"] = v] OBVIOUS
<1>4. DOMAIN fs = Documents BY DEF Sound, Sane
<1>5. /\ gs["profile"] = fs["profile"] /\ gs["compilations"] = v
      /\ \A g \in Approvals : gs[g] = fs[g]
  BY <1>3, <1>4 DEF Documents, Approvals
<1>6. Agreed(gs) BY <1>5 DEF Sound, Agreed, Made, Manifests
<1> QED BY <1>2, <1>3, <1>6 DEF Sound

LEMMA GrowingIsSafe ==
    ASSUME NEW fs, Sound(fs), NEW v, Consistent(v), Manifests(fs) \subseteq v.manifests
    PROVE  Safe(<<Put("compilations", v)>>, 0, fs)
<1>1. PICK w : w = Put("compilations", v) OBVIOUS
<1>2. w.file = "compilations" /\ w.to = v /\ w.failing = "raise" BY <1>1, PutSays
<1>3. Sound([fs EXCEPT ![w.file] = w.to]) BY <1>2, GrowingIsSound
<1> QED BY <1>1, <1>2, <1>3, OneIsSafe

-----------------------------------------------------------------------------
(* The compilations the methods write                                        *)

LEMMA MoreRevisionsFit ==
    ASSUME NEW fs, Sane(fs), NEW revs, IsSeq(revs), Latest(fs) <= Len(revs),
           \A i \in 1..Latest(fs) : revs[i] = Revisions(fs)[i],
           \A i \in 1..Len(revs) : IsRevision(revs[i])
    PROVE  Consistent(WithRevisions(fs, revs)) /\ WithRevisions(fs, revs).manifests = Manifests(fs)
<1>1. StoreOK(fs) BY SaneIsStore
<1>2. PICK c : c = WithRevisions(fs, revs) OBVIOUS
<1>3. PICK old : old = fs["compilations"] OBVIOUS
<1>4. IsCompilations(c) BY <1>1, <1>2, WithRevisionsFits
<1>5. old = [revisions |-> old.revisions, manifests |-> old.manifests]
  BY <1>1, <1>3, StoreHasCompilations DEF IsCompilations
<1>6. c = [old EXCEPT !.revisions = revs] BY <1>2, <1>3 DEF WithRevisions
<1>7. c.revisions = revs /\ c.manifests = old.manifests BY <1>5, <1>6
<1>8. Consistent(old) BY <1>3, SaneHolds
<1>9. Len(old.revisions) = Latest(fs) /\ Revisions(fs) = old.revisions
      /\ Latest(fs) \in Nat /\ Len(revs) \in Nat
  BY <1>1, <1>3, StoreHasCompilations DEF Latest, Revisions, IsSeq
<1>10. \A m \in c.manifests : /\ m.rev \in 1..Len(c.revisions)
                              /\ c.revisions[m.rev].status \in {"approved", "revoked"}
  BY <1>7, <1>8, <1>9 DEF Consistent
<1>11. Consistent(c) BY <1>4, <1>7, <1>10 DEF Consistent
<1> QED BY <1>2, <1>3, <1>7, <1>11 DEF Manifests

LEMMA DecidedSays ==
    ASSUME NEW fs, Sane(fs), NEW rev, NEW to, NEW who,
           NEW revs, revs = Decided(fs, rev, to, who)
    PROVE  /\ IsSeq(revs) /\ Len(revs) = Latest(fs)
           /\ \A i \in 1..Latest(fs) :
                 /\ IsRevision(revs[i])
                 /\ revs[i].status = IF i = rev THEN to ELSE Revisions(fs)[i].status
<1>1. StoreOK(fs) BY SaneIsStore
<1>2. PICK old : old = Revisions(fs) OBVIOUS
<1>3. IsSeq(old) /\ Len(old) = Latest(fs) /\ Latest(fs) \in Nat
  BY <1>1, <1>2, StoreHasCompilations DEF Latest
<1>4. IsSeq(revs) BY <1>1, DecidedIsSeq
<1>5. revs = [old EXCEPT ![rev].status = to, ![rev].decider = who]
  BY <1>2 DEF Decided
<1>6. DOMAIN old = 1..Latest(fs) BY <1>3 DEF IsSeq
<1>7. DOMAIN revs = 1..Latest(fs) BY <1>5, <1>6
<1>8. Len(revs) = Latest(fs) BY <1>3, <1>4, <1>7 DEF IsSeq
<1>9. \A i \in 1..Latest(fs) : IsRevision(old[i])
  BY <1>2, SaneHolds DEF Consistent, Revisions, Latest
<1>10. ASSUME NEW i \in 1..Latest(fs)
       PROVE  /\ IsRevision(revs[i])
              /\ revs[i].status = IF i = rev THEN to ELSE old[i].status
  <2>1. PICK r : r = old[i] OBVIOUS
  <2>2. r = [status |-> r.status, by |-> r.by, decider |-> r.decider]
    BY <1>9, <2>1 DEF IsRevision
  <2>3. CASE i = rev
    <3>1. PICK mid : mid = [old EXCEPT ![rev].status = to] OBVIOUS
    <3>2. mid[i] = [r EXCEPT !.status = to] /\ DOMAIN mid = DOMAIN old
      BY <1>6, <2>1, <2>3, <3>1
    <3>3. revs = [mid EXCEPT ![rev].decider = who] BY <1>5, <3>1
    <3>4. revs[i] = [mid[i] EXCEPT !.decider = who] BY <1>6, <2>3, <3>2, <3>3
    <3>5. mid[i] = [status |-> to, by |-> r.by, decider |-> r.decider] BY <2>2, <3>2
    <3>6. revs[i] = [status |-> to, by |-> r.by, decider |-> who] BY <3>4, <3>5
    <3> QED BY <2>3, <3>6 DEF IsRevision
  <2>4. CASE i # rev
    <3>1. revs[i] = old[i] BY <1>5, <1>6, <2>4
    <3> QED BY <1>9, <2>4, <3>1
  <2> QED BY <2>3, <2>4
<1> QED BY <1>2, <1>4, <1>8, <1>10

LEMMA DecidedFits ==
    ASSUME NEW fs, Sane(fs), NEW rev, NEW to, NEW who,
           to = "revoked" \/ Status(fs, rev) = "pending"
    PROVE  /\ Consistent(WithRevisions(fs, Decided(fs, rev, to, who)))
           /\ WithRevisions(fs, Decided(fs, rev, to, who)).manifests = Manifests(fs)
<1>1. StoreOK(fs) BY SaneIsStore
<1>2. PICK revs : revs = Decided(fs, rev, to, who) OBVIOUS
<1>3. /\ IsSeq(revs) /\ Len(revs) = Latest(fs)
      /\ \A i \in 1..Latest(fs) :
            /\ IsRevision(revs[i])
            /\ revs[i].status = IF i = rev THEN to ELSE Revisions(fs)[i].status
  BY <1>2, DecidedSays
<1>4. PICK c : c = WithRevisions(fs, revs) OBVIOUS
<1>5. PICK old : old = fs["compilations"] OBVIOUS
<1>6. IsCompilations(c) BY <1>1, <1>3, <1>4, WithRevisionsFits
<1>7. old = [revisions |-> old.revisions, manifests |-> old.manifests]
  BY <1>1, <1>5, StoreHasCompilations DEF IsCompilations
<1>8. c = [old EXCEPT !.revisions = revs] BY <1>4, <1>5 DEF WithRevisions
<1>9. c.revisions = revs /\ c.manifests = old.manifests BY <1>7, <1>8
<1>10. Consistent(old) /\ Latest(fs) = Len(old.revisions) /\ Revisions(fs) = old.revisions
  BY <1>5, SaneHolds DEF Latest, Revisions
<1>11. ASSUME NEW m \in c.manifests
       PROVE  /\ m.rev \in 1..Len(c.revisions)
              /\ c.revisions[m.rev].status \in {"approved", "revoked"}
  <2>1. /\ m.rev \in 1..Len(old.revisions)
        /\ old.revisions[m.rev].status \in {"approved", "revoked"}
    BY <1>9, <1>10, <1>11 DEF Consistent
  <2>2. m.rev = rev => to = "revoked" BY <1>10, <2>1 DEF Status
  <2> QED BY <1>3, <1>9, <1>10, <2>1, <2>2
<1>12. Consistent(c) BY <1>3, <1>6, <1>9, <1>11 DEF Consistent
<1> QED BY <1>2, <1>4, <1>5, <1>9, <1>12 DEF Manifests

(* What an approval makes of them.                                           *)
Approving(rev, who, fs) ==
    [revisions |-> Decided(fs, rev, "approved", who),
     manifests |-> Manifests(fs) \cup {[rev |-> rev, by |-> who]}]

LEMMA ApprovingFits ==
    ASSUME NEW fs, Sane(fs), NEW rev \in 1..Latest(fs), NEW who, NEW c, c = Approving(rev, who, fs)
    PROVE  /\ Consistent(c) /\ Manifests(fs) \subseteq c.manifests
           /\ \E m \in c.manifests : m.rev = rev
<1>1. PICK revs : revs = Decided(fs, rev, "approved", who) OBVIOUS
<1>2. /\ IsSeq(revs) /\ Len(revs) = Latest(fs)
      /\ \A i \in 1..Latest(fs) :
            /\ IsRevision(revs[i])
            /\ revs[i].status = IF i = rev THEN "approved" ELSE Revisions(fs)[i].status
  BY <1>1, DecidedSays
<1>3. PICK new : new = [rev |-> rev, by |-> who] OBVIOUS
<1>4. PICK made : made = Manifests(fs) \cup {new} OBVIOUS
<1>5. c = [revisions |-> revs, manifests |-> made] BY <1>1, <1>3, <1>4 DEF Approving
<1>6. c.revisions = revs /\ c.manifests = made BY <1>5
<1>7. IsCompilations(c) BY <1>2, <1>5 DEF IsCompilations
<1>8. \A m \in Manifests(fs) : /\ m.rev \in 1..Latest(fs)
                               /\ Revisions(fs)[m.rev].status \in {"approved", "revoked"}
  BY SaneHolds DEF Consistent, Latest, Revisions, Manifests
<1>9. new.rev = rev BY <1>3
<1>10. ASSUME NEW m \in made
       PROVE  m.rev \in 1..Len(revs) /\ revs[m.rev].status \in {"approved", "revoked"}
  <2>1. CASE m = new BY <1>2, <1>9, <2>1
  <2>2. CASE m \in Manifests(fs) BY <1>2, <1>8, <2>2
  <2> QED BY <1>4, <2>1, <2>2
<1>11. Consistent(c) BY <1>2, <1>6, <1>7, <1>10 DEF Consistent
<1> QED BY <1>4, <1>6, <1>9, <1>11

LEMMA ProposedIsRevision == \A who : IsRevision(Proposed(who))
BY DEF Proposed, IsRevision

LEMMA SaveIsSafe ==
    ASSUME NEW fs, Sound(fs), Nothing \notin Documents, NEW rev, NEW proposal, IsRevision(proposal)
    PROVE  Safe(SaveWrites(rev, proposal, fs), 0, fs)
<1>1. Safe(<<>>, 0, fs) /\ Safe(<<Deny("rejected")>>, 0, fs) BY NoneIsSafe, DenyIsSafe
<1>2. Sane(fs) BY DEF Sound
<1>3. StoreOK(fs) BY <1>2, SaneIsStore
<1>4. IsSeq(Revisions(fs)) /\ Latest(fs) \in Nat BY <1>3, StoreHasCompilations
<1>5. PICK revs : revs = Append(Revisions(fs), proposal) OBVIOUS
<1>6. /\ IsSeq(revs) /\ Len(revs) = Latest(fs) + 1
      /\ \A i \in 1..Latest(fs) : revs[i] = Revisions(fs)[i]
      /\ revs[Latest(fs) + 1] = proposal
  BY <1>4, <1>5, AppendIsSeq DEF Latest
<1>7. \A i \in 1..Latest(fs) : IsRevision(Revisions(fs)[i])
  BY <1>2, SaneHolds DEF Consistent, Revisions, Latest
<1>8. Latest(fs) <= Len(revs) /\ \A i \in 1..Len(revs) : IsRevision(revs[i])
  BY <1>4, <1>6, <1>7
<1>9. PICK c : c = WithRevisions(fs, revs) OBVIOUS
<1>10. Consistent(c) /\ c.manifests = Manifests(fs)
  BY <1>2, <1>6, <1>8, <1>9, MoreRevisionsFit
<1>11. Safe(<<Put("compilations", c)>>, 0, fs) BY <1>10, GrowingIsSafe
<1> QED BY <1>1, <1>5, <1>9, <1>11, Zenon DEF SaveWrites

LEMMA DecideIsSafe ==
    ASSUME NEW fs, Sound(fs), Nothing \notin Documents, NEW rev, NEW to, NEW who, NEW expected,
           to = "revoked" \/ expected = "pending"
    PROVE  Safe(DecideWrites(rev, to, who, expected, fs), 0, fs)
<1>1. Safe(<<Deny("rejected")>>, 0, fs) BY DenyIsSafe
<1>2. PICK c : c = WithRevisions(fs, Decided(fs, rev, to, who)) OBVIOUS
<1>3. ASSUME Status(fs, rev) = expected PROVE Safe(<<Put("compilations", c)>>, 0, fs)
  <2>1. Consistent(c) /\ c.manifests = Manifests(fs) BY <1>2, <1>3, DecidedFits DEF Sound
  <2> QED BY <2>1, GrowingIsSafe
<1> QED BY <1>1, <1>2, <1>3, Zenon DEF DecideWrites

LEMMA CreateIsSafe ==
    ASSUME NEW fs, Sound(fs), Nothing \notin Documents, NEW op, NEW plan \in CreatePlans(op, fs)
    PROVE  Safe(plan, 0, fs)
<1>1. Safe(<<>>, 0, fs) /\ Safe(<<Deny("rejected")>>, 0, fs) BY NoneIsSafe, DenyIsSafe
<1>2. PICK v : v = [rel |-> op.rel, manifest |-> 0] OBVIOUS
<1>3. PICK entries : entries = fs["registry"] \cup {op.rel} OBVIOUS
<1>4. PICK a : a = Put("profile", v) OBVIOUS
<1>5. PICK b : b = Put("registry", entries) OBVIOUS
<1>6. CASE plan = <<a, b>>
  <2>1. a.file = "profile" /\ a.to = v /\ a.failing = "raise" BY <1>4, PutSays
  <2>2. b.file = "registry" /\ b.to = entries /\ b.failing = "raise" BY <1>5, PutSays
  <2>3. Len(plan) = 2 /\ plan[1] = a /\ plan[2] = b BY <1>6
  <2>4. PICK gs : gs = [fs EXCEPT !["profile"] = v] OBVIOUS
  <2>5. IsProfile(v) /\ v.manifest = 0 BY <1>2 DEF IsProfile
  <2>6. Sound(gs)
    <3>1. Decent("profile", v) BY <2>5 DEF Decent, Approvals
    <3>2. Sane(gs) BY <2>4, <3>1, WriteKeepsSane DEF Sound
    <3>3. DOMAIN fs = Documents BY DEF Sound, Sane
    <3>4. gs["profile"] = v BY <2>4, <3>3 DEF Documents
    <3> QED BY <2>5, <3>2, <3>4 DEF Sound, Agreed, Made
  <2>7. PICK hs : hs = [gs EXCEPT !["registry"] = entries] OBVIOUS
  <2>8. Sound(hs)
    <3>1. Aside("registry") BY DEF Aside, Approvals
    <3> QED BY <2>6, <2>7, <3>1, AsideIsSound
  <2>9. Safe(plan, 2, hs)
    <3>1. Len(plan) \in Nat BY <2>3
    <3>2. Safe(plan, Len(plan), hs) BY <2>8, <3>1, SafeAtTheEnd
    <3> QED BY <2>3, <3>2
  <2>10. Safe(plan, 1, gs)
    <3>1. 1 \in Nat /\ 1 < Len(plan) /\ Len(plan) \in Nat /\ 1 + 1 = 2 BY <2>3
    <3>2. plan[1 + 1] = b BY <2>3, <3>1
    <3>3. hs = [gs EXCEPT ![plan[1 + 1].file] = plan[1 + 1].to] BY <2>2, <2>7, <3>2
    <3>4. Safe(plan, 1 + 1, hs) /\ plan[1 + 1].failing # "ignore" BY <2>2, <2>9, <3>1, <3>2
    <3> QED BY <2>6, <3>1, <3>3, <3>4, SafeBefore
  <2> QED
    <3>1. 0 \in Nat /\ 0 < Len(plan) /\ Len(plan) \in Nat /\ 0 + 1 = 1 BY <2>3
    <3>2. plan[0 + 1] = a BY <2>3, <3>1
    <3>3. gs = [fs EXCEPT ![plan[0 + 1].file] = plan[0 + 1].to] BY <2>1, <2>4, <3>2
    <3>4. Safe(plan, 0 + 1, gs) /\ plan[0 + 1].failing # "ignore" BY <2>1, <2>10, <3>1, <3>2
    <3> QED BY <3>1, <3>3, <3>4, SafeBefore
<1>7. plan = <<>> \/ plan = <<Deny("rejected")>> \/ plan = <<a, b>>
  BY <1>2, <1>3, <1>4, <1>5, Zenon DEF CreatePlans
<1> QED BY <1>1, <1>6, <1>7

-----------------------------------------------------------------------------
(* The approval                                                              *)

(* From its (d+1)st write on a plan installs an image.                       *)
Installs(plan, d, image, file) ==
    /\ d + 3 <= Len(plan)
    /\ plan[d + 1].file = "compilations" /\ plan[d + 1].to = image.compilations
    /\ plan[d + 2].file = "profile" /\ plan[d + 2].to = image.profile
    /\ plan[d + 3].file = file /\ plan[d + 3].to = Absent
    /\ plan[d + 1].failing # "ignore" /\ plan[d + 2].failing # "ignore"

(* What is there then: the journal may be left.                              *)
Installed(image, file, fs, gs) ==
    /\ gs["compilations"] = image.compilations /\ gs["profile"] = image.profile
    /\ gs[file] \in {image, Absent}
    /\ \A f \in Approvals \ {file} : gs[f] = fs[f]

LEMMA InstallIsSafe ==
    ASSUME NEW plan, Len(plan) \in Nat, NEW d \in Nat, NEW image, NEW file \in Approvals,
           image # Absent, IsImage(image), Installs(plan, d, image, file),
           NEW fs, Sound(fs), fs[file] = image,
           \A gs : Sound(gs) /\ Installed(image, file, fs, gs) => Safe(plan, d + 3, gs)
    PROVE  Safe(plan, d, fs)
<1>1. PICK a, b, c : a = plan[d + 1] /\ b = plan[d + 2] /\ c = plan[d + 3] OBVIOUS
<1>2. /\ a.file = "compilations" /\ a.to = image.compilations /\ a.failing # "ignore"
      /\ b.file = "profile" /\ b.to = image.profile /\ b.failing # "ignore"
      /\ c.file = file /\ c.to = Absent /\ d + 3 <= Len(plan)
  BY <1>1 DEF Installs
<1>3. PICK s1 : s1 = [fs EXCEPT ![a.file] = a.to] OBVIOUS
<1>4. PICK s2 : s2 = [s1 EXCEPT ![b.file] = b.to] OBVIOUS
<1>5. PICK s3 : s3 = [s2 EXCEPT ![c.file] = c.to] OBVIOUS
<1>6. Sane(fs) /\ DOMAIN fs = Documents BY DEF Sound, Sane
<1>7. Decent(a.file, a.to) /\ Decent(b.file, b.to) /\ Decent(c.file, c.to)
  BY <1>2 DEF Decent, IsImage, Approvals
<1>8. Sane(s1) BY <1>3, <1>6, <1>7, WriteKeepsSane
<1>9. Sane(s2) BY <1>4, <1>7, <1>8, WriteKeepsSane
<1>10. Sane(s3) BY <1>5, <1>7, <1>9, WriteKeepsSane
<1>a. DOMAIN s1 = Documents /\ DOMAIN s2 = Documents BY <1>8, <1>9 DEF Sane
<1>b. file \in Documents /\ file # "compilations" /\ file # "profile"
      /\ "compilations" \in Documents /\ "profile" \in Documents
      /\ Approvals \subseteq Documents
      /\ "compilations" \notin Approvals /\ "profile" \notin Approvals
  BY DEF Approvals, Documents
<1>11. /\ s1["compilations"] = image.compilations /\ \A f \in Approvals : s1[f] = fs[f]
  BY <1>2, <1>3, <1>6, <1>b
<1>12. /\ s2["compilations"] = image.compilations /\ s2["profile"] = image.profile
       /\ \A f \in Approvals : s2[f] = fs[f]
  BY <1>2, <1>4, <1>11, <1>a, <1>b
<1>13. /\ s3["compilations"] = image.compilations /\ s3["profile"] = image.profile
       /\ s3[file] = Absent /\ \A f \in Approvals \ {file} : s3[f] = fs[f]
  BY <1>2, <1>5, <1>12, <1>a, <1>b
<1>14. Sound(s1) BY <1>8, <1>11 DEF Sound, Agreed
<1>15. Sound(s2) BY <1>9, <1>12 DEF Sound, Agreed
<1>16. Sound(s3) BY <1>10, <1>13 DEF Sound, Agreed, IsImage
<1>17. Installed(image, file, fs, s2) BY <1>12 DEF Installed
<1>18. Installed(image, file, fs, s3) BY <1>13 DEF Installed
<1>19. Safe(plan, d + 3, s2) /\ Safe(plan, d + 3, s3) BY <1>15, <1>16, <1>17, <1>18
<1>20. Safe(plan, d + 2, s2)
  <2>1. d + 2 \in Nat /\ d + 2 < Len(plan) /\ (d + 2) + 1 = d + 3 BY <1>2
  <2>2. plan[(d + 2) + 1] = c BY <1>1, <2>1
  <2>3. s3 = [s2 EXCEPT ![plan[(d + 2) + 1].file] = plan[(d + 2) + 1].to] BY <1>5, <2>2
  <2>4. Safe(plan, (d + 2) + 1, s2) /\ Safe(plan, (d + 2) + 1, s3) BY <1>19, <2>1
  <2> QED BY <1>15, <2>1, <2>3, <2>4, SafeBefore
<1>21. Safe(plan, d + 1, s1)
  <2>1. d + 1 \in Nat /\ d + 1 < Len(plan) /\ (d + 1) + 1 = d + 2 BY <1>2
  <2>2. plan[(d + 1) + 1] = b BY <1>1, <2>1
  <2>3. s2 = [s1 EXCEPT ![plan[(d + 1) + 1].file] = plan[(d + 1) + 1].to] BY <1>4, <2>2
  <2>4. Safe(plan, (d + 1) + 1, s2) /\ plan[(d + 1) + 1].failing # "ignore"
    BY <1>2, <1>20, <2>1, <2>2
  <2> QED BY <1>14, <2>1, <2>3, <2>4, SafeBefore
<1> QED
  <2>1. d < Len(plan) BY <1>2
  <2>3. s1 = [fs EXCEPT ![plan[d + 1].file] = plan[d + 1].to] BY <1>1, <1>3
  <2>4. Safe(plan, d + 1, s1) /\ plan[d + 1].failing # "ignore" BY <1>1, <1>2, <1>21
  <2> QED BY <2>1, <2>3, <2>4, SafeBefore

LEMMA InstallSays ==
    ASSUME NEW image, NEW file, NEW failing \in {"raise", "again"},
           NEW plan, plan = Install(image, file, failing)
    PROVE  IsSeq(plan) /\ Len(plan) = 3 /\ Installs(plan, 0, image, file)
<1> DEFINE a == [Put("compilations", image.compilations) EXCEPT !.failing = failing]
           b == [Put("profile", image.profile) EXCEPT !.failing = failing]
           c == [Put(file, Absent) EXCEPT !.failing = "ignore"]
<1>1. /\ a.file = "compilations" /\ a.to = image.compilations /\ a.failing = failing
      /\ b.file = "profile" /\ b.to = image.profile /\ b.failing = failing
      /\ c.file = file /\ c.to = Absent /\ c.failing = "ignore"
  BY DEF Put
<1>2. plan = <<a, b, c>> BY Zenon DEF Install
<1> HIDE DEF a, b, c
<1>3. /\ plan \in Seq({a, b, c}) /\ Len(plan) = 3
      /\ plan[1] = a /\ plan[2] = b /\ plan[3] = c
  BY <1>2
<1>4. /\ plan[0 + 1] = a /\ plan[0 + 2] = b /\ plan[0 + 3] = c /\ 0 + 3 <= Len(plan)
  BY <1>3
<1>5. Installs(plan, 0, image, file) BY <1>1, <1>4 DEF Installs
<1> QED BY <1>3, <1>5, SeqIsSeq

LEMMA ConcatSays ==
    ASSUME NEW s, NEW r, IsSeq(s), IsSeq(r), NEW plan, plan = s \o r
    PROVE  /\ IsSeq(plan) /\ Len(plan) = Len(s) + Len(r)
           /\ \A i \in 1..Len(s) : plan[i] = s[i]
           /\ \A i \in 1..Len(r) : plan[Len(s) + i] = r[i]
BY ConcatIsSeq

LEMMA ConcatInstalls ==
    ASSUME NEW s, NEW r, IsSeq(s), IsSeq(r), NEW image, NEW file, NEW plan, plan = s \o r
    PROVE  /\ Installs(s, 0, image, file) => Installs(plan, 0, image, file)
           /\ \A d \in Nat : Installs(r, d, image, file) => Installs(plan, Len(s) + d, image, file)
<1>1. /\ Len(plan) = Len(s) + Len(r) /\ Len(s) \in Nat /\ Len(r) \in Nat
      /\ \A i \in 1..Len(s) : plan[i] = s[i]
      /\ \A i \in 1..Len(r) : plan[Len(s) + i] = r[i]
  BY ConcatIsSeq DEF IsSeq
<1>2. ASSUME Installs(s, 0, image, file) PROVE Installs(plan, 0, image, file)
  <2>1. 0 + 3 <= Len(s) BY <1>2 DEF Installs
  <2>2. 0 + 3 <= Len(plan) /\ 0 + 1 \in 1..Len(s) /\ 0 + 2 \in 1..Len(s) /\ 0 + 3 \in 1..Len(s)
    BY <1>1, <2>1
  <2>3. plan[0 + 1] = s[0 + 1] /\ plan[0 + 2] = s[0 + 2] /\ plan[0 + 3] = s[0 + 3]
    BY <1>1, <2>2
  <2> QED BY <1>2, <2>2, <2>3 DEF Installs
<1>3. ASSUME NEW d \in Nat, Installs(r, d, image, file)
      PROVE  Installs(plan, Len(s) + d, image, file)
  <2>1. d + 3 <= Len(r) BY <1>3 DEF Installs
  <2>2. /\ (Len(s) + d) + 3 <= Len(plan)
        /\ d + 1 \in 1..Len(r) /\ d + 2 \in 1..Len(r) /\ d + 3 \in 1..Len(r)
        /\ (Len(s) + d) + 1 = Len(s) + (d + 1) /\ (Len(s) + d) + 2 = Len(s) + (d + 2)
        /\ (Len(s) + d) + 3 = Len(s) + (d + 3)
    BY <1>1, <2>1
  <2>3. /\ plan[(Len(s) + d) + 1] = r[d + 1] /\ plan[(Len(s) + d) + 2] = r[d + 2]
        /\ plan[(Len(s) + d) + 3] = r[d + 3]
    BY <1>1, <2>2
  <2> QED BY <1>3, <2>2, <2>3 DEF Installs
<1> QED BY <1>2, <1>3

(* A journal that was there is installed, and what comes then finds its      *)
(* image.                                                                    *)
Completed(rev, fs, gs) ==
    LET file == ApprovalJournal(rev)
    IN  IF fs[file] = Absent THEN gs = fs ELSE Installed(fs[file], file, fs, gs)

LEMMA LeftoverIsSafe ==
    ASSUME NEW fs, Sound(fs), NEW rev, NEW r, IsSeq(r), NEW left, left = Leftover(rev, fs),
           NEW plan, plan = left \o r,
           \A gs : Sound(gs) /\ Completed(rev, fs, gs) => Safe(plan, Len(left), gs)
    PROVE  Safe(plan, 0, fs)
<1>1. PICK file : file = ApprovalJournal(rev) OBVIOUS
<1>2. file \in Approvals BY <1>1, JournalIsApproval
<1>3. PICK image : image = fs[file] OBVIOUS
<1>4. CASE image = Absent
  <2>1. left = <<>> BY <1>1, <1>3, <1>4, Zenon DEF Leftover
  <2>2. Completed(rev, fs, fs) BY <1>1, <1>3, <1>4 DEF Completed
  <2>3. Len(left) = 0 BY <2>1
  <2> QED BY <2>2, <2>3
<1>5. CASE image # Absent
  <2>1. left = Install(image, file, "raise") BY <1>1, <1>3, <1>5, Zenon DEF Leftover
  <2>2. IsSeq(left) /\ Len(left) = 3 /\ Installs(left, 0, image, file)
    BY <2>1, InstallSays
  <2>3. Installs(plan, 0, image, file) BY <2>2, ConcatInstalls
  <2>4. Len(plan) \in Nat BY <2>2, ConcatIsSeq DEF IsSeq
  <2>5. IsImage(image) BY <1>2, <1>3, <1>5, SaneHolds DEF Sound
  <2>6. ASSUME NEW gs, Sound(gs), Installed(image, file, fs, gs) PROVE Safe(plan, 0 + 3, gs)
    <3>1. Completed(rev, fs, gs) BY <1>1, <1>3, <1>5, <2>6 DEF Completed
    <3>2. Safe(plan, Len(left), gs) BY <2>6, <3>1
    <3> QED BY <2>2, <3>2
  <2>7. 0 \in Nat OBVIOUS
  <2> QED BY <1>2, <1>3, <1>5, <2>3, <2>4, <2>5, <2>6, <2>7, InstallIsSafe
<1> QED BY <1>4, <1>5

LEMMA LeftoverIsSeq ==
    ASSUME NEW rev, NEW fs, NEW left, left = Leftover(rev, fs)
    PROVE  IsSeq(left)
<1>1. PICK image, file : image = fs[ApprovalJournal(rev)] /\ file = ApprovalJournal(rev) OBVIOUS
<1>2. left = <<>> \/ left = Install(image, file, "raise") BY <1>1, Zenon DEF Leftover
<1>3. left = Install(image, file, "raise") => IsSeq(left) BY InstallSays
<1> QED BY <1>2, <1>3, EmptyIsSeq

(* Opening a root replays one journal after the other.                       *)
LEMMA ReplaysAreSafe ==
    ASSUME NEW fs, Sound(fs)
    PROVE  Safe(Replays(fs), 0, fs)
<1>1. PICK left : left = Leftover(1, fs) OBVIOUS
<1>2. PICK right : right = Leftover(2, fs) OBVIOUS
<1>3. PICK plan : plan = left \o right OBVIOUS
<1>4. IsSeq(left) /\ IsSeq(right) BY <1>1, <1>2, LeftoverIsSeq
<1>5. Len(plan) = Len(left) + Len(right) /\ Len(left) \in Nat /\ Len(right) \in Nat
      /\ Len(plan) \in Nat
  BY <1>3, <1>4, ConcatIsSeq DEF IsSeq
<1>6. PICK file : file = ApprovalJournal(2) OBVIOUS
<1>7. file \in Approvals /\ file # ApprovalJournal(1)
  <2>1. 2 # 1 OBVIOUS
  <2>2. file = "approval of 2" BY <1>6, <2>1 DEF ApprovalJournal
  <2>3. ApprovalJournal(1) = "approval of 1" BY DEF ApprovalJournal
  <2> QED BY <2>2, <2>3 DEF Approvals
<1>8. PICK image : image = fs[file] OBVIOUS
<1>9. ASSUME NEW gs, Sound(gs), Completed(1, fs, gs) PROVE Safe(plan, Len(left), gs)
  <2>1. gs[file] = image BY <1>7, <1>8, <1>9 DEF Completed, Installed
  <2>2. CASE image = Absent
    <3>1. right = <<>> BY <1>2, <1>6, <1>8, <2>2, Zenon DEF Leftover
    <3>2. Len(plan) = Len(left) BY <1>5, <3>1
    <3> QED BY <1>5, <1>9, <3>2, SafeAtTheEnd
  <2>3. CASE image # Absent
    <3>1. right = Install(image, file, "raise") BY <1>2, <1>6, <1>8, <2>3, Zenon DEF Leftover
    <3>2. Len(right) = 3 /\ Installs(right, 0, image, file) BY <3>1, InstallSays
    <3>3. Installs(plan, Len(left) + 0, image, file) BY <1>3, <1>4, <3>2, ConcatInstalls
    <3>4. Len(left) + 0 = Len(left) /\ Len(left) + 3 = Len(plan) BY <1>5, <3>2
    <3>5. Installs(plan, Len(left), image, file) BY <3>3, <3>4
    <3>6. \A hs : Sound(hs) /\ Installed(image, file, gs, hs) => Safe(plan, Len(left) + 3, hs)
      BY <1>5, <3>4, SafeAtTheEnd
    <3>7. IsImage(image) BY <1>7, <1>8, <2>3, SaneHolds DEF Sound
    <3> QED BY <1>5, <1>7, <1>9, <2>1, <2>3, <3>5, <3>6, <3>7, InstallIsSafe
  <2> QED BY <2>2, <2>3
<1>10. Safe(plan, 0, fs) BY <1>1, <1>3, <1>4, <1>9, LeftoverIsSafe
<1> QED BY <1>1, <1>2, <1>3, <1>10, Zenon DEF Replays

(* What is there when a journal that was left is installed for sure.         *)
LEMMA LeftoverWritten ==
    ASSUME NEW fs, Sound(fs), NEW rev, NEW left, left = Leftover(rev, fs),
           NEW store, store = Written(left, fs)
    PROVE  Sound(store) /\ Completed(rev, fs, store) /\ store["receipts"] = fs["receipts"]
<1>1. PICK file : file = ApprovalJournal(rev) OBVIOUS
<1>2. file \in Approvals BY <1>1, JournalIsApproval
<1>3. PICK image : image = fs[file] OBVIOUS
<1>a. fs = [f \in DOMAIN fs |-> fs[f]] /\ DOMAIN fs = Documents BY DEF Sound, Sane
<1>4. CASE image = Absent
  <2>1. left = <<>> BY <1>1, <1>3, <1>4, Zenon DEF Leftover
  <2>2. Len(left) = 0 BY <2>1
  <2>3. store = fs BY <1>a, <2>2, AfterNone DEF Written
  <2> QED BY <1>1, <1>3, <1>4, <2>3 DEF Completed
<1>5. CASE image # Absent
  <2>1. left = Install(image, file, "raise") BY <1>1, <1>3, <1>5, Zenon DEF Leftover
  <2>2. Len(left) = 3 /\ Installs(left, 0, image, file) BY <2>1, InstallSays
  <2>3. IsImage(image) BY <1>2, <1>3, <1>5, SaneHolds DEF Sound
  <2>4. PICK a, b, c : a = left[1] /\ b = left[2] /\ c = left[3] OBVIOUS
  <2>5. /\ a.file = "compilations" /\ a.to = image.compilations
        /\ b.file = "profile" /\ b.to = image.profile
        /\ c.file = file /\ c.to = Absent
    <3>1. 0 + 1 = 1 /\ 0 + 2 = 2 /\ 0 + 3 = 3 OBVIOUS
    <3> QED BY <2>2, <2>4, <3>1 DEF Installs
  <2>6. PICK s1 : s1 = [fs EXCEPT ![a.file] = a.to] OBVIOUS
  <2>7. PICK s2 : s2 = [s1 EXCEPT ![b.file] = b.to] OBVIOUS
  <2>8. After(left, 0, fs) = fs BY <1>a, AfterNone
  <2>9. After(left, 1, fs) = s1
    <3>0. 0 \in Nat OBVIOUS
    <3>1. 0 + 1 = 1 OBVIOUS
    <3>2. After(left, 0 + 1, fs)
            = [After(left, 0, fs) EXCEPT ![left[0 + 1].file] = left[0 + 1].to]
      BY ONLY <3>0, AfterOneMore
    <3> QED BY <2>4, <2>6, <2>8, <3>1, <3>2
  <2>10. After(left, 2, fs) = s2
    <3>0. 1 \in Nat OBVIOUS
    <3>1. 1 + 1 = 2 OBVIOUS
    <3>2. After(left, 1 + 1, fs)
            = [After(left, 1, fs) EXCEPT ![left[1 + 1].file] = left[1 + 1].to]
      BY ONLY <3>0, AfterOneMore
    <3> QED BY <2>4, <2>7, <2>9, <3>1, <3>2
  <2>11. After(left, 3, fs) = [s2 EXCEPT ![c.file] = c.to]
    <3>0. 2 \in Nat OBVIOUS
    <3>1. 2 + 1 = 3 OBVIOUS
    <3>2. After(left, 2 + 1, fs)
            = [After(left, 2, fs) EXCEPT ![left[2 + 1].file] = left[2 + 1].to]
      BY ONLY <3>0, AfterOneMore
    <3> QED BY <2>4, <2>10, <3>1, <3>2
  <2>12. store = [s2 EXCEPT ![c.file] = c.to] BY <2>2, <2>11 DEF Written
  <2>13. Decent(a.file, a.to) /\ Decent(b.file, b.to) /\ Decent(c.file, c.to)
    BY <1>2, <2>3, <2>5 DEF Decent, IsImage, Approvals
  <2>14. Sane(s1) BY <2>6, <2>13, WriteKeepsSane DEF Sound
  <2>15. Sane(s2) BY <2>7, <2>13, <2>14, WriteKeepsSane
  <2>16. Sane(store)
    <3>1. Sane([s2 EXCEPT ![c.file] = c.to]) BY <2>13, <2>15, WriteKeepsSane
    <3> QED BY <2>12, <3>1
  <2>17. DOMAIN s1 = Documents /\ DOMAIN s2 = Documents BY <2>14, <2>15 DEF Sane
  <2>18. /\ file \in Documents /\ file # "compilations" /\ file # "profile"
         /\ "compilations" \in Documents /\ "profile" \in Documents
         /\ Approvals \subseteq Documents
         /\ "compilations" \notin Approvals /\ "profile" \notin Approvals
         /\ "receipts" \in Documents /\ "receipts" # file
    BY <1>2 DEF Approvals, Documents
  <2>19. /\ s1["compilations"] = image.compilations /\ s1["receipts"] = fs["receipts"]
         /\ \A f \in Approvals : s1[f] = fs[f]
    BY <1>a, <2>5, <2>6, <2>18
  <2>20. /\ s2["compilations"] = image.compilations /\ s2["profile"] = image.profile
         /\ s2["receipts"] = fs["receipts"] /\ \A f \in Approvals : s2[f] = fs[f]
    BY <2>5, <2>7, <2>17, <2>18, <2>19
  <2>21. /\ store["compilations"] = image.compilations /\ store["profile"] = image.profile
         /\ store["receipts"] = fs["receipts"]
         /\ store[file] = Absent /\ \A f \in Approvals \ {file} : store[f] = fs[f]
    BY <2>5, <2>12, <2>17, <2>18, <2>20
  <2>22. Installed(image, file, fs, store) BY <2>21 DEF Installed
  <2>23. Sound(store) BY <2>3, <2>16, <2>21 DEF Sound, Agreed, IsImage
  <2> QED BY <1>1, <1>3, <1>5, <2>21, <2>22, <2>23 DEF Completed
<1> QED BY <1>4, <1>5

(* An approval is journalled before it is installed.                         *)
LEMMA JournalledIsSafe ==
    ASSUME NEW plan, NEW d \in Nat, Len(plan) = d + 4, NEW image, NEW file \in Approvals,
           image # Absent, IsImage(image), Installs(plan, d + 1, image, file),
           plan[d + 1].file = file, plan[d + 1].to = image, plan[d + 1].failing # "ignore",
           NEW fs, Sound(fs)
    PROVE  Safe(plan, d, fs)
<1>1. PICK gs : gs = [fs EXCEPT ![file] = image] OBVIOUS
<1>2. DOMAIN fs = Documents /\ file \in Documents BY DEF Sound, Sane, Approvals, Documents
<1>3. gs[file] = image BY <1>1, <1>2
<1>4. Decent(file, image) BY DEF Decent, Approvals
<1>5. Sane(gs) BY <1>1, <1>4, WriteKeepsSane DEF Sound
<1>6. Sound(gs) BY <1>3, <1>5 DEF Sound, Agreed
<1>7. Len(plan) \in Nat /\ (d + 1) + 3 = Len(plan) /\ d + 1 \in Nat /\ d < Len(plan) OBVIOUS
<1>8. \A hs : Sound(hs) /\ Installed(image, file, gs, hs) => Safe(plan, (d + 1) + 3, hs)
  BY <1>7, SafeAtTheEnd
<1>9. Safe(plan, d + 1, gs) BY <1>3, <1>6, <1>7, <1>8, InstallIsSafe
<1> QED BY <1>1, <1>7, <1>9, SafeBefore

(* What an approval that is not refused is about to install.                 *)
LEMMA ApprovalImageFits ==
    ASSUME NEW fs, Sane(fs), NEW rev \in Nat \ {0}, NEW who, NEW rel, NEW expected,
           ~ApprovalRefused(rev, rel, who, expected, fs), AbsentIsNoImage,
           NEW image, image = ApprovalImage(rev, who, fs)
    PROVE  /\ IsImage(image) /\ image # Absent
           /\ image.profile.manifest = rev /\ Manifests(fs) \subseteq image.compilations.manifests
           /\ \E m \in image.compilations.manifests : m.rev = rev
<1>1. PICK c : c = Approving(rev, who, fs) OBVIOUS
<1>2. PICK old : old = fs["profile"] OBVIOUS
<1>3. PICK profile : profile = [old EXCEPT !.manifest = rev] OBVIOUS
<1>4. image = [compilations |-> c, profile |-> profile]
  BY <1>1, <1>2, <1>3, Zenon DEF ApprovalImage, Approving
<1>5. image.compilations = c /\ image.profile = profile /\ image # Absent
  BY <1>4 DEF AbsentIsNoImage
<1>6. old = [rel |-> old.rel, manifest |-> old.manifest] BY <1>2, SaneHolds DEF IsProfile
<1>7. profile = [rel |-> old.rel, manifest |-> rev] BY <1>3, <1>6
<1>8. IsProfile(profile) /\ profile.manifest = rev BY <1>7 DEF IsProfile
<1>9. rev \in 1..Latest(fs)
  <2>1. ~(rev > Latest(fs)) BY DEF ApprovalRefused
  <2>2. Latest(fs) \in Nat BY SaneIsStore, StoreHasCompilations
  <2> QED BY <2>1, <2>2
<1>10. /\ Consistent(c) /\ Manifests(fs) \subseteq c.manifests
       /\ \E m \in c.manifests : m.rev = rev
  BY <1>1, <1>9, ApprovingFits
<1> QED BY <1>5, <1>8, <1>10 DEF IsImage, Made

(* What an approval comes to.                                                *)
AtOnce(image) ==
    <<Put("compilations", image.compilations), Put("profile", image.profile)>>
LEMMA ApprovalIs ==
    ASSUME NEW rev, NEW rel, NEW who, NEW expected, NEW fs,
           NEW image, image = ApprovalImage(rev, who, fs),
           NEW right, right = Approval(rev, rel, who, expected, fs)
    PROVE  \/ right = <<>> \/ right = <<Deny("rejected")>>
           \/ /\ ~ApprovalRefused(rev, rel, who, expected, fs) /\ fs["receipts"] # Absent
              /\ right = AtOnce(image)
           \/ /\ ~ApprovalRefused(rev, rel, who, expected, fs) /\ fs["receipts"] = Absent
              /\ right = Journalled(image, rev)
BY Zenon DEF Approval, AtOnce

LEMMA JournalledSays ==
    ASSUME NEW image, NEW rev, NEW plan, plan = Journalled(image, rev)
    PROVE  /\ IsSeq(plan) /\ Len(plan) = 4
           /\ Installs(plan, 1, image, ApprovalJournal(rev))
           /\ plan[1].file = ApprovalJournal(rev) /\ plan[1].to = image
           /\ plan[1].failing = "raise"
<1>1. PICK file : file = ApprovalJournal(rev) OBVIOUS
<1>2. PICK w : w = Put(file, image) OBVIOUS
<1>3. w.file = file /\ w.to = image /\ w.failing = "raise" BY <1>2, PutSays
<1>4. PICK one : one = <<w>> OBVIOUS
<1>5. IsSeq(one) /\ Len(one) = 1 /\ one[1] = w BY <1>4, OneIsSeq
<1>6. PICK three : three = Install(image, file, "again") OBVIOUS
<1>7. IsSeq(three) /\ Len(three) = 3 /\ Installs(three, 0, image, file) BY <1>6, InstallSays
<1>8. plan = one \o three BY <1>1, <1>2, <1>4, <1>6, Zenon DEF Journalled
<1>9. IsSeq(plan) /\ Len(plan) = 4 /\ plan[1] = w
  <2>0. IsSeq(one) /\ IsSeq(three) /\ plan = one \o three BY <1>5, <1>7, <1>8
  <2>a. PICK s, t : s = one /\ t = three OBVIOUS
  <2>b. IsSeq(s) /\ IsSeq(t) /\ plan = s \o t BY <2>0, <2>a
  <2>c. /\ IsSeq(plan) /\ Len(plan) = Len(s) + Len(t)
        /\ \A i \in 1..Len(s) : plan[i] = s[i]
    <3>1. PICK u : u = s \o t OBVIOUS
    <3>2. IsSeq(u) /\ Len(u) = Len(s) + Len(t) /\ \A i \in 1..Len(s) : u[i] = s[i]
      BY ONLY <2>b, <3>1, ConcatIsSeq
    <3>3. plan = u BY <2>b, <3>1
    <3> QED BY <3>2, <3>3
  <2>1. /\ IsSeq(plan) /\ Len(plan) = Len(one) + Len(three)
        /\ \A i \in 1..Len(one) : plan[i] = one[i]
    BY ONLY <2>a, <2>c
  <2>2. 1 \in 1..Len(one) BY <1>5
  <2> QED BY <1>5, <1>7, <2>1, <2>2
<1>10. Installs(plan, Len(one) + 0, image, file) BY <1>5, <1>7, <1>8, ConcatInstalls
<1>11. Len(one) + 0 = 1 BY <1>5
<1> QED BY <1>1, <1>3, <1>9, <1>10, <1>11

GoesAtOnce(rev, rel, who, expected, fs) ==
    LET store == Written(Leftover(rev, fs), fs)
    IN  Approval(rev, rel, who, expected, store) = AtOnce(ApprovalImage(rev, who, store))

LEMMA ApproveIsSafe ==
    ASSUME NEW fs, Sound(fs), Nothing \notin Documents, AbsentIsNoImage, NEW rev \in Nat \ {0},
           NEW rel, NEW who, NEW expected, NEW plan,
           plan = ApproveAndBind(rev, rel, who, expected, fs),
           ~GoesAtOnce(rev, rel, who, expected, fs)
    PROVE  Safe(plan, 0, fs)
<1>a. PICK left : left = Leftover(rev, fs) OBVIOUS
<1>b. PICK store : store = Written(left, fs) OBVIOUS
<1>c. PICK right : right = Approval(rev, rel, who, expected, store) OBVIOUS
<1>d. PICK image : image = ApprovalImage(rev, who, store) OBVIOUS
<1>e. plan = left \o right BY <1>a, <1>b, <1>c, Zenon DEF ApproveAndBind
<1>f. right # AtOnce(image) BY <1>a, <1>b, <1>c, <1>d, Zenon DEF GoesAtOnce
<1>1. Sound(store) /\ store["receipts"] = fs["receipts"] BY <1>a, <1>b, LeftoverWritten
<1>2. IsSeq(left) BY <1>a, LeftoverIsSeq
<1>3. Len(left) \in Nat BY <1>2 DEF IsSeq
<1>4. \/ right = <<>> \/ right = <<Deny("rejected")>>
      \/ /\ ~ApprovalRefused(rev, rel, who, expected, store)
         /\ right = Journalled(image, rev)
  BY <1>c, <1>d, <1>f, ApprovalIs
<1>5. CASE right = <<>>
  <2>1. IsSeq(right) /\ Len(right) = 0 BY <1>5, EmptyIsSeq
  <2>2. Len(plan) = Len(left)
    <3>1. IsSeq(left) /\ IsSeq(right) /\ plan = left \o right BY <1>2, <1>e, <2>1
    <3>2. Len(plan) = Len(left) + Len(right) BY ONLY <3>1, ConcatSays
    <3> QED BY <1>3, <2>1, <3>2
  <2>3. \A gs : Sound(gs) => Safe(plan, Len(left), gs) BY <1>3, <2>2, SafeAtTheEnd
  <2> QED BY <1>a, <1>e, <2>1, <2>3, LeftoverIsSafe
<1>6. CASE right = <<Deny("rejected")>>
  <2>1. PICK w : w = Deny("rejected") OBVIOUS
  <2>2. w.file = Nothing /\ w.failing = "denied" BY <2>1 DEF Deny
  <2>3. IsSeq(right) /\ Len(right) = 1 /\ right[1] = w BY <1>6, <2>1, OneIsSeq
  <2>4. Len(plan) = Len(left) + 1 /\ plan[Len(left) + 1] = w
    <3>1. /\ Len(plan) = Len(left) + Len(right)
          /\ \A i \in 1..Len(right) : plan[Len(left) + i] = right[i]
      <4>1. IsSeq(left) /\ IsSeq(right) /\ plan = left \o right BY <1>2, <1>e, <2>3
      <4> QED BY ONLY <4>1, ConcatSays
    <3>2. 1 \in 1..Len(right) BY <2>3
    <3> QED BY <2>3, <3>1, <3>2
  <2>5. ASSUME NEW gs, Sound(gs) PROVE Safe(plan, Len(left), gs)
    <3>1. DOMAIN gs = Documents /\ gs = [f \in Documents |-> gs[f]] BY <2>5 DEF Sound, Sane
    <3>2. gs = [gs EXCEPT ![plan[Len(left) + 1].file] = plan[Len(left) + 1].to]
      BY <2>2, <2>4, <3>1
    <3>3. Safe(plan, Len(left) + 1, gs)
      <4>1. Len(plan) \in Nat BY <1>3, <2>4
      <4>2. Safe(plan, Len(plan), gs) BY <2>5, <4>1, SafeAtTheEnd
      <4> QED BY <2>4, <4>2
    <3>4. Len(left) < Len(plan) /\ Len(plan) \in Nat BY <1>3, <2>4
    <3>5. plan[Len(left) + 1].failing # "ignore" BY <2>2, <2>4
    <3> QED BY <1>3, <2>5, <3>2, <3>3, <3>4, <3>5, SafeBefore
  <2> QED BY <1>a, <1>e, <2>3, <2>5, LeftoverIsSafe
<1>7. CASE /\ ~ApprovalRefused(rev, rel, who, expected, store)
           /\ right = Journalled(image, rev)
  <2>1. PICK file : file = ApprovalJournal(rev) OBVIOUS
  <2>2. file \in Approvals BY <2>1, JournalIsApproval
  <2>3. IsImage(image) /\ image # Absent BY <1>1, <1>7, <1>d, ApprovalImageFits DEF Sound
  <2>4. /\ IsSeq(right) /\ Len(right) = 4 /\ Installs(right, 1, image, file)
        /\ right[1].file = file /\ right[1].to = image /\ right[1].failing = "raise"
    BY <1>7, <2>1, JournalledSays
  <2>5. Len(plan) = Len(left) + 4 /\ plan[Len(left) + 1] = right[1]
    <3>1. /\ Len(plan) = Len(left) + Len(right)
          /\ \A i \in 1..Len(right) : plan[Len(left) + i] = right[i]
      <4>1. IsSeq(left) /\ IsSeq(right) /\ plan = left \o right BY <1>2, <1>e, <2>4
      <4> QED BY ONLY <4>1, ConcatSays
    <3>2. 1 \in 1..Len(right) BY <2>4
    <3> QED BY <2>4, <3>1, <3>2
  <2>6. 1 \in Nat OBVIOUS
  <2>7. Installs(plan, Len(left) + 1, image, file) BY <1>2, <1>e, <2>4, <2>6, ConcatInstalls
  <2>8. /\ plan[Len(left) + 1].file = file /\ plan[Len(left) + 1].to = image
        /\ plan[Len(left) + 1].failing # "ignore"
    BY <2>4, <2>5
  <2>9. \A gs : Sound(gs) => Safe(plan, Len(left), gs)
    BY <1>3, <2>2, <2>3, <2>5, <2>7, <2>8, JournalledIsSafe
  <2> QED BY <1>a, <1>e, <2>4, <2>9, LeftoverIsSafe
<1> QED BY <1>4, <1>5, <1>6, <1>7

-----------------------------------------------------------------------------
(* What can be said of a plan without carrying it out                        *)

(* A write that leaves something decent: only the removal of a journal may be*)
(* lost, the firm documents stay, the Manifests in kept stay, and where the  *)
(* journals are firm nothing is pinned.                                      *)
Tame(w, kept, firm) ==
    /\ Decent(w.file, w.to)
    /\ w.failing = "ignore" => w.file \in Approvals
    /\ w.file \notin firm
    /\ w.file = "compilations" => kept \subseteq w.to.manifests
    /\ w.file = "profile" /\ firm # {} => w.to.manifest = 0

AllTame(plan, kept, firm) ==
    /\ IsSeq(plan)
    /\ \A i \in 1..Len(plan) : Tame(plan[i], kept, firm)

LEMMA TameNone == ASSUME NEW kept, NEW firm PROVE AllTame(<<>>, kept, firm)
BY EmptyIsSeq DEF AllTame

LEMMA TameOne ==
    ASSUME NEW w, NEW kept, NEW firm, Tame(w, kept, firm)
    PROVE  AllTame(<<w>>, kept, firm)
<1>1. PICK plan : plan = <<w>> OBVIOUS
<1>2. IsSeq(plan) /\ Len(plan) = 1 /\ plan[1] = w BY <1>1, OneIsSeq
<1>3. \A i \in 1..Len(plan) : plan[i] = w BY <1>2
<1>4. AllTame(plan, kept, firm) BY <1>2, <1>3 DEF AllTame
<1> QED BY <1>1, <1>4

LEMMA TameDeny ==
    ASSUME NEW why, NEW kept, NEW firm \in {{}, Approvals}, Nothing \notin Documents
    PROVE  AllTame(<<Deny(why)>>, kept, firm)
<1>1. PICK w : w = Deny(why) OBVIOUS
<1>2. w.file = Nothing /\ w.failing = "denied" BY <1>1 DEF Deny
<1>3. /\ Nothing # "profile" /\ Nothing # "compilations" /\ Nothing \notin Approvals
      /\ w.failing # "ignore"
  <2>1. "profile" \in Documents /\ "compilations" \in Documents /\ Approvals \subseteq Documents
    BY DEF Documents, Approvals
  <2>2. w.failing # "ignore" BY <1>2
  <2> QED BY <2>1, <2>2
<1>4. Nothing \notin firm BY <1>3
<1>5. Decent(Nothing, w.to) BY <1>3 DEF Decent
<1>6. Tame(w, kept, firm) BY <1>2, <1>3, <1>4, <1>5 DEF Tame
<1> QED BY <1>1, <1>6, TameOne

(* What a sequence that is two joined has is what the two have.              *)
Joined(u, s, r) ==
    /\ IsSeq(u)
    /\ \A i \in 1..Len(u) :
          (\E j \in 1..Len(s) : u[i] = s[j]) \/ (\E j \in 1..Len(r) : u[i] = r[j])
    /\ \A j \in 1..Len(s) : \E i \in 1..Len(u) : u[i] = s[j]
    /\ \A j \in 1..Len(r) : \E i \in 1..Len(u) : u[i] = r[j]

LEMMA ConcatElements ==
    ASSUME NEW s, NEW r, IsSeq(s), IsSeq(r), NEW u, u = s \o r
    PROVE  Joined(u, s, r)
<1>1. /\ IsSeq(u) /\ Len(u) = Len(s) + Len(r)
      /\ \A i \in 1..Len(s) : u[i] = s[i]
      /\ \A i \in 1..Len(r) : u[Len(s) + i] = r[i]
  BY ConcatIsSeq
<1>2. Len(s) \in Nat /\ Len(r) \in Nat BY DEF IsSeq
<1>3. ASSUME NEW i \in 1..Len(u)
      PROVE  (\E j \in 1..Len(s) : u[i] = s[j]) \/ (\E j \in 1..Len(r) : u[i] = r[j])
  <2>1. CASE i \in 1..Len(s) BY <1>1, <2>1
  <2>2. CASE i \notin 1..Len(s)
    <3>1. i - Len(s) \in 1..Len(r) /\ i = Len(s) + (i - Len(s)) BY <1>1, <1>2, <2>2
    <3> QED BY <1>1, <3>1
  <2> QED BY <2>1, <2>2
<1>4. ASSUME NEW j \in 1..Len(s) PROVE \E i \in 1..Len(u) : u[i] = s[j]
  <2>1. j \in 1..Len(u) BY <1>1, <1>2
  <2> QED BY <1>1, <2>1
<1>5. ASSUME NEW j \in 1..Len(r) PROVE \E i \in 1..Len(u) : u[i] = r[j]
  <2>1. Len(s) + j \in 1..Len(u) BY <1>1, <1>2
  <2> QED BY <1>1, <2>1
<1> QED BY <1>1, <1>3, <1>4, <1>5 DEF Joined

LEMMA TameConcat ==
    ASSUME NEW s, NEW r, NEW kept, NEW firm, AllTame(s, kept, firm), AllTame(r, kept, firm)
    PROVE  AllTame(s \o r, kept, firm)
<1>1. PICK u : u = s \o r OBVIOUS
<1>2. IsSeq(s) /\ IsSeq(r) /\ u = s \o r BY <1>1 DEF AllTame
<1>3. Joined(u, s, r) BY <1>2, ConcatElements
<1>4. AllTame(u, kept, firm) BY <1>3 DEF AllTame, Joined
<1> QED BY <1>1, <1>4

LEMMA AllowedConcat ==
    ASSUME NEW s, NEW r, IsSeq(s), IsSeq(r), ~Denied(s \o r)
    PROVE  ~Denied(s) /\ ~Denied(r)
<1>1. PICK u : u = s \o r OBVIOUS
<1>a. IsSeq(s) /\ IsSeq(r) /\ u = s \o r BY <1>1
<1>2. /\ IsSeq(u)
      /\ \A j \in 1..Len(s) : \E i \in 1..Len(u) : u[i] = s[j]
      /\ \A j \in 1..Len(r) : \E i \in 1..Len(u) : u[i] = r[j]
  <2>1. Joined(u, s, r) BY <1>a, ConcatElements
  <2> QED BY <2>1 DEF Joined
<1>3. DOMAIN s = 1..Len(s) /\ DOMAIN r = 1..Len(r) /\ DOMAIN u = 1..Len(u)
  BY <1>2 DEF IsSeq
<1>4. ~Denied(u) BY <1>1
<1>5. \A i \in 1..Len(u) : u[i].failing # "denied" BY <1>3, <1>4 DEF Denied
<1>6. \A j \in 1..Len(s) : s[j].failing # "denied" BY <1>2, <1>5
<1>7. \A j \in 1..Len(r) : r[j].failing # "denied" BY <1>2, <1>5
<1> QED BY <1>3, <1>6, <1>7 DEF Denied

(* Carried out, such a plan leaves decent documents, also when it is not     *)
(* carried out to the end or some of its writes were others of them.         *)
LEMMA TameAfter ==
    ASSUME NEW plan, NEW kept, NEW firm, NEW fs, Sane(fs), NEW n \in Nat,
           \A i \in 1..n : Tame(plan[i], kept, firm)
    PROVE  Sane(After(plan, n, fs))
<1>1. DOMAIN fs = Documents BY DEF Sane
<1>2. PICK gs : gs = After(plan, n, fs) OBVIOUS
<1>3. gs = [f \in Documents |-> gs[f]] BY <1>1, <1>2 DEF After
<1>4. ASSUME NEW f \in Documents PROVE Decent(f, gs[f])
  <2>1. \/ gs[f] = fs[f]
        \/ \E i \in 1..n : plan[i].file = f /\ gs[f] = plan[i].to
    BY <1>1, <1>2, AfterIsOldOrWritten
  <2>2. ASSUME NEW i \in 1..n, plan[i].file = f, gs[f] = plan[i].to PROVE Decent(f, gs[f])
    BY <2>2 DEF Tame
  <2> QED BY <2>1, <2>2 DEF Sane
<1> QED BY <1>2, <1>3, <1>4 DEF Sane

LEMMA TameWritten ==
    ASSUME NEW plan, NEW kept, NEW firm, AllTame(plan, kept, firm), NEW fs, Sane(fs),
           NEW gs, gs = Written(plan, fs)
    PROVE  /\ Sane(gs)
           /\ kept \subseteq Manifests(fs) => kept \subseteq Manifests(gs)
           /\ \A f \in firm : gs[f] = fs[f] \/ f \notin Documents
           /\ firm # {} => gs["profile"].manifest \in {0, fs["profile"].manifest}
<1>1. Len(plan) \in Nat /\ \A i \in 1..Len(plan) : Tame(plan[i], kept, firm)
  BY DEF AllTame, IsSeq
<1>2. gs = After(plan, Len(plan), fs) BY DEF Written
<1>3. Sane(gs) BY <1>1, <1>2, TameAfter
<1>4. DOMAIN fs = Documents BY DEF Sane
<1>5. ASSUME NEW f \in Documents
      PROVE  \/ gs[f] = fs[f]
             \/ \E i \in 1..Len(plan) : plan[i].file = f /\ gs[f] = plan[i].to
  BY <1>1, <1>2, <1>4, AfterIsOldOrWritten
<1>6. ASSUME kept \subseteq Manifests(fs) PROVE kept \subseteq Manifests(gs)
  <2>1. "compilations" \in Documents BY DEF Documents
  <2>2. CASE gs["compilations"] = fs["compilations"] BY <1>6, <2>2 DEF Manifests
  <2>3. ASSUME NEW i \in 1..Len(plan), plan[i].file = "compilations",
               gs["compilations"] = plan[i].to
        PROVE  kept \subseteq Manifests(gs)
    BY <1>1, <2>3 DEF Tame, Manifests
  <2> QED BY <1>5, <2>1, <2>2, <2>3
<1>7. \A f \in firm : gs[f] = fs[f] \/ f \notin Documents BY <1>1, <1>5 DEF Tame
<1>8. firm # {} => gs["profile"].manifest \in {0, fs["profile"].manifest}
  <2>1. "profile" \in Documents BY DEF Documents
  <2> QED BY <1>1, <1>5, <2>1 DEF Tame
<1> QED BY <1>3, <1>6, <1>7, <1>8

-----------------------------------------------------------------------------
(* What the methods write is tame                                            *)

LEMMA CompilationsAreTame ==
    ASSUME NEW v, Consistent(v), NEW kept, kept \subseteq v.manifests,
           NEW firm \in {{}, Approvals}
    PROVE  AllTame(<<Put("compilations", v)>>, kept, firm)
<1>1. PICK w : w = Put("compilations", v) OBVIOUS
<1>2. w.file = "compilations" /\ w.to = v /\ w.failing = "raise" BY <1>1, PutSays
<1>3. Decent("compilations", v) /\ "compilations" \notin firm BY DEF Decent, Approvals
<1>4. Tame(w, kept, firm) BY <1>2, <1>3 DEF Tame
<1> QED BY <1>1, <1>4, TameOne

LEMMA ProfileIsTame ==
    ASSUME NEW v, IsProfile(v), NEW kept, NEW firm \in {{}, Approvals},
           firm = {} \/ v.manifest = 0
    PROVE  AllTame(<<Put("profile", v)>>, kept, firm)
<1>1. PICK w : w = Put("profile", v) OBVIOUS
<1>2. w.file = "profile" /\ w.to = v /\ w.failing = "raise" BY <1>1, PutSays
<1>3. Decent("profile", v) /\ "profile" \notin firm BY DEF Decent, Approvals
<1>4. Tame(w, kept, firm) BY <1>2, <1>3 DEF Tame
<1> QED BY <1>1, <1>4, TameOne

LEMMA ApproveIsTame ==
    ASSUME NEW fs, Sane(fs), Nothing \notin Documents, NEW rev \in Nat \ {0}, NEW who,
           NEW expected, NEW kept, kept \subseteq Manifests(fs), NEW firm \in {{}, Approvals}
    PROVE  AllTame(ApproveWrites(rev, who, expected, fs), kept, firm)
<1>1. AllTame(<<>>, kept, firm) BY TameNone
<1>2. AllTame(<<Deny("rejected")>>, kept, firm) BY TameDeny
<1>3. PICK c : c = Approving(rev, who, fs) OBVIOUS
<1>4. Latest(fs) \in Nat BY SaneIsStore, StoreHasCompilations
<1>5. ASSUME ~(rev > Latest(fs)) PROVE AllTame(<<Put("compilations", c)>>, kept, firm)
  <2>1. rev \in 1..Latest(fs) BY <1>4, <1>5
  <2>2. Consistent(c) /\ Manifests(fs) \subseteq c.manifests BY <1>3, <2>1, ApprovingFits
  <2>3. kept \subseteq c.manifests BY <2>2
  <2> QED BY <2>2, <2>3, CompilationsAreTame
<1>6. c = [revisions |-> Decided(fs, rev, "approved", who),
           manifests |-> Manifests(fs) \cup {[rev |-> rev, by |-> who]}]
  BY <1>3, Zenon DEF Approving
<1> QED BY <1>1, <1>2, <1>5, <1>6, Zenon DEF ApproveWrites

LEMMA DecideIsTame ==
    ASSUME NEW fs, Sane(fs), Nothing \notin Documents, NEW rev, NEW to, NEW who, NEW expected,
           to = "revoked" \/ expected = "pending",
           NEW kept, kept \subseteq Manifests(fs), NEW firm \in {{}, Approvals}
    PROVE  AllTame(DecideWrites(rev, to, who, expected, fs), kept, firm)
<1>1. AllTame(<<Deny("rejected")>>, kept, firm) BY TameDeny
<1>2. PICK c : c = WithRevisions(fs, Decided(fs, rev, to, who)) OBVIOUS
<1>3. ASSUME Status(fs, rev) = expected
      PROVE  AllTame(<<Put("compilations", c)>>, kept, firm)
  <2>1. Consistent(c) /\ c.manifests = Manifests(fs) BY <1>2, <1>3, DecidedFits
  <2> QED BY <2>1, CompilationsAreTame
<1> QED BY <1>1, <1>2, <1>3, Zenon DEF DecideWrites

LEMMA BindIsTame ==
    ASSUME NEW fs, Sane(fs), Nothing \notin Documents, NEW rev, NEW kept, NEW firm, firm = {}
    PROVE  AllTame(BindWrites(rev, fs), kept, firm)
<1>1. AllTame(<<>>, kept, firm) BY TameNone
<1>2. AllTame(<<Deny("rejected")>>, kept, firm) BY TameDeny
<1>3. PICK old : old = fs["profile"] OBVIOUS
<1>4. PICK v : v = [old EXCEPT !.manifest = rev] OBVIOUS
<1>5. old = [rel |-> old.rel, manifest |-> old.manifest] BY <1>3, SaneHolds DEF IsProfile
<1>6. v = [rel |-> old.rel, manifest |-> rev] BY <1>4, <1>5
<1>7. IsProfile(v) BY <1>6 DEF IsProfile
<1>8. AllTame(<<Put("profile", v)>>, kept, firm) BY <1>7, ProfileIsTame
<1> QED BY <1>1, <1>2, <1>3, <1>4, <1>8, Zenon DEF BindWrites

LEMMA InstallIsTame ==
    ASSUME NEW image, IsImage(image), NEW file \in Approvals, NEW failing \in {"raise", "again"},
           NEW kept, kept = {}, NEW firm, firm = {}
    PROVE  AllTame(Install(image, file, failing), kept, firm)
<1> DEFINE a == [Put("compilations", image.compilations) EXCEPT !.failing = failing]
           b == [Put("profile", image.profile) EXCEPT !.failing = failing]
           c == [Put(file, Absent) EXCEPT !.failing = "ignore"]
<1>1. /\ a.file = "compilations" /\ a.to = image.compilations /\ a.failing = failing
      /\ b.file = "profile" /\ b.to = image.profile /\ b.failing = failing
      /\ c.file = file /\ c.to = Absent /\ c.failing = "ignore"
  BY DEF Put
<1> HIDE DEF a, b, c
<1>2. Decent(a.file, a.to) /\ Decent(b.file, b.to) /\ Decent(c.file, c.to)
  BY <1>1 DEF Decent, IsImage, Approvals
<1>3. file # "compilations" /\ file # "profile" /\ failing # "ignore" BY DEF Approvals
<1>4. Tame(a, kept, firm) /\ Tame(b, kept, firm) /\ Tame(c, kept, firm)
  BY <1>1, <1>2, <1>3 DEF Tame
<1>5. PICK plan : plan = <<a, b, c>> OBVIOUS
<1>6. /\ plan \in Seq({a, b, c}) /\ Len(plan) = 3
      /\ plan[1] = a /\ plan[2] = b /\ plan[3] = c
  BY <1>5
<1>7. \A i \in 1..Len(plan) : i = 1 \/ i = 2 \/ i = 3 BY <1>6
<1>8. AllTame(plan, kept, firm) BY <1>4, <1>6, <1>7, SeqIsSeq DEF AllTame
<1> QED BY <1>5, <1>8, Zenon DEF Install, a, b, c

LEMMA LeftoverIsTame ==
    ASSUME NEW fs, Sane(fs), NEW rev, NEW kept, kept = {}, NEW firm, firm = {}
    PROVE  AllTame(Leftover(rev, fs), kept, firm)
<1>1. AllTame(<<>>, kept, firm) BY TameNone
<1>2. PICK file : file = ApprovalJournal(rev) OBVIOUS
<1>3. file \in Approvals BY <1>2, JournalIsApproval
<1>4. PICK image : image = fs[file] OBVIOUS
<1>5. ASSUME image # Absent PROVE AllTame(Install(image, file, "raise"), kept, firm)
  <2>1. IsImage(image) BY <1>3, <1>4, <1>5, SaneHolds
  <2> QED BY <1>3, <2>1, InstallIsTame
<1> QED BY <1>1, <1>2, <1>4, <1>5, Zenon DEF Leftover

LEMMA JournalledIsTame ==
    ASSUME NEW image, IsImage(image), NEW rev, NEW kept, kept = {}, NEW firm, firm = {}
    PROVE  AllTame(Journalled(image, rev), kept, firm)
<1>1. PICK file : file = ApprovalJournal(rev) OBVIOUS
<1>2. file \in Approvals BY <1>1, JournalIsApproval
<1>3. PICK w : w = Put(file, image) OBVIOUS
<1>4. w.file = file /\ w.to = image /\ w.failing = "raise" BY <1>3, PutSays
<1>5. Decent(file, image) /\ file # "compilations" /\ file # "profile"
  BY <1>2 DEF Decent, Approvals
<1>6. Tame(w, kept, firm) BY <1>4, <1>5 DEF Tame
<1>7. AllTame(<<w>>, kept, firm) BY <1>6, TameOne
<1>8. AllTame(Install(image, file, "again"), kept, firm) BY <1>2, InstallIsTame
<1>9. PICK one, three : one = <<w>> /\ three = Install(image, file, "again") OBVIOUS
<1>10. AllTame(one \o three, kept, firm) BY <1>7, <1>8, <1>9, TameConcat
<1> QED BY <1>1, <1>3, <1>9, <1>10, Zenon DEF Journalled

LEMMA TwoAreTame ==
    ASSUME NEW a, NEW b, NEW kept, NEW firm, AllTame(<<a>>, kept, firm),
           AllTame(<<b>>, kept, firm)
    PROVE  AllTame(<<a, b>>, kept, firm)
<1>1. PICK s, t : s = <<a>> /\ t = <<b>> OBVIOUS
<1>2. /\ IsSeq(s) /\ Len(s) = 1 /\ s[1] = a /\ IsSeq(t) /\ Len(t) = 1 /\ t[1] = b
  BY <1>1, OneIsSeq
<1>3. PICK u : u = s \o t OBVIOUS
<1>4. AllTame(u, kept, firm) BY <1>1, <1>3, TameConcat
<1>5. /\ IsSeq(u) /\ Len(u) = Len(s) + Len(t)
      /\ \A i \in 1..Len(s) : u[i] = s[i]
      /\ \A i \in 1..Len(t) : u[Len(s) + i] = t[i]
  <2>1. IsSeq(s) /\ IsSeq(t) BY <1>2
  <2> QED BY ONLY <1>3, <2>1, ConcatIsSeq
<1>6. 1 \in 1..Len(s) /\ 1 \in 1..Len(t) /\ Len(s) + 1 = 2 BY <1>2
<1>7. Len(u) = 2 /\ u[1] = a /\ u[2] = b BY <1>2, <1>5, <1>6
<1>8. u = [i \in 1..2 |-> u[i]] BY <1>5, <1>7 DEF IsSeq
<1>9. u = <<a, b>> BY <1>7, <1>8
<1> QED BY <1>4, <1>9

LEMMA ApprovalIsTame ==
    ASSUME NEW fs, Sane(fs), Nothing \notin Documents, AbsentIsNoImage, NEW rev \in Nat \ {0},
           NEW rel, NEW who, NEW expected, NEW kept, kept = {}, NEW firm, firm = {}
    PROVE  AllTame(Approval(rev, rel, who, expected, fs), kept, firm)
<1>1. PICK image : image = ApprovalImage(rev, who, fs) OBVIOUS
<1>2. PICK right : right = Approval(rev, rel, who, expected, fs) OBVIOUS
<1>3. AllTame(<<>>, kept, firm) BY TameNone
<1>4. AllTame(<<Deny("rejected")>>, kept, firm) BY TameDeny
<1>5. PICK a, b : a = Put("compilations", image.compilations) /\ b = Put("profile", image.profile)
  OBVIOUS
<1>6. \/ right = <<>> \/ right = <<Deny("rejected")>>
      \/ ~ApprovalRefused(rev, rel, who, expected, fs) /\ right = <<a, b>>
      \/ ~ApprovalRefused(rev, rel, who, expected, fs) /\ right = Journalled(image, rev)
  BY <1>1, <1>2, <1>5, ApprovalIs DEF AtOnce
<1>7. ASSUME ~ApprovalRefused(rev, rel, who, expected, fs)
      PROVE  AllTame(<<a, b>>, kept, firm) /\ AllTame(Journalled(image, rev), kept, firm)
  <2>1. IsImage(image) BY <1>1, <1>7, ApprovalImageFits
  <2>2. AllTame(Journalled(image, rev), kept, firm) BY <2>1, JournalledIsTame
  <2>4. Consistent(image.compilations) /\ IsProfile(image.profile)
        /\ kept \subseteq image.compilations.manifests /\ firm \in {{}, Approvals}
    BY <2>1 DEF IsImage
  <2>5. AllTame(<<a>>, kept, firm) BY <1>5, <2>4, CompilationsAreTame
  <2>6. AllTame(<<b>>, kept, firm) BY <1>5, <2>4, ProfileIsTame
  <2>7. AllTame(<<a, b>>, kept, firm) BY <2>5, <2>6, TwoAreTame
  <2> QED BY <2>2, <2>7
<1> QED BY <1>2, <1>3, <1>4, <1>6, <1>7

LEMMA ApproveAndBindIsTame ==
    ASSUME NEW fs, Sane(fs), Nothing \notin Documents, AbsentIsNoImage, NEW rev \in Nat \ {0},
           NEW rel, NEW who, NEW expected, NEW kept, kept = {}, NEW firm, firm = {}
    PROVE  AllTame(ApproveAndBind(rev, rel, who, expected, fs), kept, firm)
<1>1. PICK left : left = Leftover(rev, fs) OBVIOUS
<1>2. AllTame(left, kept, firm) BY <1>1, LeftoverIsTame
<1>3. PICK store : store = Written(left, fs) OBVIOUS
<1>4. Sane(store) BY <1>2, <1>3, TameWritten
<1>5. PICK right : right = Approval(rev, rel, who, expected, store) OBVIOUS
<1>6. AllTame(right, kept, firm) BY <1>4, <1>5, ApprovalIsTame
<1>7. AllTame(left \o right, kept, firm) BY <1>2, <1>6, TameConcat
<1> QED BY <1>1, <1>3, <1>5, <1>7, Zenon DEF ApproveAndBind

LEMMA MissingIsTame ==
    ASSUME NEW pack, NEW fs, PackOK(pack), Sane(fs), NEW kept, kept \subseteq Manifests(fs),
           NEW firm \in {{}, Approvals}
    PROVE  AllTame(MissingRevisions(pack, fs), kept, firm)
<1> DEFINE revs == pack.compilations.revisions
           k == Len(revs) - Latest(fs)
           new == [i \in 1..k |-> Proposed(revs[Latest(fs) + i].by)]
           all == Revisions(fs) \o new
           made(i) == WithRevisions(fs, SubSeq(all, 1, Latest(fs) + i))
           plan == [i \in 1..k |-> Put("compilations", made(i))]
<1>0. StoreOK(fs) BY SaneIsStore
<1>1. k \in Int /\ Latest(fs) \in Nat BY <1>0, StoreHasCompilations DEF PackOK, IsSeq
<1>2. IsSeq(Revisions(fs)) /\ Len(Revisions(fs)) = Latest(fs)
  BY <1>0, StoreHasCompilations DEF Latest
<1> HIDE DEF k
<1>3. IsSeq(new) /\ Len(new) = IF k >= 0 THEN k ELSE 0 BY <1>1, FunctionIsSeq
<1>4. \A i \in 1..k : IsRevision(new[i]) BY ProposedIsRevision
<1> HIDE DEF new
<1>5. /\ IsSeq(all) /\ Len(all) = Latest(fs) + Len(new)
      /\ \A i \in 1..Latest(fs) : all[i] = Revisions(fs)[i]
      /\ \A i \in 1..Len(new) : all[Latest(fs) + i] = new[i]
  BY <1>2, <1>3, ConcatIsSeq
<1> HIDE DEF all
<1>6. \A i \in 1..Latest(fs) : IsRevision(Revisions(fs)[i])
  BY SaneHolds DEF Consistent, Revisions, Latest
<1>7. \A i \in 1..Len(all) : IsRevision(all[i])
  <2>1. SUFFICES ASSUME NEW i \in 1..Len(all) PROVE IsRevision(all[i]) OBVIOUS
  <2>2. CASE i <= Latest(fs) BY <1>1, <1>5, <1>6, <2>2
  <2>3. CASE ~(i <= Latest(fs))
    <3>1. /\ i - Latest(fs) \in 1..Len(new) /\ i = Latest(fs) + (i - Latest(fs))
          /\ i - Latest(fs) \in 1..k
      BY <1>1, <1>3, <1>5, <2>3
    <3>2. all[i] = new[i - Latest(fs)] BY <1>5, <3>1
    <3> QED BY <1>4, <3>1, <3>2
  <2> QED BY <2>2, <2>3
<1>8. ASSUME NEW i \in 1..k PROVE Consistent(made(i)) /\ made(i).manifests = Manifests(fs)
  <2>1. PICK m : m = Latest(fs) + i OBVIOUS
  <2>2. m \in Nat /\ Latest(fs) <= m /\ m <= Len(all) BY <1>1, <1>3, <1>5, <2>1
  <2>3. PICK sub : sub = SubSeq(all, 1, m) OBVIOUS
  <2>4. all \in Seq(Elements(all)) BY <1>5, SeqOfElements
  <2>5. sub \in Seq(Elements(all)) /\ Len(sub) = m /\ \A j \in 1..m : sub[j] = all[j]
    BY <2>2, <2>3, <2>4
  <2>6. IsSeq(sub) BY <2>5, SeqIsSeq
  <2>7. \A j \in 1..Latest(fs) : sub[j] = Revisions(fs)[j] BY <1>1, <1>5, <2>2, <2>5
  <2>8. \A j \in 1..Len(sub) : IsRevision(sub[j]) BY <1>7, <2>2, <2>5
  <2>9. Latest(fs) <= Len(sub) BY <2>2, <2>5
  <2>10. /\ Consistent(WithRevisions(fs, sub))
         /\ WithRevisions(fs, sub).manifests = Manifests(fs)
    BY <2>6, <2>7, <2>8, <2>9, MoreRevisionsFit
  <2> QED BY <2>1, <2>3, <2>10
<1> HIDE DEF made
<1>9. ASSUME NEW i \in 1..k PROVE Tame(Put("compilations", made(i)), kept, firm)
  <2>1. PICK w : w = Put("compilations", made(i)) OBVIOUS
  <2>2. w.file = "compilations" /\ w.to = made(i) /\ w.failing = "raise" BY <2>1, PutSays
  <2>3. Decent("compilations", made(i)) /\ "compilations" \notin firm
    BY <1>8 DEF Decent, Approvals
  <2>4. kept \subseteq made(i).manifests BY <1>8
  <2>5. Tame(w, kept, firm) BY <2>2, <2>3, <2>4 DEF Tame
  <2> QED BY <2>1, <2>5
<1>10. IsSeq(plan) /\ Len(plan) = IF k >= 0 THEN k ELSE 0 BY <1>1, FunctionIsSeq
<1>11. \A i \in 1..k : plan[i] = Put("compilations", made(i)) OBVIOUS
<1> HIDE DEF plan
<1>12. \A i \in 1..Len(plan) : i \in 1..k BY <1>1, <1>10
<1>13. AllTame(plan, kept, firm) BY <1>9, <1>10, <1>11, <1>12 DEF AllTame
<1>14. plan = MissingRevisions(pack, fs)
  BY Zenon DEF plan, made, all, new, k, MissingRevisions
<1> QED BY <1>13, <1>14

LEMMA ImportDecisionIsTame ==
    ASSUME NEW pack, NEW rev \in Nat \ {0}, NEW fs, Sane(fs), Nothing \notin Documents,
           AbsentIsNoImage, NEW kept, kept \subseteq Manifests(fs), NEW firm \in {{}, Approvals},
           (kept = {} /\ firm = {}) \/ pack.compilations.pin # rev
    PROVE  AllTame(ImportDecision(pack, rev, fs), kept, firm)
<1>1. PICK new : new = pack.compilations.revisions[rev] OBVIOUS
<1>2. PICK now : now = Status(fs, rev) OBVIOUS
<1>3. PICK who : who = Approver(pack, rev) OBVIOUS
<1>4. PICK bound : bound = ApproveAndBind(rev, fs["profile"].rel, who, now, fs) OBVIOUS
<1>5. PICK approved : approved = IF now = "pending"
                                 THEN ApproveWrites(rev, who, "pending", fs) ELSE <<>>
  OBVIOUS
<1>6. PICK store : store = Written(approved, fs) OBVIOUS
<1>7. PICK revoked : revoked = IF now = "revoked" THEN <<>>
                               ELSE DecideWrites(rev, "revoked", new.decider, "approved", store)
  OBVIOUS
<1>8. PICK rejected : rejected = DecideWrites(rev, "rejected", new.decider, "pending", fs)
  OBVIOUS
<1>a. AllTame(<<>>, kept, firm) BY TameNone
<1>9. pack.compilations.pin = rev => AllTame(bound, kept, firm)
  <2>1. SUFFICES ASSUME kept = {} /\ firm = {} PROVE AllTame(bound, kept, firm) OBVIOUS
  <2> QED BY <1>4, <2>1, ApproveAndBindIsTame
<1>10. AllTame(approved, kept, firm)
  <2>1. AllTame(ApproveWrites(rev, who, "pending", fs), kept, firm) BY ApproveIsTame
  <2> QED BY <1>5, <1>a, <2>1
<1>11. Sane(store) /\ kept \subseteq Manifests(store) BY <1>6, <1>10, TameWritten
<1>12. AllTame(revoked, kept, firm)
  <2>1. AllTame(DecideWrites(rev, "revoked", new.decider, "approved", store), kept, firm)
    BY <1>11, DecideIsTame
  <2> QED BY <1>7, <1>a, <2>1
<1>13. AllTame(approved \o revoked, kept, firm) BY <1>10, <1>12, TameConcat
<1>14. AllTame(rejected, kept, firm) BY <1>8, DecideIsTame
<1>15. ImportDecision(pack, rev, fs) =
         CASE new.status = "approved" /\ pack.compilations.pin = rev -> bound
           [] new.status = "approved" /\ pack.compilations.pin # rev -> approved
           [] new.status = "revoked"  -> approved \o revoked
           [] new.status = "rejected" /\ now = "pending" -> rejected
           [] OTHER -> <<>>
  BY <1>1, <1>2, <1>3, <1>4, <1>5, <1>6, <1>7, <1>8 DEF ImportDecision
<1> QED BY <1>9, <1>10, <1>13, <1>14, <1>15, <1>a

LEMMA DecisionWritesAreTame ==
    ASSUME NEW pack, NEW fs, PackOK(pack), Sane(fs), Nothing \notin Documents,
           AbsentIsNoImage, NEW kept, kept \subseteq Manifests(fs), NEW firm \in {{}, Approvals},
           (kept = {} /\ firm = {}) \/ pack.compilations.pin = 0
    PROVE  AllTame(DecisionWrites(pack, fs)[Len(pack.compilations.revisions)], kept, firm)
<1> DEFINE L == Len(pack.compilations.revisions)
           writes == DecisionWrites(pack, fs)
           S == {n \in Nat : n <= L => AllTame(writes[n], kept, firm)}
<1>1. L \in Nat BY DEF PackOK, IsSeq
<1>2. \A n \in 0..L : writes[n] = DecisionStep(pack, fs, n, writes[n - 1])
  <2>1. PICK w : w = writes OBVIOUS
  <2>2. w = [n \in 0..L |-> DecisionStep(pack, fs, n, w[n - 1])]
    BY <2>1, DecisionWritesRecursion
  <2>3. \A n \in 0..L : w[n] = DecisionStep(pack, fs, n, w[n - 1]) BY <2>2
  <2> QED BY <2>1, <2>3
<1> HIDE DEF writes, L
<1>3. 0 \in S
  <2>1. PICK first : first = MissingRevisions(pack, fs) OBVIOUS
  <2>2. writes[0] = first BY <1>1, <1>2, <2>1 DEF DecisionStep
  <2>3. AllTame(first, kept, firm) BY <2>1, MissingIsTame
  <2> QED BY <2>2, <2>3
<1>4. ASSUME NEW n \in Nat, n \in S PROVE n + 1 \in S
  <2>1. SUFFICES ASSUME n + 1 <= L PROVE AllTame(writes[n + 1], kept, firm) OBVIOUS
  <2>2. PICK before : before = writes[n] OBVIOUS
  <2>3. AllTame(before, kept, firm) BY <1>1, <1>4, <2>1, <2>2
  <2>4. n + 1 \in 0..L /\ (n + 1) - 1 = n /\ n + 1 # 0 /\ n + 1 \in Nat \ {0} BY <1>1, <2>1
  <2>5. PICK store : store = Written(before, fs) OBVIOUS
  <2>6. PICK next : next = ImportDecision(pack, n + 1, store) OBVIOUS
  <2>7. writes[n + 1] = before \o next
    BY <1>2, <2>2, <2>4, <2>5, <2>6 DEF DecisionStep
  <2>8. Sane(store) /\ kept \subseteq Manifests(store) BY <2>3, <2>5, TameWritten
  <2>9. (kept = {} /\ firm = {}) \/ pack.compilations.pin # n + 1 BY <2>4
  <2>10. AllTame(next, kept, firm)
    <3>1. PICK rev : rev = n + 1 OBVIOUS
    <3>2. rev \in Nat \ {0} /\ next = ImportDecision(pack, rev, store)
          /\ ((kept = {} /\ firm = {}) \/ pack.compilations.pin # rev)
      BY <2>4, <2>6, <2>9, <3>1
    <3> QED BY <2>8, <3>2, ImportDecisionIsTame
  <2> QED BY <2>3, <2>7, <2>10, TameConcat
<1>5. L \in S
  <2> HIDE DEF S
  <2> QED BY <1>1, <1>3, <1>4, Induction
<1>6. AllTame(writes[L], kept, firm) BY <1>1, <1>5
<1> QED BY <1>6 DEF writes, L

LEMMA CompilationIsTame ==
    ASSUME NEW pack, NEW fs, PackOK(pack), Sane(fs), Nothing \notin Documents,
           AbsentIsNoImage, NEW kept, kept \subseteq Manifests(fs), NEW firm \in {{}, Approvals},
           (kept = {} /\ firm = {}) \/ pack.compilations.pin = 0
    PROVE  AllTame(CompilationWrites(pack, fs), kept, firm)
<1>1. PICK decided : decided = DecisionWrites(pack, fs)[Len(pack.compilations.revisions)]
  OBVIOUS
<1>2. AllTame(decided, kept, firm) BY <1>1, DecisionWritesAreTame
<1>3. PICK store : store = Written(decided, fs) OBVIOUS
<1>4. Sane(store) BY <1>2, <1>3, TameWritten
<1>5. PICK rest : rest = IF pack.compilations.pin = 0 THEN <<>>
                         ELSE BindWrites(pack.compilations.pin, store)
  OBVIOUS
<1>6. AllTame(rest, kept, firm)
  <2>1. CASE pack.compilations.pin = 0 BY <1>5, <2>1, TameNone
  <2>2. CASE pack.compilations.pin # 0
    <3>1. firm = {} BY <2>2
    <3>2. AllTame(BindWrites(pack.compilations.pin, store), kept, firm)
      BY <1>4, <3>1, BindIsTame
    <3> QED BY <1>5, <2>2, <3>2
  <2> QED BY <2>1, <2>2
<1>7. AllTame(decided \o rest, kept, firm) BY <1>2, <1>6, TameConcat
<1>8. CompilationWrites(pack, fs) = decided \o rest
  BY <1>1, <1>3, <1>5, Zenon DEF CompilationWrites
<1> QED BY <1>7, <1>8

LEMMA CreateTargetIsTame ==
    ASSUME NEW op, NEW fs, NEW kept, NEW firm \in {{}, Approvals},
           firm = {} \/ op.pack.compilations.pin = 0
    PROVE  AllTame(CreateTarget(op, fs), kept, firm)
<1>1. PICK v : v = [rel |-> Target(op, fs), manifest |-> op.pack.compilations.pin] OBVIOUS
<1>2. IsProfile(v) /\ v.manifest = op.pack.compilations.pin BY <1>1 DEF IsProfile
<1>3. PICK a, b : a = Put("profile", v) /\ b = Put("registry", fs["registry"] \cup {Target(op, fs)})
  OBVIOUS
<1>4. AllTame(<<a>>, kept, firm) BY <1>2, <1>3, ProfileIsTame
<1>5. AllTame(<<b>>, kept, firm)
  <2>1. b.file = "registry" /\ b.failing = "raise" BY <1>3, PutSays
  <2>2. Decent("registry", b.to) /\ "registry" \notin firm BY DEF Decent, Approvals
  <2>3. Tame(b, kept, firm) BY <2>1, <2>2 DEF Tame
  <2> QED BY <2>3, TameOne
<1>6. AllTame(<<a, b>>, kept, firm) BY <1>4, <1>5, TwoAreTame
<1>7. AllTame(<<>>, kept, firm) BY TameNone
<1> QED BY <1>1, <1>3, <1>6, <1>7, Zenon DEF CreateTarget

-----------------------------------------------------------------------------
(* What does not touch the pin                                               *)

Pinning == Approvals \cup {"profile", "compilations"}

(* A plan of other documents.                                                *)
AllAside(plan) == IsSeq(plan) /\ Quiet(plan, Pinning)

LEMMA AsideNone == AllAside(<<>>)
BY EmptyIsSeq, QuietNone DEF AllAside

LEMMA AsidePut ==
    ASSUME NEW f, Aside(f), NEW v
    PROVE  AllAside(<<Put(f, v)>>)
<1>1. f \notin Pinning BY DEF Aside, Pinning
<1>2. Quiet(<<Put(f, v)>>, Pinning) BY <1>1, QuietPut
<1>3. IsSeq(<<Put(f, v)>>) BY OneIsSeq
<1> QED BY <1>2, <1>3 DEF AllAside

LEMMA AsideDeny ==
    ASSUME NEW why, Nothing \notin Documents
    PROVE  AllAside(<<Deny(why)>>)
<1>1. PICK w : w = Deny(why) OBVIOUS
<1>2. w.file = Nothing /\ w.failing = "denied" BY <1>1 DEF Deny
<1>3. Pinning \subseteq Documents BY DEF Pinning, Approvals, Documents
<1>4. w.file \notin Pinning /\ w.failing # "ignore" BY <1>2, <1>3
<1>5. Quiet(<<w>>, Pinning) BY <1>4, QuietOne
<1>6. IsSeq(<<w>>) BY OneIsSeq
<1> QED BY <1>1, <1>5, <1>6 DEF AllAside

LEMMA AsideConcat ==
    ASSUME NEW s, NEW r, AllAside(s), AllAside(r)
    PROVE  AllAside(s \o r)
<1>1. Quiet(s \o r, Pinning) BY QuietConcat DEF AllAside
<1>2. IsSeq(s \o r) BY ConcatIsSeq DEF AllAside
<1> QED BY <1>1, <1>2 DEF AllAside

LEMMA AsideIsTame ==
    ASSUME NEW plan, AllAside(plan), NEW kept, NEW firm \in {{}, Approvals}
    PROVE  AllTame(plan, kept, firm)
<1>1. SUFFICES ASSUME NEW i \in 1..Len(plan) PROVE Tame(plan[i], kept, firm)
  BY DEF AllAside, AllTame
<1>2. plan[i].file \notin Pinning /\ plan[i].failing # "ignore" BY DEF AllAside, Quiet
<1> QED BY <1>2 DEF Tame, Decent, Pinning

LEMMA AsideKeeps ==
    ASSUME NEW plan, AllAside(plan), NEW fs, NEW gs, gs = Written(plan, fs),
           NEW f \in Pinning, f \in DOMAIN fs
    PROVE  gs[f] = fs[f]
<1>1. Len(plan) \in Nat /\ \A i \in 1..Len(plan) : plan[i].file # f
  BY DEF AllAside, Quiet, IsSeq
<1> QED BY <1>1, AfterIsOldOrWritten DEF Written

LEMMA TimelineIsAside ==
    ASSUME NEW op, NEW fs, PackOK(op.pack)
    PROVE  AllAside(TimelineWrites(op, fs))
<1> DEFINE k == Len(op.pack.timeline)
           grown(i) == fs["timeline"] \o SubSeq(op.pack.timeline, 1, i)
           plan == [i \in 1..k |-> Put("timeline", grown(i))]
<1>1. plan = TimelineWrites(op, fs) BY Zenon DEF TimelineWrites
<1>2. k \in Nat BY DEF PackOK, IsSeq
<1> HIDE DEF grown, k
<1>3. IsSeq(plan) /\ Len(plan) = k BY <1>2, FunctionIsSeq
<1>4. \A i \in 1..k : plan[i] = Put("timeline", grown(i)) OBVIOUS
<1> HIDE DEF plan
<1>5. \A i \in 1..Len(plan) : plan[i].file = "timeline" /\ plan[i].failing = "raise"
  BY <1>3, <1>4, PutSays
<1>6. "timeline" \notin Pinning BY DEF Pinning, Approvals
<1>7. Quiet(plan, Pinning) BY <1>5, <1>6 DEF Quiet
<1> QED BY <1>1, <1>3, <1>7 DEF AllAside

LEMMA OthersAreAside ==
    \A f \in {"registry", "nodes", "core", "timeline", "turns", "ledger", "receipts"} : Aside(f)
BY DEF Aside, Approvals

LEMMA PayloadIsAside ==
    ASSUME NEW op, NEW fs, PackOK(op.pack), Nothing \notin Documents
    PROVE  AllAside(PayloadWrites(op, fs))
<1>0. AllAside(<<>>) BY AsideNone
<1>a. ASSUME NEW f \in {"nodes", "core", "ledger"}, NEW v PROVE AllAside(<<Put(f, v)>>)
  BY OthersAreAside, AsidePut
<1>1. PICK a : a = <<Put("nodes", Merged(op, fs))>> OBVIOUS
<1>2. AllAside(a) BY <1>1, <1>a
<1>3. PICK b : b = CoreWrites(op, fs) OBVIOUS
<1>4. AllAside(b)
  <2>1. AllAside(<<Put("core", op.pack.core)>>) BY <1>a
  <2> QED BY <1>0, <1>3, <2>1, Zenon DEF CoreWrites
<1>5. PICK c : c = TimelineWrites(op, fs) OBVIOUS
<1>6. AllAside(c) BY <1>5, TimelineIsAside
<1>7. PICK d : d = TurnWrites(op, fs) OBVIOUS
<1>8. AllAside(d)
  <2>1. PICK turns : turns = op.pack.turns OBVIOUS
  <2>2. PICK new : new = NewTurns(turns, fs)[Len(turns)] OBVIOUS
  <2>3. Len(turns) \in Nat /\ Len(turns) \in 0..Len(turns) BY <2>1 DEF PackOK, IsSeq
  <2>a. PICK none : none = {} OBVIOUS
  <2>4. PlanOK(new, none) /\ WritesTurns(new) BY <2>a, <2>2, <2>3, NewTurnsArePlans
  <2>5. "turns" \notin Pinning BY DEF Pinning, Approvals
  <2>6. AllAside(new) BY <2>4, <2>5 DEF AllAside, Quiet, WritesTurns, PlanOK
  <2>7. AllAside(<<Deny("rejected")>>) BY AsideDeny
  <2>8. d = IF turns # <<>> /\ ~Registered(op, fs) THEN <<Deny("rejected")>> ELSE new
    BY <1>7, <2>1, <2>2, Zenon DEF TurnWrites
  <2> QED BY <2>6, <2>7, <2>8
<1>9. PICK e : e = TombstoneWrites(op, fs) OBVIOUS
<1>10. AllAside(e)
  <2>1. \A v : AllAside(<<Put("ledger", v)>>) BY <1>a
  <2> QED BY <1>0, <1>9, <2>1, Zenon DEF TombstoneWrites
<1>11. PICK ab : ab = a \o b OBVIOUS
<1>12. AllAside(ab) BY <1>2, <1>4, <1>11, AsideConcat
<1>13. PICK abc : abc = ab \o c OBVIOUS
<1>14. AllAside(abc) BY <1>6, <1>12, <1>13, AsideConcat
<1>15. PICK abcd : abcd = abc \o d OBVIOUS
<1>16. AllAside(abcd) BY <1>8, <1>14, <1>15, AsideConcat
<1>17. AllAside(abcd \o e) BY <1>10, <1>16, AsideConcat
<1> QED BY <1>1, <1>3, <1>5, <1>7, <1>9, <1>11, <1>13, <1>15, <1>17, Zenon DEF PayloadWrites

LEMMA ReceiptIsAside == ASSUME NEW op, NEW fs PROVE AllAside(ReceiptWrites(op, fs))
<1>1. PICK v : v = fs["receipts"] \cup {Receipt(op.pack, op.over)} OBVIOUS
<1>2. AllAside(<<Put("receipts", v)>>) BY OthersAreAside, AsidePut
<1> QED BY <1>1, <1>2, AsideNone, Zenon DEF ReceiptWrites

(* Carrying out two plans is carrying out one after the other.               *)
IsJoin(plan, s, r) == IsSeq(s) /\ IsSeq(r) /\ plan = s \o r

LEMMA WrittenConcat ==
    ASSUME NEW s, NEW r, NEW plan, IsJoin(plan, s, r),
           NEW fs, StoreOK(fs), NEW gs, gs = Written(s, fs)
    PROVE  Written(plan, fs) = Written(r, gs)
<1> DEFINE S == {n \in Nat : n <= Len(r) => After(plan, Len(s) + n, fs) = After(r, n, gs)}
<1>1. /\ Len(plan) = Len(s) + Len(r) /\ Len(s) \in Nat /\ Len(r) \in Nat
      /\ \A i \in 1..Len(s) : plan[i] = s[i]
      /\ \A i \in 1..Len(r) : plan[Len(s) + i] = r[i]
  <2>1. IsSeq(s) /\ IsSeq(r) /\ plan = s \o r BY DEF IsJoin
  <2> QED BY <2>1, ConcatIsSeq DEF IsSeq
<1>a. fs = [f \in DOMAIN fs |-> fs[f]] BY DEF StoreOK
<1>2. 0 \in S
  <2>a. PICK n : n = Len(s) OBVIOUS
  <2>b. n \in Nat /\ \A i \in 1..n : plan[i] = s[i] BY <1>1, <2>a
  <2>c. After(plan, n, fs) = After(s, n, fs) BY ONLY <2>b, AfterPrefix
  <2>1. After(plan, Len(s), fs) = After(s, Len(s), fs) BY <2>a, <2>c
  <2>2. gs = [f \in DOMAIN gs |-> gs[f]] BY DEF Written, After
  <2>3. After(r, 0, gs) = gs BY <2>2, AfterNone
  <2>4. Len(s) + 0 = Len(s) BY <1>1
  <2>5. After(plan, Len(s) + 0, fs) = gs BY <2>1, <2>4 DEF Written
  <2> QED BY <2>3, <2>5
<1>3. ASSUME NEW n \in Nat, n \in S PROVE n + 1 \in S
  <2>1. SUFFICES ASSUME n + 1 <= Len(r)
                 PROVE  After(plan, Len(s) + (n + 1), fs) = After(r, n + 1, gs)
    OBVIOUS
  <2>2. After(plan, Len(s) + n, fs) = After(r, n, gs) BY <1>1, <1>3, <2>1
  <2>3. n + 1 \in 1..Len(r) /\ Len(s) + n \in Nat /\ Len(s) + (n + 1) = (Len(s) + n) + 1
    BY <1>1, <2>1
  <2>4. plan[(Len(s) + n) + 1] = r[n + 1] BY <1>1, <2>3
  <2>5. PICK m : m = Len(s) + n OBVIOUS
  <2>6. After(plan, m + 1, fs) = [After(plan, m, fs) EXCEPT ![plan[m + 1].file] = plan[m + 1].to]
    <3>1. m \in Nat BY <2>3, <2>5
    <3> QED BY ONLY <3>1, AfterOneMore
  <2>7. After(r, n + 1, gs) = [After(r, n, gs) EXCEPT ![r[n + 1].file] = r[n + 1].to]
    BY AfterOneMore
  <2>8. plan[m + 1] = r[n + 1] /\ After(plan, m, fs) = After(r, n, gs) BY <2>2, <2>4, <2>5
  <2>9. After(plan, m + 1, fs) = After(r, n + 1, gs) BY <2>6, <2>7, <2>8
  <2> QED BY <2>3, <2>5, <2>9
<1>4. Len(r) \in S
  <2> HIDE DEF S
  <2> QED BY <1>1, <1>2, <1>3, Induction
<1>5. After(plan, Len(s) + Len(r), fs) = After(r, Len(r), gs) BY <1>1, <1>4
<1> QED BY <1>1, <1>5 DEF Written

-----------------------------------------------------------------------------
(* A pack and an approval in one transaction                                 *)

Pinned(fs) == Made(fs["compilations"], fs["profile"].manifest)

(* Either it leaves the journals alone and pins nothing, or it makes what it *)
(* pins.                                                                     *)
Fair(plan, fs) ==
    \/ AllTame(plan, Manifests(fs), Approvals)
    \/ AllTame(plan, {}, {}) /\ Pinned(Written(plan, fs))

LEMMA DenyIsDenied == ASSUME NEW why PROVE Denied(<<Deny(why)>>)
<1>1. PICK w : w = Deny(why) OBVIOUS
<1>2. w.failing = "denied" BY <1>1 DEF Deny
<1>3. PICK plan : plan = <<w>> OBVIOUS
<1>4. IsSeq(plan) /\ Len(plan) = 1 /\ plan[1] = w BY <1>3, OneIsSeq
<1>5. 1 \in DOMAIN plan BY <1>4 DEF IsSeq
<1>6. Denied(plan) BY <1>2, <1>4, <1>5 DEF Denied
<1> QED BY <1>1, <1>3, <1>6

LEMMA WrittenNone ==
    ASSUME NEW fs, StoreOK(fs)
    PROVE  Written(<<>>, fs) = fs
<1>1. PICK none : none = <<>> OBVIOUS
<1>2. Len(none) = 0 BY <1>1, EmptyIsSeq
<1>3. fs = [f \in DOMAIN fs |-> fs[f]] BY DEF StoreOK
<1>4. Written(none, fs) = fs BY <1>2, <1>3, AfterNone DEF Written
<1> QED BY <1>1, <1>4

LEMMA WrittenOne ==
    ASSUME NEW fs, StoreOK(fs), NEW w
    PROVE  Written(<<w>>, fs) = [fs EXCEPT ![w.file] = w.to]
<1>1. PICK plan : plan = <<w>> OBVIOUS
<1>2. Len(plan) = 1 /\ plan[1] = w BY <1>1, OneIsSeq
<1>3. fs = [f \in DOMAIN fs |-> fs[f]] BY DEF StoreOK
<1>4. After(plan, 0, fs) = fs BY <1>3, AfterNone
<1>5. After(plan, 0 + 1, fs) = [After(plan, 0, fs) EXCEPT ![plan[0 + 1].file] = plan[0 + 1].to]
  <2>1. 0 \in Nat OBVIOUS
  <2> QED BY ONLY <2>1, AfterOneMore
<1>6. 0 + 1 = 1 OBVIOUS
<1>7. After(plan, 1, fs) = [fs EXCEPT ![w.file] = w.to] BY <1>2, <1>4, <1>5, <1>6
<1>8. Written(plan, fs) = [fs EXCEPT ![w.file] = w.to] BY <1>2, <1>7 DEF Written
<1> QED BY <1>1, <1>8

LEMMA BindPins ==
    ASSUME NEW fs, Sane(fs), NEW rev, NEW plan, plan = BindWrites(rev, fs), ~Denied(plan)
    PROVE  Pinned(Written(plan, fs))
<1>1. PICK old : old = fs["profile"] OBVIOUS
<1>2. PICK v : v = [old EXCEPT !.manifest = rev] OBVIOUS
<1>3. old = [rel |-> old.rel, manifest |-> old.manifest] BY <1>1, SaneHolds DEF IsProfile
<1>4. v.manifest = rev BY <1>2, <1>3
<1>5. plan # <<Deny("rejected")>> BY DenyIsDenied
<1>6. /\ \E m \in Manifests(fs) : m.rev = rev
      /\ \/ old.manifest = rev /\ plan = <<>>
         \/ plan = <<Put("profile", v)>>
  BY <1>1, <1>2, <1>5, Zenon DEF BindWrites
<1>7. CASE old.manifest = rev /\ plan = <<>>
  <2>1. Written(plan, fs) = fs BY <1>7, SaneIsStore, WrittenNone
  <2> QED BY <1>1, <1>6, <1>7, <2>1 DEF Pinned, Made, Manifests
<1>8. CASE plan = <<Put("profile", v)>>
  <2>1. PICK w : w = Put("profile", v) OBVIOUS
  <2>2. w.file = "profile" /\ w.to = v BY <2>1, PutSays
  <2>3. PICK gs : gs = Written(plan, fs) OBVIOUS
  <2>4. gs = [fs EXCEPT ![w.file] = w.to] BY <1>8, <2>1, <2>3, SaneIsStore, WrittenOne
  <2>5. DOMAIN fs = Documents BY DEF Sane
  <2>6. gs["profile"] = v /\ gs["compilations"] = fs["compilations"]
    BY <2>2, <2>4, <2>5 DEF Documents
  <2>7. Pinned(gs) BY <1>4, <1>6, <2>6 DEF Pinned, Made, Manifests
  <2> QED BY <2>3, <2>7
<1> QED BY <1>6, <1>7, <1>8

LEMMA CompilationPins ==
    ASSUME NEW pack, NEW fs, PackOK(pack), Sane(fs), Nothing \notin Documents,
           AbsentIsNoImage, pack.compilations.pin # 0,
           NEW plan, plan = CompilationWrites(pack, fs), ~Denied(plan)
    PROVE  Pinned(Written(plan, fs))
<1>1. PICK none : none = {} OBVIOUS
<1>2. none \subseteq Manifests(fs) /\ none \in {{}, Approvals} BY <1>1
<1>3. PICK decided : decided = DecisionWrites(pack, fs)[Len(pack.compilations.revisions)]
  OBVIOUS
<1>4. AllTame(decided, none, none) BY <1>1, <1>2, <1>3, DecisionWritesAreTame
<1>5. PICK store : store = Written(decided, fs) OBVIOUS
<1>6. Sane(store) BY <1>4, <1>5, TameWritten
<1>7. PICK bound : bound = BindWrites(pack.compilations.pin, store) OBVIOUS
<1>8. AllTame(bound, none, none) BY <1>1, <1>6, <1>7, BindIsTame
<1>9. plan = decided \o bound BY <1>3, <1>5, <1>7, Zenon DEF CompilationWrites
<1>10. IsSeq(decided) /\ IsSeq(bound) BY <1>4, <1>8 DEF AllTame
<1>11. ~Denied(bound) BY <1>9, <1>10, AllowedConcat
<1>12. Pinned(Written(bound, store)) BY <1>6, <1>7, <1>11, BindPins
<1>13. Written(plan, fs) = Written(bound, store)
  <2>1. /\ IsJoin(plan, decided, bound)
        /\ Sane(fs) /\ store = Written(decided, fs)
    BY <1>5, <1>9, <1>10 DEF IsJoin
  <2> QED BY ONLY <2>1, SaneIsStore, WrittenConcat
<1> QED BY <1>12, <1>13

LEMMA AsideKeepsPinned ==
    ASSUME NEW plan, AllAside(plan), NEW fs, Sane(fs), Pinned(fs)
    PROVE  Pinned(Written(plan, fs))
<1>1. PICK gs : gs = Written(plan, fs) OBVIOUS
<1>2. "profile" \in Pinning \cap DOMAIN fs /\ "compilations" \in Pinning \cap DOMAIN fs
  BY DEF Sane, Documents, Pinning
<1>3. gs["profile"] = fs["profile"] /\ gs["compilations"] = fs["compilations"]
  BY <1>1, <1>2, AsideKeeps
<1>4. Pinned(gs) BY <1>3 DEF Pinned
<1> QED BY <1>1, <1>4

LEMMA ImportIsFair ==
    ASSUME NEW op, NEW fs, PackOK(op.pack), Sane(fs), Nothing \notin Documents,
           AbsentIsNoImage, NEW plan \in ImportPlans(op, fs), ~Denied(plan)
    PROVE  Fair(plan, fs)
<1>1. PICK target : target = CreateTarget(op, fs) OBVIOUS
<1>2. PICK store : store = Written(target, fs) OBVIOUS
<1>3. PICK a : a = IF Compiled(op.pack) THEN CompilationWrites(op.pack, store) ELSE <<>>
  OBVIOUS
<1>4. PICK b : b = PayloadWrites(op, fs) OBVIOUS
<1>5. PICK c : c = ReceiptWrites(op, fs) OBVIOUS
<1>6. plan = <<>> \/ plan = target \o a \o b \o c
  <2>1. plan # <<Deny("rejected")>> /\ plan # <<Deny("changed")>> BY DenyIsDenied
  <2> QED BY <1>1, <1>2, <1>3, <1>4, <1>5, <2>1, Zenon DEF ImportPlans
<1>7. AllAside(b) /\ AllAside(c) BY <1>4, <1>5, PayloadIsAside, ReceiptIsAside
<1>8. PICK ta : ta = target \o a OBVIOUS
<1>9. PICK tab : tab = ta \o b OBVIOUS
<1>10. plan = <<>> \/ plan = tab \o c BY <1>6, <1>8, <1>9
<1>11. CASE plan = <<>> BY <1>11, TameNone DEF Fair
<1>12. ASSUME NEW kept, kept \subseteq Manifests(fs), NEW firm \in {{}, Approvals},
              (kept = {} /\ firm = {}) \/ op.pack.compilations.pin = 0
       PROVE  /\ AllTame(target, kept, firm) /\ AllTame(a, kept, firm)
              /\ AllTame(ta, kept, firm) /\ AllTame(tab, kept, firm)
              /\ AllTame(tab \o c, kept, firm)
  <2>1. AllTame(target, kept, firm) BY <1>1, <1>12, CreateTargetIsTame
  <2>2. Sane(store) /\ kept \subseteq Manifests(store) BY <1>2, <1>12, <2>1, TameWritten
  <2>3. AllTame(CompilationWrites(op.pack, store), kept, firm)
    BY <1>12, <2>2, CompilationIsTame
  <2>4. AllTame(a, kept, firm) BY <1>3, <2>3, TameNone
  <2>5. AllTame(ta, kept, firm) BY <1>8, <2>1, <2>4, TameConcat
  <2>6. AllTame(b, kept, firm) /\ AllTame(c, kept, firm) BY <1>7, <1>12, AsideIsTame
  <2>7. AllTame(tab, kept, firm) BY <1>9, <2>5, <2>6, TameConcat
  <2>8. AllTame(tab \o c, kept, firm) BY <2>6, <2>7, TameConcat
  <2> QED BY <2>1, <2>4, <2>5, <2>7, <2>8
<1>13. CASE plan = tab \o c /\ op.pack.compilations.pin = 0
  <2>1. PICK kept, firm : kept = Manifests(fs) /\ firm = Approvals OBVIOUS
  <2>2. AllTame(plan, kept, firm) BY <1>12, <1>13, <2>1
  <2> QED BY <2>1, <2>2 DEF Fair
<1>14. CASE plan = tab \o c /\ op.pack.compilations.pin # 0
  <2>1. PICK none : none = {} OBVIOUS
  <2>2. none \subseteq Manifests(fs) /\ none \in {{}, Approvals} BY <2>1
  <2>3. /\ AllTame(target, none, none) /\ AllTame(a, none, none)
        /\ AllTame(ta, none, none) /\ AllTame(tab, none, none)
        /\ AllTame(plan, none, none)
    BY <1>12, <1>14, <2>1, <2>2
  <2>4. IsSeq(target) /\ IsSeq(a) /\ IsSeq(ta) /\ IsSeq(tab) /\ IsSeq(b) /\ IsSeq(c)
    BY <1>7, <2>3 DEF AllTame, AllAside
  <2>5. ~Denied(tab) BY <1>14, <2>4, AllowedConcat
  <2>6. ~Denied(ta) BY <1>9, <2>4, <2>5, AllowedConcat
  <2>7. ~Denied(a) BY <1>8, <2>4, <2>6, AllowedConcat
  <2>8. Sane(store) BY <1>2, <2>3, TameWritten
  <2>9. Compiled(op.pack) BY <1>14 DEF Compiled
  <2>10. a = CompilationWrites(op.pack, store) BY <1>3, <2>9
  <2>11. Pinned(Written(a, store)) BY <1>14, <2>7, <2>8, <2>10, CompilationPins
  <2>13. PICK made : made = Written(ta, fs) OBVIOUS
  <2>14. made = Written(a, store)
    <3>1. /\ IsJoin(ta, target, a)
          /\ Sane(fs) /\ store = Written(target, fs)
      BY <1>2, <1>8, <2>4 DEF IsJoin
    <3>2. Written(ta, fs) = Written(a, store) BY ONLY <3>1, SaneIsStore, WrittenConcat
    <3> QED BY <2>13, <3>2
  <2>15. Sane(made) /\ Pinned(made) BY <2>3, <2>11, <2>13, <2>14, TameWritten
  <2>16. PICK filled : filled = Written(tab, fs) OBVIOUS
  <2>17. filled = Written(b, made)
    <3>1. /\ IsJoin(tab, ta, b)
          /\ Sane(fs) /\ made = Written(ta, fs)
      BY <1>9, <2>4, <2>13 DEF IsJoin
    <3>2. Written(tab, fs) = Written(b, made) BY ONLY <3>1, SaneIsStore, WrittenConcat
    <3> QED BY <2>16, <3>2
  <2>18. Sane(filled) BY <2>3, <2>16, TameWritten
  <2>19. Pinned(filled) BY <1>7, <2>15, <2>17, AsideKeepsPinned
  <2>20. Written(plan, fs) = Written(c, filled)
    <3>1. /\ IsJoin(plan, tab, c)
          /\ Sane(fs) /\ filled = Written(tab, fs)
      BY <1>14, <2>4, <2>16 DEF IsJoin
    <3> QED BY ONLY <3>1, SaneIsStore, WrittenConcat
  <2>21. Pinned(Written(plan, fs)) BY <1>7, <2>18, <2>19, <2>20, AsideKeepsPinned
  <2> QED BY <2>1, <2>3, <2>21 DEF Fair
<1> QED BY <1>10, <1>11, <1>13, <1>14

(* Where a write that may be lost is the removal of a journal, losing it     *)
(* changes no other document.                                                *)
LEMMA LostElsewhere ==
    ASSUME NEW plan, NEW closed, PlanOK(plan, closed), NEW fs, NEW f, f \notin Approvals,
           f \in DOMAIN fs,
           \A i \in 1..Len(plan) : plan[i].failing = "ignore" => plan[i].file \in Approvals,
           NEW skipped, skipped \subseteq Ignored(plan)
    PROVE  Written(Without(plan, skipped), fs)[f] = Written(plan, fs)[f]
<1> DEFINE L == Len(plan)
           S == {n \in Nat : n <= L =>
                    \A losing \in SUBSET (Ignored(plan) \cap 1..n) :
                        After(Without(plan, losing), n, fs)[f] = After(plan, n, fs)[f]}
<1>1. IsSeq(plan) /\ L \in Nat /\ Ignored(plan) \subseteq 1..L
  BY DEF PlanOK, IsSeq, Ignored
<1>2. 0 \in S
  <2>1. ASSUME NEW losing PROVE After(Without(plan, losing), 0, fs) = After(plan, 0, fs)
    <3>1. PICK w : w = Without(plan, losing) OBVIOUS
    <3>2. PICK none : none = 0 OBVIOUS
    <3>3. none \in Nat /\ \A i \in 1..none : w[i] = plan[i] BY <3>2
    <3>4. After(w, none, fs) = After(plan, none, fs) BY ONLY <3>3, AfterPrefix
    <3> QED BY <3>1, <3>2, <3>4
  <2> QED BY <2>1
<1>3. ASSUME NEW n \in Nat, n \in S PROVE n + 1 \in S
  <2>1. SUFFICES ASSUME n + 1 <= L, NEW losing \in SUBSET (Ignored(plan) \cap 1..(n + 1))
                 PROVE  After(Without(plan, losing), n + 1, fs)[f] = After(plan, n + 1, fs)[f]
    OBVIOUS
  <2>2. \A less \in SUBSET (Ignored(plan) \cap 1..n) :
           After(Without(plan, less), n, fs)[f] = After(plan, n, fs)[f]
    BY <1>1, <1>3, <2>1
  <2>3. n + 1 \in 1..L BY <1>1, <2>1
  <2>4. PICK old, new : old = After(plan, n, fs) /\ new = After(plan, n + 1, fs) OBVIOUS
  <2>5. new = [old EXCEPT ![plan[n + 1].file] = plan[n + 1].to] BY <2>4, AfterOneMore
  <2>6. DOMAIN old = DOMAIN fs BY <2>4 DEF After
  <2> HIDE DEF S
  <2>7. CASE n + 1 \in losing
    <3>1. PICK less : less = losing \ {n + 1} OBVIOUS
    <3>2. less \in SUBSET (Ignored(plan) \cap 1..n) /\ losing = less \cup {n + 1}
      BY <2>7, <3>1
    <3>3. plan[n + 1].failing = "ignore" BY <2>7 DEF Ignored
    <3>4. After(Without(plan, losing), n + 1, fs) = After(Without(plan, less), n, fs)
      BY <2>1, <3>2, <3>3, NextWriteLost
    <3>5. plan[n + 1].file # f BY <2>3, <3>3
    <3>6. new[f] = old[f] BY <2>5, <2>6, <3>5
    <3> QED BY <2>2, <2>4, <3>2, <3>4, <3>6
  <2>8. CASE n + 1 \notin losing
    <3>1. losing \in SUBSET (Ignored(plan) \cap 1..n) BY <2>8
    <3>2. PICK w : w = Without(plan, losing) OBVIOUS
    <3>3. w[n + 1] = plan[n + 1] BY <1>1, <2>3, <2>8, <3>2, WithoutIsSeq
    <3>4. PICK hs, ks : hs = After(w, n, fs) /\ ks = After(w, n + 1, fs) OBVIOUS
    <3>5. ks = [hs EXCEPT ![plan[n + 1].file] = plan[n + 1].to] BY <3>3, <3>4, AfterOneMore
    <3>6. DOMAIN hs = DOMAIN fs BY <3>4 DEF After
    <3>7. hs[f] = old[f] BY <2>2, <2>4, <3>1, <3>2, <3>4
    <3>8. ks[f] = new[f] BY <2>5, <2>6, <3>5, <3>6, <3>7
    <3> QED BY <2>4, <3>2, <3>4, <3>8
  <2> QED BY <2>7, <2>8
<1>4. L \in S
  <2> HIDE DEF S, L
  <2> QED BY <1>1, <1>2, <1>3, Induction
<1>5. skipped \in SUBSET (Ignored(plan) \cap 1..L) BY <1>1
<1>6. Len(Without(plan, skipped)) = L BY <1>1, WithoutIsSeq
<1> QED BY <1>1, <1>4, <1>5, <1>6 DEF Written

LEMMA FairOutcome ==
    ASSUME NEW plan, NEW closed, PlanOK(plan, closed), NEW fs, Sound(fs), Fair(plan, fs),
           NEW skipped, skipped \subseteq Ignored(plan)
    PROVE  Sound(Written(Without(plan, skipped), fs))
<1>1. IsSeq(plan) /\ Len(plan) \in Nat /\ Ignored(plan) \subseteq 1..Len(plan)
  BY DEF PlanOK, IsSeq, Ignored
<1>2. Sane(fs) /\ DOMAIN fs = Documents BY DEF Sound, Sane
<1>3. "profile" \in Documents /\ "compilations" \in Documents /\ Approvals \subseteq Documents
  BY DEF Documents, Approvals
<1>4. CASE AllTame(plan, Manifests(fs), Approvals)
  <2>1. Ignored(plan) = {}
    <3>1. ASSUME NEW i \in Ignored(plan) PROVE FALSE
      <4>1. i \in 1..Len(plan) /\ plan[i].failing = "ignore" BY <1>1 DEF Ignored
      <4>2. Tame(plan[i], Manifests(fs), Approvals) BY <1>4, <4>1 DEF AllTame
      <4> QED BY <4>1, <4>2 DEF Tame
    <3> QED BY <3>1
  <2>2. Without(plan, skipped) = plan
    <3>1. skipped = {} BY <2>1
    <3> QED BY <1>1, <3>1, WithoutNone
  <2>3. PICK gs : gs = Written(plan, fs) OBVIOUS
  <2>4. PICK kept, firm : kept = Manifests(fs) /\ firm = Approvals OBVIOUS
  <2>5. AllTame(plan, kept, firm) BY <1>4, <2>4
  <2>6. /\ Sane(gs) /\ kept \subseteq Manifests(gs)
        /\ \A f \in firm : gs[f] = fs[f] \/ f \notin Documents
        /\ firm # {} => gs["profile"].manifest \in {0, fs["profile"].manifest}
    BY <1>2, <2>3, <2>4, <2>5, TameWritten
  <2>7. firm # {} BY <2>4 DEF Approvals
  <2>8. \A f \in Approvals : gs[f] = fs[f] BY <1>3, <2>4, <2>6
  <2>9. Agreed(gs) BY <2>4, <2>6, <2>7, <2>8 DEF Agreed, Sound, Made, Manifests
  <2> QED BY <2>2, <2>3, <2>6, <2>9 DEF Sound
<1>5. CASE AllTame(plan, {}, {}) /\ Pinned(Written(plan, fs))
  <2>1. PICK none : none = {} OBVIOUS
  <2>2. AllTame(plan, none, none) BY <1>5, <2>1
  <2>3. \A i \in 1..Len(plan) : Tame(plan[i], none, none) BY <2>2 DEF AllTame
  <2>4. \A i \in 1..Len(plan) : plan[i].failing = "ignore" => plan[i].file \in Approvals
    BY <2>3 DEF Tame
  <2>5. PICK w : w = Without(plan, skipped) OBVIOUS
  <2>6. Len(w) = Len(plan) BY <1>1, <2>5, WithoutIsSeq
  <2>7. ASSUME NEW i \in 1..Len(w) PROVE Tame(w[i], none, none)
    <3>1. w[i] = IF i \in skipped THEN plan[i - 1] ELSE plan[i]
      BY <1>1, <2>5, <2>6, WithoutIsSeq
    <3>2. CASE i \in skipped
      <4>1. i > 1 BY <2>6, <3>2 DEF PlanOK, Ignored
      <4>2. i - 1 \in 1..Len(plan) BY <1>1, <2>6, <4>1
      <4> QED BY <2>3, <3>1, <3>2, <4>2
    <3>3. CASE i \notin skipped BY <2>3, <2>6, <3>1, <3>3
    <3> QED BY <3>2, <3>3
  <2>8. PICK gs, ks : gs = Written(w, fs) /\ ks = Written(plan, fs) OBVIOUS
  <2>9. Sane(gs)
    <3>1. gs = After(w, Len(w), fs) BY <2>8 DEF Written
    <3>2. Len(w) \in Nat BY <1>1, <2>6
    <3> QED BY <1>2, <2>7, <3>1, <3>2, TameAfter
  <2>10. gs["profile"] = ks["profile"] /\ gs["compilations"] = ks["compilations"]
    <3>1. "profile" \notin Approvals /\ "compilations" \notin Approvals BY DEF Approvals
    <3> QED BY <1>2, <1>3, <2>4, <2>5, <2>8, <3>1, LostElsewhere
  <2>11. Pinned(ks) BY <1>5, <2>8
  <2>12. Agreed(gs) BY <2>10, <2>11 DEF Pinned, Agreed
  <2> QED BY <2>5, <2>8, <2>9, <2>12 DEF Sound
<1> QED BY <1>4, <1>5 DEF Fair

(* SQLite installs what an approval makes without a journal.                 *)
LEMMA TwoWritesWritten ==
    ASSUME NEW fs, Sane(fs), NEW c, Consistent(c), NEW v, NEW plan,
           plan = <<Put("compilations", c), Put("profile", v)>>,
           NEW gs, gs = Written(plan, fs)
    PROVE  gs["compilations"] = c /\ gs["profile"] = v
<1>1. PICK a, b : a = Put("compilations", c) /\ b = Put("profile", v) OBVIOUS
<1>2. a.file = "compilations" /\ a.to = c /\ b.file = "profile" /\ b.to = v BY <1>1, PutSays
<1>3. PICK s, r : s = <<a>> /\ r = <<b>> OBVIOUS
<1>4. IsSeq(s) /\ Len(s) = 1 /\ s[1] = a /\ IsSeq(r) /\ Len(r) = 1 /\ r[1] = b
  BY <1>3, OneIsSeq
<1>5. PICK u : u = s \o r OBVIOUS
<1>6. /\ IsSeq(u) /\ Len(u) = Len(s) + Len(r)
      /\ \A i \in 1..Len(s) : u[i] = s[i]
      /\ \A i \in 1..Len(r) : u[Len(s) + i] = r[i]
  <2>1. IsSeq(s) /\ IsSeq(r) BY <1>4
  <2> QED BY ONLY <1>5, <2>1, ConcatIsSeq
<1>7. 1 \in 1..Len(s) /\ 1 \in 1..Len(r) /\ Len(s) + 1 = 2 BY <1>4
<1>8. Len(u) = 2 /\ u[1] = a /\ u[2] = b BY <1>4, <1>6, <1>7
<1>9. u = [i \in 1..2 |-> u[i]] BY <1>6, <1>8 DEF IsSeq
<1>10. u = plan
  <2>1. u = <<a, b>> BY <1>8, <1>9
  <2> QED BY <1>1, <2>1
<1>11. PICK hs : hs = Written(s, fs) OBVIOUS
<1>12. hs = [fs EXCEPT ![a.file] = a.to] BY <1>3, <1>11, SaneIsStore, WrittenOne
<1>13. Sane(hs)
  <2>1. Decent("compilations", c) BY DEF Decent, Approvals
  <2>2. Decent(a.file, a.to) BY <1>2, <2>1
  <2> QED BY <1>12, <2>2, WriteKeepsSane
<1>14. gs = Written(r, hs)
  <2>1. /\ IsJoin(plan, s, r)
        /\ Sane(fs) /\ hs = Written(s, fs)
    BY <1>4, <1>5, <1>10, <1>11 DEF IsJoin
  <2>2. Written(plan, fs) = Written(r, hs) BY ONLY <2>1, SaneIsStore, WrittenConcat
  <2> QED BY <2>2
<1>15. gs = [hs EXCEPT ![b.file] = b.to] BY <1>3, <1>13, <1>14, SaneIsStore, WrittenOne
<1>16. DOMAIN fs = Documents /\ DOMAIN hs = Documents BY <1>13 DEF Sane
<1>17. hs["compilations"] = c BY <1>2, <1>12, <1>16 DEF Documents
<1> QED BY <1>2, <1>15, <1>16, <1>17 DEF Documents

LEMMA AtOnceIsTwo ==
    ASSUME NEW image, NEW rev
    PROVE  /\ AtOnce(image) # <<>> /\ AtOnce(image) # <<Deny("rejected")>>
           /\ AtOnce(image) # Journalled(image, rev)
<1>1. PICK two : two = AtOnce(image) OBVIOUS
<1>2. PICK a, b : two = <<a, b>> BY <1>1 DEF AtOnce
<1>3. Len(two) = 2 BY <1>2
<1>4. two # <<>> BY <1>2
<1>5. two # <<Deny("rejected")>>
  <2>1. PICK w, one : w = Deny("rejected") /\ one = <<w>> OBVIOUS
  <2>2. Len(one) = 1 BY <2>1
  <2>3. one # two BY <1>3, <2>2
  <2> QED BY <2>1, <2>3
<1>6. two # Journalled(image, rev)
  <2>1. PICK four : four = Journalled(image, rev) OBVIOUS
  <2>2. Len(four) = 4 BY <2>1, JournalledSays
  <2>3. four # two BY ONLY <1>3, <2>2
  <2> QED BY <2>1, <2>3
<1> QED BY <1>1, <1>4, <1>5, <1>6

LEMMA ApproveEndsSound ==
    ASSUME NEW fs, Sound(fs), Nothing \notin Documents, AbsentIsNoImage, NEW rev \in Nat \ {0},
           NEW rel, NEW who, NEW expected, NEW plan,
           plan = ApproveAndBind(rev, rel, who, expected, fs),
           NEW closed, PlanOK(plan, closed), NEW skipped, skipped \subseteq Ignored(plan)
    PROVE  Sound(Written(Without(plan, skipped), fs))
<1>1. PICK left : left = Leftover(rev, fs) OBVIOUS
<1>2. PICK store : store = Written(left, fs) OBVIOUS
<1>3. PICK right : right = Approval(rev, rel, who, expected, store) OBVIOUS
<1>4. PICK image : image = ApprovalImage(rev, who, store) OBVIOUS
<1>5. plan = left \o right BY <1>1, <1>2, <1>3, Zenon DEF ApproveAndBind
<1>7. CASE right # AtOnce(image)
  <2>a. ~GoesAtOnce(rev, rel, who, expected, fs)
    BY <1>1, <1>2, <1>3, <1>4, <1>7, Zenon DEF GoesAtOnce
  <2>1. Safe(plan, 0, fs) BY <2>a, ApproveIsSafe
  <2> QED BY <2>1, SafePlanEndsSound
<1>8. CASE right = AtOnce(image)
  <2>2. right # <<>> /\ right # <<Deny("rejected")>>
    BY <1>8, AtOnceIsTwo
  <2>3. ~ApprovalRefused(rev, rel, who, expected, store) BY <1>3, <1>4, <2>2, ApprovalIs
  <2>4. Sound(store) BY <1>1, <1>2, LeftoverWritten
  <2>5. Sane(store) /\ Sane(fs) BY <2>4 DEF Sound
  <2>6. /\ IsImage(image) /\ image.profile.manifest = rev
        /\ \E m \in image.compilations.manifests : m.rev = rev
    BY <1>4, <2>3, <2>5, ApprovalImageFits
  <2>7. PICK c, v : c = image.compilations /\ v = image.profile OBVIOUS
  <2>8. Consistent(c) BY <2>6, <2>7 DEF IsImage
  <2>9. PICK gs : gs = Written(right, store) OBVIOUS
  <2>10. gs["compilations"] = c /\ gs["profile"] = v
    <3>1. right = <<Put("compilations", c), Put("profile", v)>> BY <1>8, <2>7 DEF AtOnce
    <3> QED BY <2>5, <2>8, <2>9, <3>1, TwoWritesWritten
  <2>11. Pinned(gs) BY <2>6, <2>7, <2>10 DEF Pinned, Made
  <2>12. PICK none : none = {} OBVIOUS
  <2>13. AllTame(plan, none, none) BY <2>5, <2>12, ApproveAndBindIsTame
  <2>14. Written(plan, fs) = gs
    <3>1. IsSeq(left) BY <1>1, LeftoverIsSeq
    <3>2. IsSeq(right)
      <4>1. PICK a, b : right = <<a, b>> BY <1>8 DEF AtOnce
      <4>2. Len(right) = 2 /\ right = [i \in 1..2 |-> right[i]] BY <4>1
      <4> QED BY <4>2 DEF IsSeq
    <3>3. /\ IsJoin(plan, left, right)
          /\ Sane(fs) /\ store = Written(left, fs)
      BY <1>2, <1>5, <2>5, <3>1, <3>2 DEF IsJoin
    <3>4. Written(plan, fs) = Written(right, store) BY ONLY <3>3, SaneIsStore, WrittenConcat
    <3> QED BY <2>9, <3>4
  <2>15. Fair(plan, fs) BY <2>11, <2>12, <2>13, <2>14 DEF Fair
  <2> QED BY <2>15, FairOutcome
<1> QED BY <1>7, <1>8

(* Every plan of a plain method is safe.                                     *)
LEMMA PlainPlanIsSafe ==
    ASSUME NEW op, OpFits(op), op.kind # "import", NEW fs, Sound(fs),
           Nothing \notin Documents, AbsentIsNoImage,
           fs["receipts"] = Absent \/ op.kind # "approve", NEW plan \in AllPlans(op, fs)
    PROVE  Safe(plan, 0, fs)
<1>1. Safe(<<>>, 0, fs) /\ Safe(<<Deny("rejected")>>, 0, fs) BY NoneIsSafe, DenyIsSafe
<1>2. CASE op.kind = "create"
  <2>1. AllPlans(op, fs) = CreatePlans(op, fs) BY <1>2, Zenon DEF AllPlans
  <2> QED BY <2>1, CreateIsSafe
<1>3. CASE op.kind = "turn"
  <2>1. plan \in TurnPlans(op, fs) BY <1>3 DEF AllPlans
  <2>2. PICK v : v = fs["turns"] \cup {op.turn} OBVIOUS
  <2>3. plan = <<>> \/ plan = <<Deny("rejected")>> \/ plan = <<Put("turns", v)>>
    BY <2>1, <2>2, Zenon DEF TurnPlans
  <2>4. Safe(<<Put("turns", v)>>, 0, fs) BY OthersAreAside, AsideIsSafe
  <2> QED BY <1>1, <2>3, <2>4
<1>4. CASE op.kind = "archive"
  <2>1. plan \in ArchivePlans(op, fs) BY <1>4 DEF AllPlans
  <2>2. PICK v : plan = <<Put("ledger", v)>> BY <2>1, Zenon DEF ArchivePlans
  <2>3. Safe(<<Put("ledger", v)>>, 0, fs) BY OthersAreAside, AsideIsSafe
  <2> QED BY <2>2, <2>3
<1>5. CASE op.kind = "core"
  <2>1. plan \in CorePlans(op, fs) BY <1>5 DEF AllPlans
  <2>2. PICK v : plan = <<Put("core", v)>> BY <2>1, Zenon DEF CorePlans
  <2>3. Safe(<<Put("core", v)>>, 0, fs) BY OthersAreAside, AsideIsSafe
  <2> QED BY <2>2, <2>3
<1>6. CASE op.kind = "save"
  <2>1. plan \in SavePlans(op, fs) BY <1>6 DEF AllPlans
  <2>2. PICK proposal : proposal = Proposed(op.by) OBVIOUS
  <2>3. IsRevision(proposal) BY <2>2, ProposedIsRevision
  <2>4. Safe(SaveWrites(op.rev, proposal, fs), 0, fs) BY <2>3, SaveIsSafe
  <2> QED BY <2>1, <2>2, <2>4 DEF SavePlans
<1>7. CASE op.kind = "decide"
  <2>1. plan \in DecidePlans(op, fs) BY <1>7 DEF AllPlans
  <2>2. op.to = "revoked" \/ op.expected = "pending" BY <1>7 DEF OpFits
  <2>3. Safe(DecideWrites(op.rev, op.to, op.by, op.expected, fs), 0, fs) BY <2>2, DecideIsSafe
  <2> QED BY <2>1, <2>3 DEF DecidePlans
<1>8. CASE op.kind = "approve"
  <2>1. plan \in ApprovePlans(op, fs) BY <1>8 DEF AllPlans
  <2>2. PICK rev, rel, who, expected :
            rev = op.rev /\ rel = op.rel /\ who = op.by /\ expected = op.expected
    OBVIOUS
  <2>3. rev \in Nat \ {0} BY <1>8, <2>2 DEF OpFits
  <2>4. plan = ApproveAndBind(rev, rel, who, expected, fs) BY <2>1, <2>2 DEF ApprovePlans
  <2>5. PICK left : left = Leftover(rev, fs) OBVIOUS
  <2>6. PICK store : store = Written(left, fs) OBVIOUS
  <2>7. PICK right : right = Approval(rev, rel, who, expected, store) OBVIOUS
  <2>8. PICK image : image = ApprovalImage(rev, who, store) OBVIOUS
  <2>11. store["receipts"] = Absent BY <1>8, <2>5, <2>6, LeftoverWritten
  <2>12. right # AtOnce(image)
    <3>1. right = <<>> \/ right = <<Deny("rejected")>> \/ right = Journalled(image, rev)
      BY <2>7, <2>8, <2>11, ApprovalIs
    <3> QED BY <3>1, AtOnceIsTwo
  <2>13. ~GoesAtOnce(rev, rel, who, expected, fs)
    BY <2>5, <2>6, <2>7, <2>8, <2>12, Zenon DEF GoesAtOnce
  <2> QED BY <2>3, <2>4, <2>13, ApproveIsSafe
<1>9. CASE op.kind = "open"
  <2>1. plan \in OpenPlans(op, fs) BY <1>9 DEF AllPlans
  <2>2. Safe(Replays(fs), 0, fs) BY ReplaysAreSafe
  <2> QED BY <2>1, <2>2 DEF OpenPlans
<1>10. \/ op.kind = "create" \/ op.kind = "turn" \/ op.kind = "archive" \/ op.kind = "core"
       \/ op.kind = "save" \/ op.kind = "decide" \/ op.kind = "approve" \/ op.kind = "open"
  BY DEF AllPlans
<1> QED BY <1>2, <1>3, <1>4, <1>5, <1>6, <1>7, <1>8, <1>9, <1>10

LEMMA FoundFits ==
    ASSUME NEW op, OpFits(op), NEW found,
           found = IF op.whole THEN [op EXCEPT !.seen = <<>>] ELSE op
    PROVE  OpFits(found)
<1>1. CASE ~op.whole BY <1>1
<1>2. CASE op.whole
  <2>1. op = [kind |-> "import", whole |-> TRUE, pack |-> op.pack, over |-> op.over,
              guard |-> op.guard, fresh |-> op.fresh, seen |-> op.seen]
    BY <1>2 DEF OpFits
  <2>2. PICK none, yes : none = <<>> /\ yes = op.whole OBVIOUS
  <2>3. PICK a, b, c, d, e :
           /\ op = [kind |-> "import", whole |-> yes, pack |-> a, over |-> b,
                    guard |-> c, fresh |-> d, seen |-> e]
    BY <1>2, <2>1, <2>2
  <2>4. PICK clear : clear = [kind |-> "import", whole |-> yes, pack |-> a, over |-> b,
                              guard |-> c, fresh |-> d, seen |-> none]
    OBVIOUS
  <2>5. [op EXCEPT !.seen = none] = clear BY <2>3, <2>4
  <2>6. found = clear BY <1>2, <2>2, <2>5
  <2>7. /\ found.kind = "import" /\ found.pack = op.pack /\ found.fresh = op.fresh
        /\ found.whole = op.whole /\ op.kind = "import"
    BY <2>3, <2>4, <2>6
  <2>8. found = [kind |-> "import", whole |-> TRUE, pack |-> found.pack,
                 over |-> found.over, guard |-> found.guard, fresh |-> found.fresh,
                 seen |-> found.seen]
    <3>1. found = [kind |-> "import", whole |-> yes, pack |-> found.pack,
                   over |-> found.over, guard |-> found.guard, fresh |-> found.fresh,
                   seen |-> found.seen]
      BY <2>4, <2>6
    <3>2. yes = TRUE BY <2>1, <2>2
    <3> QED BY <3>1, <3>2
  <2> QED BY <2>7, <2>8 DEF OpFits, OpOK
<1> QED BY <1>1, <1>2

LEMMA OutcomesAreSound ==
    ASSUME NEW op, OpFits(op), NEW fs, Sound(fs), Nothing \notin Documents, AbsentIsNoImage,
           NEW gs \in Outcomes(op, fs)
    PROVE  Sound(gs)
<1>1. PICK found : found = IF op.whole THEN [op EXCEPT !.seen = <<>>] ELSE op OBVIOUS
<1>2. PICK plan \in AllPlans(found, fs) :
          ~Denied(plan) /\ \E skipped \in SUBSET Ignored(plan) : gs = Written(Without(plan, skipped), fs)
  BY <1>1, Zenon DEF Outcomes
<1>3. PICK skipped \in SUBSET Ignored(plan) : gs = Written(Without(plan, skipped), fs) BY <1>2
<1>4. OpFits(found) BY <1>1, FoundFits
<1>5. Sane(fs) /\ StoreOK(fs) BY SaneIsStore DEF Sound
<1>6. PICK closed : closed = Closed(fs) OBVIOUS
<1>7. PlanOK(plan, closed) BY <1>4, <1>5, <1>6, AllPlansAreOK DEF OpFits
<1>8. skipped \subseteq Ignored(plan) OBVIOUS
<1>9. CASE found.kind = "import"
  <2>1. plan \in ImportPlans(found, fs) BY <1>9 DEF AllPlans
  <2>2. PackOK(found.pack) BY <1>4, <1>9, PacksAreOK DEF OpFits, OpOK
  <2>3. Fair(plan, fs) BY <1>2, <1>5, <2>1, <2>2, ImportIsFair
  <2> QED BY <1>3, <1>7, <1>8, <2>3, FairOutcome
<1>10. CASE found.kind = "approve"
  <2>1. plan \in ApprovePlans(found, fs) BY <1>10 DEF AllPlans
  <2>2. PICK rev, rel, who, expected :
            rev = found.rev /\ rel = found.rel /\ who = found.by /\ expected = found.expected
    OBVIOUS
  <2>3. rev \in Nat \ {0} BY <1>4, <1>10, <2>2 DEF OpFits
  <2>4. plan = ApproveAndBind(rev, rel, who, expected, fs) BY <2>1, <2>2 DEF ApprovePlans
  <2> QED BY <1>3, <1>7, <1>8, <2>3, <2>4, ApproveEndsSound
<1>11. CASE found.kind # "import" /\ found.kind # "approve"
  <2>1. Safe(plan, 0, fs) BY <1>4, <1>11, PlainPlanIsSafe
  <2> QED BY <1>3, <1>7, <1>8, <2>1, SafePlanEndsSound
<1> QED BY <1>9, <1>10, <1>11

-----------------------------------------------------------------------------
(* The stores an engine begins with and an erasure leaves                    *)

LEMMA UnpinnedIsSound ==
    ASSUME NEW fs, fs = [f \in Documents |-> fs[f]], IsProfile(fs["profile"]),
           fs["profile"].manifest = 0, Consistent(fs["compilations"]),
           \A f \in Approvals : fs[f] = Absent
    PROVE  Sound(fs)
<1>1. ASSUME NEW f \in Documents PROVE Decent(f, fs[f]) BY DEF Decent
<1>2. Agreed(fs) BY DEF Agreed, Made
<1> QED BY <1>1, <1>2 DEF Sound, Sane

LEMMA NoCompilationsSay ==
    \E none, unmade : /\ none = <<>> /\ unmade = {}
                      /\ NoCompilations = [revisions |-> none, manifests |-> unmade]
<1>1. PICK none, unmade : none = <<>> /\ unmade = {} OBVIOUS
<1>2. NoCompilations = [revisions |-> none, manifests |-> unmade] BY <1>1 DEF NoCompilations
<1> QED BY <1>1, <1>2

LEMMA UndecidedIsConsistent ==
    ASSUME NEW revs, IsSeq(revs), \A i \in 1..Len(revs) : IsRevision(revs[i]),
           NEW unmade, unmade = {}, NEW c, c = [revisions |-> revs, manifests |-> unmade]
    PROVE  Consistent(c)
<1>1. c.revisions = revs /\ c.manifests = unmade OBVIOUS
<1>2. IsCompilations(c) BY <1>1 DEF IsCompilations
<1> QED BY <1>1, <1>2 DEF Consistent

LEMMA NoCompilationsAreConsistent == Consistent(NoCompilations)
<1>1. PICK none, unmade : /\ none = <<>> /\ unmade = {}
                          /\ NoCompilations = [revisions |-> none, manifests |-> unmade]
  BY NoCompilationsSay
<1>2. IsSeq(none) /\ Len(none) = 0 BY <1>1, EmptyIsSeq
<1>3. PICK c : c = NoCompilations OBVIOUS
<1>4. \A i \in 1..Len(none) : IsRevision(none[i]) BY <1>2
<1>5. Consistent(c) BY <1>1, <1>2, <1>3, <1>4, UndecidedIsConsistent
<1> QED BY <1>3, <1>5

LEMMA EmptySays ==
    ASSUME Files = Documents, NEW receipts, NEW store, store = EmptyStore(receipts)
    PROVE  /\ store = [f \in Documents |-> store[f]]
           /\ IsProfile(store["profile"]) /\ store["profile"].manifest = 0
           /\ store["compilations"] = NoCompilations
           /\ \A f \in Approvals : store[f] = Absent
<1>1. store["profile"] = NoRelationship BY DEF EmptyStore, Documents
<1>2. \A f \in Approvals : store[f] = Absent BY DEF EmptyStore, Documents, Approvals
<1>3. store["compilations"] = NoCompilations BY DEF EmptyStore, Documents
<1>4. store = [f \in Documents |-> store[f]] BY DEF EmptyStore
<1>5. IsProfile(store["profile"]) /\ store["profile"].manifest = 0
  BY <1>1 DEF NoRelationship, IsProfile
<1> QED BY <1>2, <1>3, <1>4, <1>5

LEMMA EmptyIsSound ==
    ASSUME Files = Documents, NEW receipts
    PROVE  Sound(EmptyStore(receipts))
<1>1. PICK store : store = EmptyStore(receipts) OBVIOUS
<1>2. Sound(store) BY <1>1, EmptySays, NoCompilationsAreConsistent, UnpinnedIsSound
<1> QED BY <1>1, <1>2

LEMMA ErasedIsSound ==
    ASSUME Files = Documents, NEW fs, \A f \in Approvals : Erased(fs)[f] = Absent
    PROVE  Sound(Erased(fs))
<1>1. CASE fs["receipts"] = Absent
  <2>1. PICK erased, empty : erased = ErasedFiles(fs) /\ empty = EmptyStore(Absent) OBVIOUS
  <2>2. Erased(fs) = erased BY <1>1, <2>1 DEF Erased
  <2>3. erased = [f \in Documents |-> IF f \in PairDocuments \cup Aggregates \cup Shared
                                      THEN empty[f] ELSE fs[f]]
    BY <2>1, Zenon DEF ErasedFiles
  <2>4. erased = [f \in Documents |-> erased[f]] BY <2>3
  <2>5. erased["profile"] = empty["profile"] /\ erased["compilations"] = empty["compilations"]
    BY <2>3 DEF PairDocuments, Aggregates, Shared, Documents
  <2>6. \A f \in Approvals : erased[f] = Absent BY <2>2
  <2>7. Sound(erased)
    BY <2>1, <2>4, <2>5, <2>6, EmptySays, NoCompilationsAreConsistent, UnpinnedIsSound
  <2> QED BY <2>2, <2>7
<1>2. CASE fs["receipts"] # Absent
  <2>1. Erased(fs) = EmptyStore({}) BY <1>2 DEF Erased, ErasedRows, RevokedReceipts
  <2>2. Sound(EmptyStore({})) BY EmptyIsSound
  <2> QED BY <2>1, <2>2
<1> QED BY <1>1, <1>2

LEMMA NewStoreIsSound ==
    ASSUME Init, Setting
    PROVE  Sound(files)
<1>1. Files = Documents BY DEF Setting
<1>2. PICK receipts \in {Absent, {}}, old \in {<<>>} \cup {Started(r) : r \in Known} :
          files = [f \in Files |-> IF f \in DOMAIN old THEN old[f] ELSE EmptyStore(receipts)[f]]
  BY DEF Init, MemoryInit
<1>3. PICK empty : empty = EmptyStore(receipts) OBVIOUS
<1>4. PICK fs : fs = files OBVIOUS
<1>5. fs = [f \in Documents |-> IF f \in DOMAIN old THEN old[f] ELSE empty[f]]
  BY <1>1, <1>2, <1>3, <1>4
<1>6. CASE old = <<>>
  <2>1. DOMAIN old = {} BY <1>6
  <2>2. fs = [f \in Documents |-> empty[f]] BY <1>5, <2>1
  <2>3. empty = [f \in Documents |-> empty[f]] BY <1>1, <1>3, EmptySays
  <2>4. Sound(empty) BY <1>1, <1>3, EmptyIsSound
  <2> QED BY <1>4, <2>2, <2>3, <2>4
<1>7. CASE old # <<>>
  <2>1. PICK r \in Known : old = Started(r) BY <1>2, <1>7
  <2>2. DOMAIN old = {"profile", "registry", "turns", "compilations"} BY <2>1 DEF Started
  <2>3. fs["profile"] = old["profile"] /\ fs["compilations"] = old["compilations"]
    BY <1>5, <2>2 DEF Documents
  <2>4. PICK v : v = [rel |-> r, manifest |-> 0] OBVIOUS
  <2>5. old["profile"] = v BY <2>1, <2>4 DEF Started
  <2>6. IsProfile(v) /\ v.manifest = 0 BY <2>4 DEF IsProfile
  <2>7. \A f \in Approvals : fs[f] = Absent
    <3>1. \A f \in Approvals : fs[f] = empty[f] BY <1>5, <2>2 DEF Approvals, Documents
    <3> QED BY <1>1, <1>3, <3>1, EmptySays
  <2>8. PICK w, one : w = Proposed("host") /\ one = <<w>> OBVIOUS
  <2>9. old["compilations"] = [NoCompilations EXCEPT !.revisions = one]
    BY <2>1, <2>8 DEF Started
  <2>10. PICK none, unmade : /\ none = <<>> /\ unmade = {}
                             /\ NoCompilations = [revisions |-> none, manifests |-> unmade]
    BY NoCompilationsSay
  <2>11. PICK blank : blank = NoCompilations OBVIOUS
  <2>a. blank = [revisions |-> none, manifests |-> unmade] BY <2>10, <2>11
  <2>12. [blank EXCEPT !.revisions = one] = [revisions |-> one, manifests |-> unmade]
    BY ONLY <2>a
  <2>13. PICK c : c = [revisions |-> one, manifests |-> unmade] OBVIOUS
  <2>14. old["compilations"] = c BY <2>9, <2>11, <2>12, <2>13
  <2>15. IsSeq(one) /\ Len(one) = 1 /\ one[1] = w BY <2>8, OneIsSeq
  <2>16. IsRevision(w) BY <2>8, ProposedIsRevision
  <2>17. \A i \in 1..Len(one) : IsRevision(one[i]) BY <2>15, <2>16
  <2>18. Consistent(c) BY <2>10, <2>13, <2>15, <2>17, UndecidedIsConsistent
  <2>19. fs = [f \in Documents |-> fs[f]] BY <1>5
  <2>20. Sound(fs) BY <2>3, <2>5, <2>6, <2>7, <2>14, <2>18, <2>19, UnpinnedIsSound
  <2> QED BY <1>4, <2>20
<1> QED BY <1>6, <1>7

-----------------------------------------------------------------------------
(* The engine over its storage                                               *)

(* What is committed is sound, and what a plain method has left to write     *)
(* keeps it so.                                                              *)
Settles(p) == Safe(task[p].plan, task[p].done, Base)

PinInv ==
    /\ Sound(Base)
    /\ \A p \in Processes : task[p].at = "write" /\ ~Whole(p) => Settles(p)

LEMMA CommittedIsSound ==
    ASSUME IInv, PinInv, Setting, AbsentIsNoImage, Moved
    PROVE  Sound(Base')
<1>1. /\ JournalOK /\ StoreOK(files) /\ Files = Documents /\ Nothing \notin Documents
  BY StorageAssumption DEF IInv, Setting
<1>2. Sound(Base) BY DEF PinInv
<1>3. CASE Base' = Base BY <1>2, <1>3
<1>4. ASSUME NEW p \in Processes, Base' \in Outcomes(task[p].op, Base) PROVE Sound(Base')
  <2>1. PICK fs, gs, op : fs = Base /\ gs = Base' /\ op = task[p].op OBVIOUS
  <2>2. OpFits(op) BY <2>1 DEF IInv, Tasks
  <2>3. Sound(gs) BY <1>1, <1>2, <1>4, <2>1, <2>2, OutcomesAreSound
  <2> QED BY <2>1, <2>3
<1>5. ASSUME NEW p \in Processes, task[p].at = "write", ~Whole(p),
             task[p].done < Len(task[p].plan),
             Base' = [Base EXCEPT ![NextWrite(p).file] = NextWrite(p).to]
      PROVE  Sound(Base')
  <2>1. Settles(p) BY <1>5 DEF PinInv
  <2>2. PICK plan, n : plan = task[p].plan /\ n = task[p].done OBVIOUS
  <2>3. PICK fs, gs : fs = Base /\ gs = Base' OBVIOUS
  <2>4. n < Len(plan) /\ Safe(plan, n, fs) BY <1>5, <2>1, <2>2, <2>3 DEF Settles
  <2>5. gs = [fs EXCEPT ![plan[n + 1].file] = plan[n + 1].to] BY <1>5, <2>2, <2>3 DEF NextWrite
  <2>6. Safe(plan, n, gs) BY <2>4, <2>5, SafeGoesOn
  <2>7. Sound(gs) BY <2>6, SafeIsSound
  <2> QED BY <2>3, <2>7
<1>6. CASE Base' = Erased(Base) /\ \A f \in Approvals : Base'[f] = Absent
  <2>1. PICK fs, gs : fs = Base /\ gs = Base' OBVIOUS
  <2>2. gs = Erased(fs) /\ \A f \in Approvals : gs[f] = Absent BY <1>6, <2>1
  <2>3. Sound(gs) BY <1>1, <2>2, ErasedIsSound
  <2> QED BY <2>1, <2>3
<1> QED BY <1>3, <1>4, <1>5, <1>6 DEF Moved

LEMMA AwayIsSettled ==
    ASSUME PinInv, Away
    PROVE  \A p \in Processes : (task[p].at = "write" /\ ~Whole(p))' => Settles(p)'
<1>1. Base' = Base BY SameBase DEF Away
<1> QED BY <1>1 DEF Away, PinInv, Settles, Whole

(* No journal has an image of the receipts.                                  *)
ReceiptsCommitted == Base["receipts"] = files["receipts"]

LEMMA ReceiptsStand == IInv /\ Setting => ReceiptsCommitted
<1> SUFFICES ASSUME IInv, Setting PROVE ReceiptsCommitted OBVIOUS
<1>1. JournalOK /\ StoreOK(files) /\ Files = Documents BY DEF IInv, Setting
<1>2. "receipts" \notin Images BY <1>1, ContentsFit
<1> QED BY <1>1, <1>2 DEF Base, Contents, Documents, ReceiptsCommitted

LEMMA TurnIsSettled ==
    ASSUME IInv, PinInv, Setting, AbsentIsNoImage, NEW r \in Processes, Turns(r),
           DatabaseOK', ReceiptsCommitted',
           NEW p \in Processes, task'[p].at = "write", ~Whole(p)'
    PROVE  Settles(p)'
<1>1. /\ JournalOK /\ StoreOK(files) /\ Files = Documents /\ Nothing \notin Documents /\ Tasks
      /\ ProcessOK(p)
  BY StorageAssumption DEF IInv, Setting
<1>2. Sound(Base) BY DEF PinInv
<1>3. p = r
  <2>1. SUFFICES ASSUME p # r PROVE FALSE OBVIOUS
  <2>2. task'[p] = task[p] BY <2>1 DEF Turns, OnlyTask
  <2>3. lock = p BY <1>1, <2>2 DEF ProcessOK, Busy
  <2> QED BY <2>1, <2>3, StorageAssumption DEF Turns
<1>4. CASE Chosen(p)
  <2>1. PICK op, fs : op = task[p].op /\ fs = Base OBVIOUS
  <2>2. PICK plan : plan = task'[p].plan OBVIOUS
  <2>3. OpFits(op) /\ plan \in AllPlans(op, fs) BY <1>1, <1>4, <2>1, <2>2 DEF Tasks, Chosen
  <2>4. Sound(fs) BY <1>2, <2>1
  <2>5. fs["receipts"] = Absent
    <3>1. files'["receipts"] = Absent BY DEF DatabaseOK, Transactional, Busy
    <3>2. Base'["receipts"] = files'["receipts"] BY DEF ReceiptsCommitted
    <3>3. Base' = fs BY <1>4, <2>1 DEF Chosen
    <3> QED BY <3>1, <3>2, <3>3
  <2>6. op.kind # "import"
    <3>1. task'[p].op = op BY <1>4, <2>1 DEF Chosen
    <3>2. ~op.whole BY <3>1 DEF Whole
    <3> QED BY <2>3, <3>2 DEF OpFits
  <2>7. Safe(plan, 0, fs) BY <1>1, <2>3, <2>4, <2>5, <2>6, PlainPlanIsSafe
  <2> QED BY <1>4, <2>1, <2>2, <2>7 DEF Chosen, Settles
<1>5. CASE Advanced(p)
  <2>1. Settles(p) BY <1>5 DEF Advanced, PinInv
  <2>2. PICK plan, n, m : plan = task[p].plan /\ n = task[p].done /\ m = task'[p].done OBVIOUS
  <2>3. PICK fs, gs : fs = Base /\ gs = Base' OBVIOUS
  <2>4. Safe(plan, n, fs) BY <2>1, <2>2, <2>3 DEF Settles
  <2>5. n < Len(plan) /\ m \in {n, n + 1} /\ task'[p].plan = plan
    BY <1>5, <2>2 DEF Advanced
  <2>6. \/ gs = [fs EXCEPT ![plan[n + 1].file] = plan[n + 1].to]
        \/ gs = fs /\ (m = n \/ plan[n + 1].failing = "ignore")
    BY <1>5, <2>2, <2>3 DEF Advanced, NextWrite
  <2>7. Safe(plan, m, gs)
    <3>1. CASE gs = [fs EXCEPT ![plan[n + 1].file] = plan[n + 1].to]
      <4>1. Safe(plan, n + 1, gs) /\ Safe(plan, n, gs) BY <2>4, <2>5, <3>1, SafeGoesOn
      <4> QED BY <2>5, <4>1
    <3>2. CASE gs = fs /\ m = n BY <2>4, <3>2
    <3>3. CASE gs = fs /\ m = n + 1 /\ plan[n + 1].failing = "ignore"
      BY <2>4, <2>5, <3>3, SafeGoesOn
    <3> QED BY <2>5, <2>6, <3>1, <3>2, <3>3
  <2> QED BY <2>2, <2>3, <2>5, <2>7 DEF Settles
<1> QED BY <1>3, <1>4, <1>5 DEF Turns

LEMMA PinInvStays ==
    ASSUME IInv, PinInv, Setting, AbsentIsNoImage, [Next]_evars, IInv', ReceiptsCommitted',
           ~lost'
    PROVE  PinInv'
<1>1. Moved /\ Recalls BY NextIsFine DEF Simulated
<1>2. Sound(Base') BY <1>1, CommittedIsSound
<1>3. Tasks /\ DatabaseOK' BY DEF IInv
<1>4. \A p \in Processes : (task[p].at = "write" /\ ~Whole(p))' => Settles(p)'
  <2>1. CASE UNCHANGED evars
    <3>1. Away BY <2>1 DEF evars, pvars, Away
    <3> QED BY <3>1, AwayIsSettled
  <2>2. ASSUME NEW r \in Processes, MemoryStep(r) \/ PersonaStep(r) \/ Die(r)
        PROVE  \A p \in Processes : (task[p].at = "write" /\ ~Whole(p))' => Settles(p)'
    <3>1. Away BY <1>1, <1>3, <2>2, MemoryStepIsAway, PersonaStepIsAway, DieIsAway
    <3> QED BY <3>1, AwayIsSettled
  <2>3. ASSUME NEW r \in Processes, Store(r)
        PROVE  \A p \in Processes : (task[p].at = "write" /\ ~Whole(p))' => Settles(p)'
    <3>1. Turns(r)
      <4>1. CASE Transactional BY <2>3, <4>1, TransactTurns DEF Store
      <4>2. CASE ~Transactional
        <5>1. StorageStep(r) /\ Stepping BY <1>1, <2>3, <4>2 DEF Store, Stepping
        <5> QED BY <5>1, StorageStepTurns
      <4> QED BY <4>1, <4>2
    <3> QED BY <1>3, <3>1, TurnIsSettled
  <2>4. ASSUME NEW scope \in {"relationship", "complete user"}, Erase(scope)
        PROVE  \A p \in Processes : (task[p].at = "write" /\ ~Whole(p))' => Settles(p)'
    <3>1. task' = [p \in Processes |-> Resting("down", NoOp, "none")]
      BY <2>4, RestingTasks DEF Erase
    <3>2. \A p \in Processes : task'[p].at = "down" BY <3>1 DEF Resting
    <3> QED BY <3>2
  <2> QED BY <2>1, <2>2, <2>3, <2>4 DEF Next, Done
<1> QED BY <1>2, <1>4 DEF PinInv

LEMMA NewStoreIsPinned ==
    ASSUME Init, Setting
    PROVE  PinInv
<1>1. journal = Nothing /\ task = [p \in Processes |-> Idle] /\ Files = Documents
  BY DEF Init, StorageInit, Setting
<1>2. IInv /\ StoreOK(files) BY InitIsFine DEF IInv
<1>3. Base = files BY <1>1, <1>2, NoJournal, BaseWithoutImages
<1>4. Sound(files) BY NewStoreIsSound
<1>5. \A p \in Processes : task[p].at = "idle" BY <1>1 DEF Idle
<1> QED BY <1>3, <1>4, <1>5 DEF PinInv

LEMMA SoundIsPinned ==
    ASSUME Setting, Sound(Base)
    PROVE  PinnedIsApproved
<1>1. Files = Documents BY DEF Setting
<1>2. /\ Contents("profile") = Base["profile"] /\ Contents("compilations") = Base["compilations"]
      /\ \A f \in Approvals : Contents(f) = Base[f]
  BY <1>1 DEF Base, Documents, Approvals
<1>3. PICK fs : fs = Base OBVIOUS
<1>4. PICK pin : pin = fs["profile"].manifest OBVIOUS
<1>5. SUFFICES ASSUME pin # 0, \A f \in {ApprovalJournal(r) : r \in 1..2} : Contents(f) = Absent
               PROVE  /\ \E m \in fs["compilations"].manifests : m.rev = pin
                      /\ fs["compilations"].revisions[pin].status \in {"approved", "revoked"}
  BY <1>2, <1>3, <1>4 DEF PinnedIsApproved, PinnedFaithfully
<1>6. \A f \in Approvals : fs[f] = Absent
  <2>1. 1 \in 1..2 /\ 2 \in 1..2 /\ 2 # 1 OBVIOUS
  <2>2. ApprovalJournal(1) = "approval of 1" /\ ApprovalJournal(2) = "approval of 2"
    BY <2>1 DEF ApprovalJournal
  <2>3. Contents("approval of 1") = Absent /\ Contents("approval of 2") = Absent
    BY <1>5, <2>1, <2>2
  <2> QED BY <1>2, <1>3, <2>3 DEF Approvals
<1>7. Sane(fs) /\ Made(fs["compilations"], pin) BY <1>3, <1>4, <1>6 DEF Sound, Agreed
<1>8. PICK m \in fs["compilations"].manifests : m.rev = pin BY <1>5, <1>7 DEF Made
<1>9. Consistent(fs["compilations"]) BY <1>7, SaneHolds
<1> QED BY <1>8, <1>9 DEF Consistent

(* However many processes approve, decide, import and recover at once, fail  *)
(* and crash between two writes, a relationship is pinned only to a Manifest *)
(* that is there and was approved, unless an approval's journal is there to  *)
(* say so, for as long as no before-image of a pack was lost                 *)
(* (file_storage.py:618-647, 2791-2917, memory_pack_transfer.py:909).        *)
THEOREM PinsAreApproved == Setting /\ AbsentIsNoImage => (Spec => []PinnedIsApproved)
<1> SUFFICES ASSUME Setting, AbsentIsNoImage PROVE Spec => []PinnedIsApproved OBVIOUS
<1>1. Init => IInv /\ PinInv BY InitIsFine, NewStoreIsPinned
<1>2. IInv /\ [Next]_evars => IInv' BY NextIsFine
<1>3. IInv => ReceiptsCommitted BY ReceiptsStand
<1>4. IInv /\ (lost \/ PinInv) /\ [Next]_evars /\ IInv' /\ ReceiptsCommitted'
        => (lost \/ PinInv)'
  <2>1. IInv /\ [Next]_evars => (lost => lost') BY NextIsFine DEF Recalls
  <2> QED BY <2>1, PinInvStays
<1>5. lost \/ PinInv => PinnedIsApproved
  BY SoundIsPinned DEF PinInv, PinnedIsApproved
<1> QED BY <1>1, <1>2, <1>3, <1>4, <1>5, PTL DEF Spec

-----------------------------------------------------------------------------
(* Imported once                                                             *)

(* Plans that leave a document alone.                                        *)
Spares(plan, f) == IsSeq(plan) /\ \A i \in 1..Len(plan) : plan[i].file # f

LEMMA ClosedIsSpared ==
    ASSUME NEW plan, NEW closed, PlanOK(plan, closed), NEW f \in closed
    PROVE  Spares(plan, f)
BY DEF PlanOK, WriteOK, Spares

LEMMA SparesJoin ==
    ASSUME NEW s, NEW r, NEW f, Spares(s, f), Spares(r, f)
    PROVE  Spares(s \o r, f)
<1>1. PICK plan : plan = s \o r OBVIOUS
<1>2. IsSeq(s) /\ IsSeq(r) BY DEF Spares
<1>a. Len(s) \in Nat /\ Len(r) \in Nat BY <1>2 DEF IsSeq
<1>3. /\ IsSeq(plan) /\ Len(plan) = Len(s) + Len(r)
      /\ \A i \in 1..Len(s) : plan[i] = s[i]
      /\ \A i \in 1..Len(r) : plan[Len(s) + i] = r[i]
  BY <1>1, <1>2, ConcatIsSeq
<1>4. ASSUME NEW i \in 1..Len(plan) PROVE plan[i].file # f
  <2>1. CASE i \in 1..Len(s) BY <1>3, <2>1 DEF Spares
  <2>2. CASE i \notin 1..Len(s)
    <3>1. i - Len(s) \in 1..Len(r) /\ i = Len(s) + (i - Len(s)) BY <1>3, <1>a, <2>2
    <3>2. plan[i] = r[i - Len(s)] BY <1>3, <3>1
    <3> QED BY <3>1, <3>2 DEF Spares
  <2> QED BY <2>1, <2>2
<1>5. Spares(plan, f) BY <1>3, <1>4 DEF Spares
<1> QED BY <1>1, <1>5

LEMMA SparedStays ==
    ASSUME NEW plan, NEW f, Spares(plan, f), NEW fs, f \in DOMAIN fs
    PROVE  Written(plan, fs)[f] = fs[f]
<1>1. PICK n : n = Len(plan) OBVIOUS
<1>2. n \in Nat /\ \A i \in 1..n : plan[i].file # f BY <1>1 DEF Spares, IsSeq
<1>3. After(plan, n, fs)[f] = fs[f] BY <1>2, AfterIsOldOrWritten
<1> QED BY <1>1, <1>3 DEF Written

(* What a plan makes of a document depends on that document.                 *)
LEMMA WrittenAlike ==
    ASSUME NEW plan, NEW fs, NEW gs, NEW f, f \in DOMAIN fs, f \in DOMAIN gs, fs[f] = gs[f]
    PROVE  Written(plan, fs)[f] = Written(plan, gs)[f]
BY DEF Written, After

(* Of two plans one after the other, one of which leaves a document alone,   *)
(* the other makes it what it is.                                            *)
LEMMA FirstMakes ==
    ASSUME NEW s, NEW r, NEW plan, IsJoin(plan, s, r), NEW f, Spares(r, f),
           NEW fs, StoreOK(fs), f \in Documents
    PROVE  Written(plan, fs)[f] = Written(s, fs)[f]
<1>1. PICK gs : gs = Written(s, fs) OBVIOUS
<1>2. IsJoin(plan, s, r) /\ StoreOK(fs) /\ gs = Written(s, fs) BY <1>1
<1>3. Written(plan, fs) = Written(r, gs) BY ONLY <1>2, WrittenConcat
<1>4. f \in DOMAIN gs BY <1>1 DEF Written, After, StoreOK
<1>5. Written(r, gs)[f] = gs[f] BY <1>4, SparedStays
<1> QED BY <1>1, <1>3, <1>5

LEMMA SecondMakes ==
    ASSUME NEW s, NEW r, NEW plan, IsJoin(plan, s, r), NEW f, Spares(s, f),
           NEW fs, StoreOK(fs), f \in Documents
    PROVE  Written(plan, fs)[f] = Written(r, fs)[f]
<1>1. PICK gs : gs = Written(s, fs) OBVIOUS
<1>2. IsJoin(plan, s, r) /\ StoreOK(fs) /\ gs = Written(s, fs) BY <1>1
<1>3. Written(plan, fs) = Written(r, gs) BY ONLY <1>2, WrittenConcat
<1>4. f \in DOMAIN gs /\ f \in DOMAIN fs BY <1>1 DEF Written, After, StoreOK
<1>5. gs[f] = fs[f] BY <1>1, <1>4, SparedStays
<1>6. Written(r, gs)[f] = Written(r, fs)[f] BY <1>4, <1>5, WrittenAlike
<1> QED BY <1>3, <1>6

-----------------------------------------------------------------------------
(* What an import writes                                                     *)

LEMMA WholeSequence ==
    ASSUME NEW t, IsSeq(t)
    PROVE  SubSeq(t, 1, Len(t)) = t
<1>1. t \in Seq(Elements(t)) BY SeqOfElements
<1>2. PICK S : S = Elements(t) OBVIOUS
<1>3. t \in Seq(S) BY <1>1, <1>2
<1> QED BY <1>3

LEMMA NothingMore ==
    ASSUME NEW s, NEW t, IsSeq(s), IsSeq(t), Len(t) = 0
    PROVE  s \o t = s
<1>1. PICK u : u = s \o t OBVIOUS
<1>2. /\ IsSeq(u) /\ Len(u) = Len(s) + Len(t) /\ \A i \in 1..Len(s) : u[i] = s[i]
      /\ Len(s) \in Nat
  BY <1>1, ConcatIsSeq DEF IsSeq
<1>3. Len(u) = Len(s) BY <1>2
<1>4. u = s BY <1>2, <1>3 DEF IsSeq
<1> QED BY <1>1, <1>4

LEMMA TimelineWritten ==
    ASSUME NEW op, NEW fs, PackOK(op.pack), StoreOK(fs), IsSeq(fs["timeline"])
    PROVE  Written(TimelineWrites(op, fs), fs)["timeline"] = fs["timeline"] \o op.pack.timeline
<1>1. PICK tl, new : tl = fs["timeline"] /\ new = op.pack.timeline OBVIOUS
<1>2. PICK n : n = Len(new) OBVIOUS
<1>3. IsSeq(tl) /\ IsSeq(new) /\ n \in Nat BY <1>1, <1>2 DEF PackOK, IsSeq
<1> DEFINE write(i) == Put("timeline", tl \o SubSeq(new, 1, i))
           plan == [i \in 1..n |-> write(i)]
<1>4. TimelineWrites(op, fs) = plan BY <1>1, <1>2, Zenon DEF TimelineWrites
<1>5. \A i : write(i).file = "timeline" /\ write(i).to = tl \o SubSeq(new, 1, i) BY PutSays
<1>6. IsSeq(plan) /\ Len(plan) = n
  <2> HIDE DEF write
  <2> QED BY <1>3, FunctionIsSeq
<1>7. \A i \in 1..n : plan[i] = write(i) OBVIOUS
<1> HIDE DEF plan, write
<1>8. "timeline" \in DOMAIN fs BY DEF StoreOK, Documents
<1>9. CASE n = 0
  <2>1. Spares(plan, "timeline") BY <1>6, <1>9 DEF Spares
  <2>2. Written(plan, fs)["timeline"] = tl BY <1>1, <1>8, <2>1, SparedStays
  <2>3. tl \o new = tl BY <1>2, <1>3, <1>9, NothingMore
  <2> QED BY <1>1, <1>4, <2>2, <2>3
<1>10. CASE n # 0
  <2>1. PICK m : m = n - 1 OBVIOUS
  <2>2. m \in Nat BY <1>3, <1>10, <2>1
  <2>3. m + 1 = n /\ n \in 1..n BY <1>3, <1>10, <2>1
  <2>4. After(plan, m + 1, fs) = [After(plan, m, fs) EXCEPT ![plan[m + 1].file] = plan[m + 1].to]
    BY ONLY <2>2, AfterOneMore
  <2>5. "timeline" \in DOMAIN After(plan, m, fs) BY <1>8 DEF After
  <2>6. plan[n].file = "timeline" /\ plan[n].to = tl \o SubSeq(new, 1, n) BY <1>5, <1>7, <2>3
  <2>7. SubSeq(new, 1, n) = new BY <1>2, <1>3, WholeSequence
  <2>8. After(plan, n, fs)["timeline"] = tl \o new BY <2>3, <2>4, <2>5, <2>6, <2>7
  <2> QED BY <1>1, <1>4, <1>6, <2>8 DEF Written
<1> QED BY <1>9, <1>10

(* An import that goes through appends its timeline and leaves a receipt, or *)
(* it was done before.                                                       *)
Adds(op, fs, gs) ==
    /\ ~Receipted(op.pack, op.over, fs)
    /\ gs["timeline"] = fs["timeline"] \o op.pack.timeline
    /\ gs["receipts"] = fs["receipts"] \cup {Receipt(op.pack, op.over)}
LeavesAlone(fs, gs) == gs["timeline"] = fs["timeline"] /\ gs["receipts"] = fs["receipts"]

LEMMA PayloadAppends ==
    ASSUME NEW op, NEW fs, PackOK(op.pack), StoreOK(fs), IsSeq(fs["timeline"]),
           Nothing \notin Documents
    PROVE  Written(PayloadWrites(op, fs), fs)["timeline"] = fs["timeline"] \o op.pack.timeline
<1>0. PICK both : both = {"receipts", "timeline"} OBVIOUS
<1>a. \A f \in {"nodes", "core", "ledger"} : \A v : PlanOK(<<Put(f, v)>>, both)
  <2>1. ASSUME NEW f \in {"nodes", "core", "ledger"}, NEW v PROVE PlanOK(<<Put(f, v)>>, both)
    <3>1. f \in Plain /\ f \notin both /\ both \subseteq {"receipts", "timeline"}
      BY <1>0 DEF Plain
    <3> QED BY <3>1, PlainPlan
  <2> QED BY <2>1
<1>1. PICK a : a = <<Put("nodes", Merged(op, fs))>> OBVIOUS
<1>2. PlanOK(a, both) BY <1>a, <1>1
<1>3. PICK b : b = CoreWrites(op, fs) OBVIOUS
<1>4. PlanOK(b, both) BY <1>a, <1>3, EmptyPlan DEF CoreWrites
<1>5. PICK c : c = TimelineWrites(op, fs) OBVIOUS
<1>6. PICK none : none = {} OBVIOUS
<1>7. PlanOK(c, none) BY <1>5, <1>6, TimelineIsPlan
<1>8. PICK d : d = TurnWrites(op, fs) OBVIOUS
<1>9. PlanOK(d, both)
  <2>1. PICK turns : turns = op.pack.turns OBVIOUS
  <2>2. Len(turns) \in Nat /\ Len(turns) \in 0..Len(turns) BY <2>1 DEF PackOK, IsSeq
  <2>3. \A n \in 0..Len(turns) : PlanOK(NewTurns(turns, fs)[n], both)
    BY <1>0, <2>2, NewTurnsArePlans
  <2>4. PICK new : new = NewTurns(turns, fs)[Len(turns)] OBVIOUS
  <2>5. PlanOK(new, both) BY <2>2, <2>3, <2>4
  <2>6. PlanOK(<<Deny("rejected")>>, both) BY <1>0, DenyPlan
  <2>7. d = <<Deny("rejected")>> \/ d = new BY <1>8, <2>1, <2>4, Zenon DEF TurnWrites
  <2> QED BY <2>5, <2>6, <2>7
<1>10. PICK e : e = TombstoneWrites(op, fs) OBVIOUS
<1>11. PlanOK(e, both) BY <1>a, <1>10, EmptyPlan DEF TombstoneWrites
<1>12. "timeline" \in both /\ "timeline" \in Documents BY <1>0 DEF Documents
<1>13. /\ Spares(a, "timeline") /\ Spares(b, "timeline") /\ Spares(d, "timeline")
       /\ Spares(e, "timeline")
  BY <1>2, <1>4, <1>9, <1>11, <1>12, ClosedIsSpared
<1>14. PICK ab : ab = a \o b OBVIOUS
<1>15. PICK abc : abc = ab \o c OBVIOUS
<1>16. PICK abcd : abcd = abc \o d OBVIOUS
<1>17. PICK all : all = abcd \o e OBVIOUS
<1>18. Spares(ab, "timeline") BY <1>13, <1>14, SparesJoin
<1>19. IsSeq(ab) /\ IsSeq(c) /\ IsSeq(d) /\ IsSeq(e) BY <1>7, <1>13, <1>18 DEF Spares, PlanOK
<1>20. IsSeq(abc) BY <1>15, <1>19, ConcatIsSeq
<1>21. IsSeq(abcd) BY <1>16, <1>19, <1>20, ConcatIsSeq
<1>22. IsJoin(all, abcd, e) /\ IsJoin(abcd, abc, d) /\ IsJoin(abc, ab, c)
  BY <1>15, <1>16, <1>17, <1>19, <1>20, <1>21 DEF IsJoin
<1>23. Written(all, fs)["timeline"] = Written(abcd, fs)["timeline"]
  BY <1>12, <1>13, <1>22, FirstMakes
<1>24. Written(abcd, fs)["timeline"] = Written(abc, fs)["timeline"]
  BY <1>12, <1>13, <1>22, FirstMakes
<1>25. Written(abc, fs)["timeline"] = Written(c, fs)["timeline"]
  BY <1>12, <1>18, <1>22, SecondMakes
<1>26. Written(c, fs)["timeline"] = fs["timeline"] \o op.pack.timeline
  BY <1>5, TimelineWritten
<1>27. PayloadWrites(op, fs) = all
  BY <1>1, <1>3, <1>5, <1>8, <1>10, <1>14, <1>15, <1>16, <1>17, Zenon DEF PayloadWrites
<1> QED BY <1>23, <1>24, <1>25, <1>26, <1>27

LEMMA ImportAdds ==
    ASSUME NEW op, NEW fs, PackOK(op.pack), StoreOK(fs), IsSeq(fs["timeline"]),
           fs["receipts"] # Absent, Nothing \notin Documents,
           NEW plan \in ImportPlans(op, fs), ~Denied(plan)
    PROVE  Adds(op, fs, Written(plan, fs)) \/ LeavesAlone(fs, Written(plan, fs))
<1>0. PICK both, money : both = {"receipts", "timeline"} /\ money = {"receipts"} OBVIOUS
<1>1. PICK target : target = CreateTarget(op, fs) OBVIOUS
<1>2. PICK store : store = Written(target, fs) OBVIOUS
<1>3. PICK a : a = IF Compiled(op.pack) THEN CompilationWrites(op.pack, store) ELSE <<>>
  OBVIOUS
<1>4. PICK b : b = PayloadWrites(op, fs) OBVIOUS
<1>5. PICK c : c = ReceiptWrites(op, fs) OBVIOUS
<1>6. plan = <<>> \/ (~Receipted(op.pack, op.over, fs) /\ plan = target \o a \o b \o c)
  <2>1. plan # <<Deny("rejected")>> /\ plan # <<Deny("changed")>> BY DenyIsDenied
  <2> QED BY <1>1, <1>2, <1>3, <1>4, <1>5, <2>1, Zenon DEF ImportPlans
<1>7. CASE plan = <<>> BY <1>7, WrittenNone DEF LeavesAlone
<1>8. CASE ~Receipted(op.pack, op.over, fs) /\ plan = target \o a \o b \o c
  <2>1. PlanOK(target, both) BY <1>0, <1>1, CreateTargetIsPlan
  <2>2. StoreOK(store) BY <1>2, <2>1, WrittenFits
  <2>3. PlanOK(a, both) BY <1>0, <1>3, <2>2, CompilationIsPlan, EmptyPlan
  <2>4. PlanOK(b, money) BY <1>0, <1>4, PayloadIsPlan
  <2>5. PICK v : v = fs["receipts"] \cup {Receipt(op.pack, op.over)} OBVIOUS
  <2>6. PICK w : w = Put("receipts", v) OBVIOUS
  <2>7. c = <<w>> /\ w.file = "receipts" /\ w.to = v
    BY <1>5, <2>5, <2>6, PutSays DEF ReceiptWrites
  <2>8. IsSeq(c) /\ Len(c) = 1 /\ c[1] = w BY <2>7, OneIsSeq
  <2>9. /\ Spares(target, "timeline") /\ Spares(a, "timeline")
        /\ Spares(target, "receipts") /\ Spares(a, "receipts")
    BY <1>0, <2>1, <2>3, ClosedIsSpared
  <2>10. Spares(b, "receipts") BY <1>0, <2>4, ClosedIsSpared
  <2>11. Spares(c, "timeline") BY <2>7, <2>8 DEF Spares
  <2>12. PICK ta : ta = target \o a OBVIOUS
  <2>13. PICK tab : tab = ta \o b OBVIOUS
  <2>14. Spares(ta, "timeline") /\ Spares(ta, "receipts") BY <2>9, <2>12, SparesJoin
  <2>15. Spares(tab, "receipts") BY <2>10, <2>13, <2>14, SparesJoin
  <2>16. plan = tab \o c BY <1>8, <2>12, <2>13
  <2>17. IsJoin(plan, tab, c) /\ IsJoin(tab, ta, b)
    BY <2>8, <2>10, <2>13, <2>14, <2>15, <2>16 DEF IsJoin, Spares
  <2>18. "timeline" \in Documents /\ "receipts" \in Documents BY DEF Documents
  <2>19. Written(plan, fs)["timeline"] = Written(tab, fs)["timeline"]
    BY <2>11, <2>17, <2>18, FirstMakes
  <2>20. Written(tab, fs)["timeline"] = Written(b, fs)["timeline"]
    BY <2>14, <2>17, <2>18, SecondMakes
  <2>21. Written(b, fs)["timeline"] = fs["timeline"] \o op.pack.timeline
    BY <1>4, PayloadAppends
  <2>22. Written(plan, fs)["receipts"] = Written(c, fs)["receipts"]
    BY <2>15, <2>17, <2>18, SecondMakes
  <2>23. Written(c, fs) = [fs EXCEPT !["receipts"] = v] BY <2>7, WrittenOne
  <2>24. DOMAIN fs = Documents BY DEF StoreOK
  <2>25. Written(plan, fs)["receipts"] = v BY <2>18, <2>22, <2>23, <2>24
  <2> QED BY <1>8, <2>5, <2>19, <2>20, <2>21, <2>25 DEF Adds
<1> QED BY <1>6, <1>7, <1>8

(* What some of the writes were lost of touches no other document.           *)
LEMMA ClosedStays ==
    ASSUME NEW plan, NEW closed, PlanOK(plan, closed), NEW f \in closed, f \in Documents,
           NEW fs, StoreOK(fs), NEW skipped, skipped \subseteq Ignored(plan)
    PROVE  Written(Without(plan, skipped), fs)[f] = fs[f]
<1>1. PICK left : left = Without(plan, skipped) OBVIOUS
<1>2. IsSeq(plan) /\ DOMAIN plan = 1..Len(plan) /\ Len(plan) \in Nat BY DEF PlanOK, IsSeq
<1>3. /\ IsSeq(left) /\ Len(left) = Len(plan)
      /\ \A i \in 1..Len(plan) : left[i] = IF i \in skipped THEN plan[i - 1] ELSE plan[i]
  BY <1>1, <1>2, WithoutIsSeq
<1>4. ASSUME NEW i \in 1..Len(left) PROVE left[i].file # f
  <2>1. CASE i \notin skipped BY <1>3, <2>1 DEF PlanOK, WriteOK
  <2>2. CASE i \in skipped
    <3>1. plan[i].failing = "ignore" BY <2>2 DEF Ignored
    <3>2. i > 1 BY <1>3, <3>1 DEF PlanOK
    <3>3. i - 1 \in 1..Len(plan) BY <1>2, <1>3, <3>2
    <3> QED BY <1>3, <2>2, <3>3 DEF PlanOK, WriteOK
  <2> QED BY <2>1, <2>2
<1>5. Spares(left, f) BY <1>3, <1>4 DEF Spares
<1>6. f \in DOMAIN fs BY DEF StoreOK
<1> QED BY <1>1, <1>5, <1>6, SparedStays

-----------------------------------------------------------------------------
(* Counting                                                                  *)

Flags == BOOLEAN
Places(s, e) == {i \in 1..Len(s) : s[i] = e}
Overs(receipts, pack) == {over \in Flags : Receipt(pack, over) \in receipts}

(* Packs are told apart by their ids, and the entries of their timelines by  *)
(* where they are.                                                           *)
EntriesAreTold ==
    /\ \A a, b \in Packs : a.id = b.id => a = b
    /\ \A a, b \in Packs : \A i \in 1..Len(a.timeline), j \in 1..Len(b.timeline) :
          a.timeline[i] = b.timeline[j] => a = b /\ i = j

(* Every entry of a pack is there as often as the pack was imported.         *)
Counted(fs) ==
    fs["receipts"] # Absent =>
        /\ IsSeq(fs["timeline"])
        /\ \A pack \in Packs : \A k \in 1..Len(pack.timeline) :
              Cardinality(Places(fs["timeline"], pack.timeline[k]))
                = Cardinality(Overs(fs["receipts"], pack))

LEMMA PlacesAreFinite == ASSUME NEW s, IsSeq(s), NEW e PROVE IsFiniteSet(Places(s, e))
<1>1. Len(s) \in Nat BY DEF IsSeq
<1>2. IsFiniteSet(1..Len(s)) BY <1>1, FS_Interval
<1>3. Places(s, e) \in SUBSET (1..Len(s)) BY DEF Places
<1> QED BY <1>2, <1>3, FS_Subset

LEMMA OversAreFinite == ASSUME NEW r, NEW pack PROVE IsFiniteSet(Overs(r, pack))
<1>1. PICK yes, no : yes = TRUE /\ no = FALSE OBVIOUS
<1>2. IsFiniteSet({yes}) BY FS_Singleton
<1>3. IsFiniteSet({yes} \cup {no}) BY <1>2, FS_AddElement
<1>4. Flags = {yes} \cup {no} BY <1>1 DEF Flags
<1>5. IsFiniteSet(Flags) BY <1>3, <1>4
<1>6. Overs(r, pack) \in SUBSET Flags BY DEF Overs
<1> QED BY <1>5, <1>6, FS_Subset

LEMMA CountingIsAlike ==
    ASSUME NEW fs, NEW gs, Counted(fs), LeavesAlone(fs, gs)
    PROVE  Counted(gs)
BY DEF Counted, LeavesAlone

LEMMA CountingGoesOn ==
    ASSUME EntriesAreTold, NEW op, op.pack \in Packs, op.over \in Flags,
           NEW fs, fs["receipts"] # Absent, Counted(fs), NEW gs, Adds(op, fs, gs)
    PROVE  Counted(gs)
<1>1. PICK tl, all : tl = fs["timeline"] /\ all = gs["timeline"] OBVIOUS
<1>2. PICK r, s : r = fs["receipts"] /\ s = gs["receipts"] OBVIOUS
<1>3. PICK new : new = op.pack.timeline OBVIOUS
<1>4. PICK pack, over : pack = op.pack /\ over = op.over OBVIOUS
<1>5. IsSeq(tl) /\ IsSeq(new) BY <1>1, <1>3, PacksAreOK DEF Counted, PackOK
<1>6. /\ all = tl \o new /\ s = r \cup {Receipt(pack, over)} /\ Receipt(pack, over) \notin r
  BY <1>1, <1>2, <1>3, <1>4 DEF Adds, Receipted
<1>7. Len(tl) \in Nat /\ Len(new) \in Nat BY <1>5 DEF IsSeq
<1>8. /\ IsSeq(all) /\ Len(all) = Len(tl) + Len(new)
      /\ \A i \in 1..Len(tl) : all[i] = tl[i]
      /\ \A i \in 1..Len(new) : all[Len(tl) + i] = new[i]
  BY <1>5, <1>6, ConcatIsSeq
<1>9. \A i \in 1..Len(all) : i \in 1..Len(tl) \/ \E j \in 1..Len(new) : i = Len(tl) + j
  <2>1. ASSUME NEW i \in 1..Len(all), i \notin 1..Len(tl) PROVE \E j \in 1..Len(new) : i = Len(tl) + j
    <3>1. i - Len(tl) \in 1..Len(new) /\ i = Len(tl) + (i - Len(tl)) BY <1>7, <1>8, <2>1
    <3> QED BY <3>1
  <2> QED BY <2>1
<1>10. \A i \in 1..Len(tl) : i \in 1..Len(all) BY <1>7, <1>8
<1>11. \A j \in 1..Len(new) : Len(tl) + j \in 1..Len(all) /\ Len(tl) + j \notin 1..Len(tl)
  BY <1>7, <1>8
<1>12. ASSUME NEW q \in Packs, NEW k \in 1..Len(q.timeline)
       PROVE  Cardinality(Places(all, q.timeline[k])) = Cardinality(Overs(s, q))
  <2>1. PICK e : e = q.timeline[k] OBVIOUS
  <2>2. Cardinality(Places(tl, e)) = Cardinality(Overs(r, q))
    BY <1>1, <1>2, <2>1 DEF Counted
  <2>3. CASE q = pack
    <3>1. k \in 1..Len(new) /\ new[k] = e BY <1>3, <1>4, <2>1, <2>3
    <3>2. \A j \in 1..Len(new) : new[j] = e => j = k
      BY <1>3, <1>4, <2>1, <2>3 DEF EntriesAreTold
    <3>3. PICK n : n = Len(tl) + k OBVIOUS
    <3>4. Places(all, e) = Places(tl, e) \cup {n}
      <4>1. ASSUME NEW i \in Places(all, e) PROVE i \in Places(tl, e) \/ i = n
        <5>1. i \in 1..Len(all) /\ all[i] = e BY DEF Places
        <5>2. CASE i \in 1..Len(tl) BY <1>8, <5>1, <5>2 DEF Places
        <5>3. ASSUME NEW j \in 1..Len(new), i = Len(tl) + j PROVE i = n
          BY <1>8, <3>2, <3>3, <5>1, <5>3
        <5> QED BY <1>9, <5>1, <5>2, <5>3
      <4>2. ASSUME NEW i \in Places(tl, e) PROVE i \in Places(all, e)
        BY <1>8, <1>10 DEF Places
      <4>3. n \in Places(all, e) BY <1>8, <1>11, <3>1, <3>3 DEF Places
      <4> QED BY <4>1, <4>2, <4>3
    <3>5. n \notin Places(tl, e) BY <1>11, <3>1, <3>3 DEF Places
    <3>6. Cardinality(Places(all, e)) = Cardinality(Places(tl, e)) + 1
      BY <1>5, <3>4, <3>5, PlacesAreFinite, FS_AddElement
    <3>7. Overs(s, q) = Overs(r, q) \cup {over}
      BY <1>4, <1>6, <2>3 DEF Overs, Receipt
    <3>8. over \notin Overs(r, q) BY <1>6, <2>3 DEF Overs
    <3>9. Cardinality(Overs(s, q)) = Cardinality(Overs(r, q)) + 1
      BY <3>7, <3>8, OversAreFinite, FS_AddElement
    <3> QED BY <2>1, <2>2, <3>6, <3>9
  <2>4. CASE q # pack
    <3>1. \A j \in 1..Len(new) : new[j] # e
      BY <1>3, <1>4, <2>1, <2>4 DEF EntriesAreTold
    <3>2. Places(all, e) = Places(tl, e)
      <4>1. ASSUME NEW i \in Places(all, e) PROVE i \in Places(tl, e)
        <5>1. i \in 1..Len(all) /\ all[i] = e BY DEF Places
        <5>2. ASSUME NEW j \in 1..Len(new), i = Len(tl) + j PROVE FALSE
          BY <1>8, <3>1, <5>1, <5>2
        <5> QED BY <1>8, <1>9, <5>1, <5>2 DEF Places
      <4>2. ASSUME NEW i \in Places(tl, e) PROVE i \in Places(all, e)
        BY <1>8, <1>10 DEF Places
      <4> QED BY <4>1, <4>2
    <3>3. q.id # pack.id BY <1>4, <2>4 DEF EntriesAreTold
    <3>4. Overs(s, q) = Overs(r, q) BY <1>6, <3>3 DEF Overs, Receipt
    <3> QED BY <2>1, <2>2, <3>2, <3>4
  <2> QED BY <2>3, <2>4
<1> QED BY <1>1, <1>2, <1>8, <1>12 DEF Counted

-----------------------------------------------------------------------------
(* Every step counts                                                         *)

LEMMA OutcomesAreCounted ==
    ASSUME EntriesAreTold, NEW op, OpFits(op), NEW fs, StoreOK(fs), Counted(fs),
           Nothing \notin Documents, NEW gs \in Outcomes(op, fs)
    PROVE  Counted(gs)
<1>1. PICK found : found = IF op.whole THEN [op EXCEPT !.seen = <<>>] ELSE op OBVIOUS
<1>2. PICK plan \in AllPlans(found, fs) :
          ~Denied(plan) /\ \E skipped \in SUBSET Ignored(plan) : gs = Written(Without(plan, skipped), fs)
  BY <1>1, Zenon DEF Outcomes
<1>3. PICK skipped \in SUBSET Ignored(plan) : gs = Written(Without(plan, skipped), fs) BY <1>2
<1>4. OpFits(found) BY <1>1, FoundFits
<1>5. PICK closed : closed = Closed(fs) OBVIOUS
<1>6. PlanOK(plan, closed) BY <1>4, <1>5, AllPlansAreOK DEF OpFits
<1>7. skipped \subseteq Ignored(plan) OBVIOUS
<1>8. "timeline" \in Documents /\ "receipts" \in Documents BY DEF Documents
<1>9. CASE fs["receipts"] = Absent
  <2>1. "receipts" \in closed BY <1>5, <1>9 DEF Closed
  <2>2. gs["receipts"] = fs["receipts"] BY <1>3, <1>6, <1>7, <1>8, <2>1, ClosedStays
  <2> QED BY <1>9, <2>2 DEF Counted
<1>10. CASE fs["receipts"] # Absent /\ found.kind # "import"
  <2>1. PICK both : both = {"receipts", "timeline"} OBVIOUS
  <2>2. PlanOK(plan, both) BY <1>10, <2>1, PlainPlansAreOK
  <2>3. "timeline" \in both /\ "receipts" \in both BY <2>1
  <2>4. gs["receipts"] = fs["receipts"] /\ gs["timeline"] = fs["timeline"]
    BY <1>3, <1>7, <1>8, <2>2, <2>3, ClosedStays
  <2> QED BY <2>4, CountingIsAlike DEF LeavesAlone
<1>11. CASE fs["receipts"] # Absent /\ found.kind = "import"
  <2>1. plan \in ImportPlans(found, fs) BY <1>11 DEF AllPlans
  <2>2. found.pack \in Packs /\ found.over \in Flags BY <1>4, <1>11 DEF OpFits, OpOK, Flags
  <2>3. PackOK(found.pack) BY <2>2, PacksAreOK
  <2>4. IsSeq(fs["timeline"]) BY <1>11 DEF Counted
  <2>5. PICK hs : hs = Written(plan, fs) OBVIOUS
  <2>6. Adds(found, fs, hs) \/ LeavesAlone(fs, hs)
    BY <1>2, <1>11, <2>1, <2>3, <2>4, <2>5, ImportAdds
  <2>7. Counted(hs) BY <1>11, <2>2, <2>6, CountingGoesOn, CountingIsAlike
  <2>8. \A i \in 1..Len(plan) : plan[i].failing = "ignore" => plan[i].file \in Approvals
    BY <1>6 DEF PlanOK, WriteOK
  <2>9. /\ "timeline" \notin Approvals /\ "receipts" \notin Approvals
        /\ "timeline" \in DOMAIN fs /\ "receipts" \in DOMAIN fs
    BY <1>8 DEF Approvals, StoreOK
  <2>10. gs["timeline"] = hs["timeline"] /\ gs["receipts"] = hs["receipts"]
    BY <1>3, <1>6, <1>7, <2>5, <2>8, <2>9, LostElsewhere
  <2> QED BY <2>7, <2>10, CountingIsAlike DEF LeavesAlone
<1> QED BY <1>9, <1>10, <1>11

(* An empty store counts nothing.                                            *)
LEMMA NothingIsCounted ==
    ASSUME NEW fs, NEW none, none = {},
           fs["receipts"] = none, fs["timeline"] = <<>>
    PROVE  Counted(fs)
<1>1. PICK tl : tl = fs["timeline"] OBVIOUS
<1>2. IsSeq(tl) /\ Len(tl) = 0 BY <1>1, EmptyIsSeq
<1>3. ASSUME NEW e PROVE Cardinality(Places(tl, e)) = 0
  <2>1. Places(tl, e) = none BY <1>2 DEF Places
  <2> QED BY <2>1, FS_EmptySet
<1>4. ASSUME NEW pack PROVE Cardinality(Overs(none, pack)) = 0
  <2>1. Overs(none, pack) = none BY DEF Overs
  <2> QED BY <2>1, FS_EmptySet
<1> QED BY <1>1, <1>2, <1>3, <1>4 DEF Counted

LEMMA ErasedIsCounted ==
    ASSUME Files = Documents, NEW fs
    PROVE  Counted(Erased(fs))
<1>0. "timeline" \in Files /\ "receipts" \in Files BY DEF Documents
<1>1. CASE fs["receipts"] = Absent
  <2>1. ErasedFiles(fs)["receipts"] = fs["receipts"]
    BY <1>0 DEF ErasedFiles, PairDocuments, Aggregates, Shared
  <2> QED BY <1>1, <2>1 DEF Erased, Counted
<1>2. CASE fs["receipts"] # Absent
  <2>1. PICK none : none = {} OBVIOUS
  <2>2. PICK gs : gs = EmptyStore(none) OBVIOUS
  <2>3. Erased(fs) = gs BY <1>2, <2>1, <2>2 DEF Erased, ErasedRows, RevokedReceipts
  <2>4. gs["receipts"] = none /\ gs["timeline"] = <<>> BY <1>0, <2>2 DEF EmptyStore
  <2>5. Counted(gs) BY <2>1, <2>4, NothingIsCounted
  <2> QED BY <2>3, <2>5
<1> QED BY <1>1, <1>2

LEMMA CommittedIsCounted ==
    ASSUME IInv, Setting, EntriesAreTold, Counted(Base), Moved
    PROVE  Counted(Base')
<1>1. /\ JournalOK /\ StoreOK(files) /\ Files = Documents /\ Nothing \notin Documents
  BY StorageAssumption DEF IInv, Setting
<1>2. StoreOK(Base) BY <1>1, ContentsFit
<1>3. CASE Base' = Base BY <1>3
<1>4. ASSUME NEW p \in Processes, Base' \in Outcomes(task[p].op, Base) PROVE Counted(Base')
  <2>1. PICK fs, gs, op : fs = Base /\ gs = Base' /\ op = task[p].op OBVIOUS
  <2>2. OpFits(op) BY <2>1 DEF IInv, Tasks
  <2>3. Counted(gs) BY <1>1, <1>2, <1>4, <2>1, <2>2, OutcomesAreCounted
  <2> QED BY <2>1, <2>3
<1>5. ASSUME NEW p \in Processes, task[p].at = "write", ~Whole(p),
             task[p].done < Len(task[p].plan),
             Base' = [Base EXCEPT ![NextWrite(p).file] = NextWrite(p).to]
      PROVE  Counted(Base')
  <2>1. ~Transactional BY <1>5 DEF IInv, DatabaseOK, Busy
  <2>2. Base["receipts"] = Absent
    BY <2>1, ReceiptsStand DEF ReceiptsCommitted, Transactional
  <2>3. WritingOK(p) BY <1>5 DEF IInv, ProcessOK
  <2>4. PICK plan, n : plan = task[p].plan /\ n = task[p].done OBVIOUS
  <2>5. n + 1 \in 1..Len(plan) BY <1>5, <2>3, <2>4 DEF WritingOK, PlanOK, IsSeq
  <2>6. NextWrite(p).file # "receipts"
    BY <2>3, <2>4, <2>5 DEF NextWrite, WritingOK, PlanOK, WriteOK
  <2>7. PICK fs, gs, f, v :
            fs = Base /\ gs = Base' /\ f = NextWrite(p).file /\ v = NextWrite(p).to
    OBVIOUS
  <2>8. gs["receipts"] = fs["receipts"]
    <3>1. gs = [fs EXCEPT ![f] = v] /\ f # "receipts" BY <1>5, <2>6, <2>7
    <3> QED BY <3>1
  <2>9. Counted(gs) BY <2>2, <2>7, <2>8 DEF Counted
  <2> QED BY <2>7, <2>9
<1>6. CASE Base' = Erased(Base) /\ \A f \in Approvals : Base'[f] = Absent
  <2>1. PICK fs, gs : fs = Base /\ gs = Base' OBVIOUS
  <2>2. gs = Erased(fs) BY <1>6, <2>1
  <2>3. Counted(gs) BY <1>1, <2>2, ErasedIsCounted
  <2> QED BY <2>1, <2>3
<1> QED BY <1>3, <1>4, <1>5, <1>6 DEF Moved

LEMMA NewStoreIsCounted ==
    ASSUME Init, Setting
    PROVE  Counted(Base)
<1>1. journal = Nothing /\ Files = Documents BY DEF Init, StorageInit, Setting
<1>2. IInv /\ StoreOK(files) BY InitIsFine DEF IInv
<1>3. Base = files BY <1>1, <1>2, NoJournal, BaseWithoutImages
<1>4. PICK fs : fs = files OBVIOUS
<1>5. PICK none : none = {} OBVIOUS
<1>6. PICK receipts \in {Absent, none}, old \in {<<>>} \cup {Started(r) : r \in Known} :
          files = [f \in Files |-> IF f \in DOMAIN old THEN old[f] ELSE EmptyStore(receipts)[f]]
  BY <1>5 DEF Init, MemoryInit
<1>7. "timeline" \notin DOMAIN old /\ "receipts" \notin DOMAIN old
  <2>1. CASE old = <<>> BY <2>1
  <2>2. ASSUME NEW r, old = Started(r) PROVE "timeline" \notin DOMAIN old /\ "receipts" \notin DOMAIN old
    BY <2>2 DEF Started
  <2> QED BY <2>1, <2>2
<1>8. "timeline" \in Files /\ "receipts" \in Files BY <1>1 DEF Documents
<1>9. fs["timeline"] = EmptyStore(receipts)["timeline"]
      /\ fs["receipts"] = EmptyStore(receipts)["receipts"]
  BY <1>4, <1>6, <1>7, <1>8
<1>10. fs["timeline"] = <<>> /\ fs["receipts"] = receipts BY <1>8, <1>9 DEF EmptyStore
<1>11. CASE receipts = Absent BY <1>3, <1>4, <1>10, <1>11 DEF Counted
<1>12. CASE receipts = none
  <2>1. Counted(fs) BY <1>5, <1>10, <1>12, NothingIsCounted
  <2> QED BY <1>3, <1>4, <2>1
<1> QED BY <1>11, <1>12

LEMMA CountedIsOnce ==
    ASSUME IInv, Setting, Counted(Base)
    PROVE  ImportedOnce
<1>1. SUFFICES ASSUME Transactional, NEW pack \in Packs, NEW e \in Range(pack.timeline)
               PROVE  Cardinality({i \in DOMAIN files["timeline"] : files["timeline"][i] = e})
                        = Cardinality({over \in BOOLEAN : Receipted(pack, over, files)})
  BY DEF ImportedOnce
<1>2. journal = Nothing /\ StoreOK(files) /\ Files = Documents
  BY <1>1 DEF IInv, DatabaseOK, Setting
<1>3. Base = files BY <1>2, NoJournal, BaseWithoutImages
<1>4. PICK fs, tl, r : fs = files /\ tl = fs["timeline"] /\ r = fs["receipts"] OBVIOUS
<1>5. Counted(fs) /\ r # Absent BY <1>1, <1>3, <1>4 DEF Transactional
<1>6. IsSeq(tl) BY <1>4, <1>5 DEF Counted
<1>7. PICK k \in 1..Len(pack.timeline) : pack.timeline[k] = e
  <2>1. PackOK(pack) BY PacksAreOK
  <2>2. DOMAIN pack.timeline = 1..Len(pack.timeline) BY <2>1 DEF PackOK, IsSeq
  <2> QED BY <2>2 DEF Range
<1>8. Cardinality(Places(tl, e)) = Cardinality(Overs(r, pack)) BY <1>4, <1>5, <1>7 DEF Counted
<1>9. {i \in DOMAIN tl : tl[i] = e} = Places(tl, e) BY <1>6 DEF Places, IsSeq
<1>10. {over \in BOOLEAN : Receipted(pack, over, fs)} = Overs(r, pack)
  BY <1>4, <1>5 DEF Overs, Receipted, Flags
<1> QED BY <1>4, <1>8, <1>9, <1>10

(* However often a pack's import is retried, by whomever, and whatever fails *)
(* on the way, with SQLite its timeline is there exactly once for each       *)
(* receipt, if packs and entries can be told apart (sqlite_storage.py:302-   *)
(* 443).                                                                     *)
THEOREM PacksAreImportedOnce == Setting /\ EntriesAreTold => (Spec => []ImportedOnce)
<1> SUFFICES ASSUME Setting, EntriesAreTold PROVE Spec => []ImportedOnce OBVIOUS
<1> DEFINE Count == Counted(Base)
<1>1. Init => IInv /\ Count BY InitIsFine, NewStoreIsCounted
<1>2. IInv /\ [Next]_evars => IInv' BY NextIsFine
<1>3. IInv => ReceiptsCommitted BY ReceiptsStand
<1>4. IInv /\ Count /\ [Next]_evars /\ IInv' /\ ReceiptsCommitted' => Count'
  <2>1. SUFFICES ASSUME IInv, Count, [Next]_evars, IInv', ReceiptsCommitted' PROVE Count'
    OBVIOUS
  <2>2. CASE Transactional'
    <3>1. ~lost' BY <2>1, <2>2 DEF IInv, DatabaseOK
    <3>2. Moved BY <2>1, <3>1, NextIsFine DEF Simulated
    <3> QED BY <2>1, <3>2, CommittedIsCounted
  <2>3. CASE ~Transactional'
    <3>1. Base'["receipts"] = Absent
      BY <2>1, <2>3 DEF ReceiptsCommitted, Transactional
    <3> QED BY <3>1 DEF Counted
  <2> QED BY <2>2, <2>3
<1>5. IInv /\ Count => ImportedOnce BY CountedIsOnce
<1> HIDE DEF Count
<1> QED BY <1>1, <1>2, <1>3, <1>4, <1>5, PTL DEF Spec
=============================================================================
