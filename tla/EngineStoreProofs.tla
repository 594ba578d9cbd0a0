------------------------- MODULE EngineStoreProofs -------------------------
(* Proofs about EngineStore: whatever crashes, failed calls and recoveries   *)
(* come between them, the small steps of FileStorage add up to the atomic    *)
(* operations of AtomicStore.                                                *)
EXTENDS EngineStore, FiniteSetTheorems, WellFoundedInduction, TLAPS

-----------------------------------------------------------------------------
(* Induction.  The library's induction theorems take an operator; that the   *)
(* finite subsets of a set are well founded does not.                        *)

(* Every nonempty set of natural numbers has a least element.                *)
LEMMA LeastOfNaturals ==
    ASSUME NEW T, T \subseteq Nat, T # {}
    PROVE  \E n \in T : \A m \in T : n <= m
<1> DEFINE U == {1..n : n \in T}
<1>1. ASSUME NEW n \in T PROVE 1..n \in FiniteSubsetsOf(Nat)
  <2>1. n \in Nat BY <1>1
  <2>2. IsFiniteSet(1..n) BY <2>1, FS_Interval
  <2> QED BY <2>1, <2>2 DEF FiniteSubsetsOf
<1>2. U \subseteq FiniteSubsetsOf(Nat) /\ U # {} BY <1>1
<1>3. IsWellFoundedOn(StrictSubsetOrdering(Nat), FiniteSubsetsOf(Nat))
  BY FS_StrictSubsetOrderingWellFounded
<1> HIDE DEF U
<1>4. PICK x \in U : \A y \in U : ~(<<y, x>> \in StrictSubsetOrdering(Nat))
  BY <1>2, <1>3, WFMin
<1>5. PICK n \in T : x = 1..n BY DEF U
<1>6. SUFFICES ASSUME NEW m \in T, ~(n <= m) PROVE FALSE OBVIOUS
<1>7. m \in Nat /\ n \in Nat /\ m < n BY <1>6
<1>8. 1..m \in U BY DEF U
<1>9. 1..m \subseteq 1..n /\ n \in 1..n /\ n \notin 1..m /\ 1..n \subseteq Nat /\ 1..m \subseteq Nat
  BY <1>7
<1>10. <<1..m, 1..n>> \in StrictSubsetOrdering(Nat) BY <1>9 DEF StrictSubsetOrdering
<1> QED BY <1>4, <1>5, <1>8, <1>10

(* What holds of 0, and of n + 1 when it holds of n, holds of every number.  *)
LEMMA Induction ==
    ASSUME NEW S, 0 \in S, \A n \in Nat : n \in S => n + 1 \in S
    PROVE  \A n \in Nat : n \in S
<1> SUFFICES ASSUME Nat \ S # {} PROVE FALSE OBVIOUS
<1>1. PICK n \in Nat \ S : \A m \in Nat \ S : n <= m BY LeastOfNaturals
<1>2. n - 1 \in Nat /\ ~(n <= n - 1) BY <1>1
<1>3. n - 1 \in S BY <1>1, <1>2
<1> QED BY <1>1, <1>2, <1>3

(* A nonempty set of numbers up to n has a greatest element.                 *)
LEMMA GreatestUpTo ==
    ASSUME NEW n \in Nat, NEW T, T \subseteq 1..n, T # {}
    PROVE  \E i \in T : \A j \in T : j <= i
<1> DEFINE U == {n - i : i \in T}
<1>1. \A i \in T : n - i \in Nat OBVIOUS
<1>a. U \subseteq Nat /\ U # {} BY <1>1
<1>2. PICK u \in U : \A v \in U : u <= v BY <1>a, LeastOfNaturals
<1>3. PICK i \in T : u = n - i OBVIOUS
<1>4. ASSUME NEW j \in T PROVE j <= i
  <2>1. n - j \in U OBVIOUS
  <2>2. n - i <= n - j BY <1>2, <1>3, <2>1
  <2> QED BY <2>2
<1> QED BY <1>4

-----------------------------------------------------------------------------
(* Sequences                                                                 *)

IsSeq(s) == Len(s) \in Nat /\ s = [i \in 1..Len(s) |-> s[i]]
Elements(s) == {s[i] : i \in 1..Len(s)}

LEMMA SeqOfElements == ASSUME NEW s, IsSeq(s) PROVE s \in Seq(Elements(s))
BY DEF IsSeq, Elements

LEMMA SeqIsSeq == ASSUME NEW S, NEW s \in Seq(S) PROVE IsSeq(s)
BY DEF IsSeq

LEMMA EmptyIsSeq == IsSeq(<<>>) /\ Len(<<>>) = 0
BY DEF IsSeq

LEMMA OneIsSeq == ASSUME NEW x PROVE IsSeq(<<x>>) /\ Len(<<x>>) = 1 /\ <<x>>[1] = x
BY DEF IsSeq

(* A function on 1..n is a sequence, also when there is nothing up to n.     *)
LEMMA FunctionIsSeq ==
    ASSUME NEW n \in Int, NEW s, s = [i \in 1..n |-> s[i]]
    PROVE  IsSeq(s) /\ Len(s) = IF n >= 0 THEN n ELSE 0
<1>1. CASE n >= 0
  <2>1. s \in Seq({s[i] : i \in 1..n}) /\ Len(s) = n BY <1>1
  <2> QED BY <1>1, <2>1, SeqIsSeq
<1>2. CASE n < 0
  <2>1. 1..n = {} BY <1>2
  <2>2. s = <<>> BY <2>1
  <2>3. IsSeq(s) /\ Len(s) = 0 BY <2>2, EmptyIsSeq, Zenon
  <2>4. ~(n >= 0) BY <1>2
  <2> QED BY <2>3, <2>4, Zenon
<1>3. n >= 0 \/ n < 0 OBVIOUS
<1> QED BY <1>1, <1>2, <1>3

LEMMA ConcatIsSeq ==
    ASSUME NEW s, NEW t, IsSeq(s), IsSeq(t)
    PROVE  /\ IsSeq(s \o t)
           /\ Len(s \o t) = Len(s) + Len(t)
           /\ \A i \in 1..Len(s) : (s \o t)[i] = s[i]
           /\ \A i \in 1..Len(t) : (s \o t)[Len(s) + i] = t[i]
<1> DEFINE S == Elements(s) \cup Elements(t)
<1>1. s \in Seq(S) /\ t \in Seq(S)
  <2>1. s \in Seq(Elements(s)) /\ t \in Seq(Elements(t)) BY SeqOfElements
  <2> QED BY <2>1
<1> HIDE DEF S
<1>2. s \o t \in Seq(S) BY <1>1
<1>3. IsSeq(s \o t) BY <1>2, SeqIsSeq
<1> QED BY <1>1, <1>3

LEMMA PrefixIsSeq ==
    ASSUME NEW s, IsSeq(s), NEW n \in Nat, n <= Len(s)
    PROVE  /\ IsSeq(SubSeq(s, 1, n)) /\ Len(SubSeq(s, 1, n)) = n
           /\ \A i \in 1..n : SubSeq(s, 1, n)[i] = s[i]
<1> DEFINE S == Elements(s)
<1>1. s \in Seq(S) BY SeqOfElements
<1> HIDE DEF S
<1>2. SubSeq(s, 1, n) \in Seq(S) BY <1>1 DEF IsSeq
<1>3. IsSeq(SubSeq(s, 1, n)) BY <1>2, SeqIsSeq
<1> QED BY <1>1, <1>3 DEF IsSeq

(* What is left of a sequence after its first n.                             *)
LEMMA RestOfSeq ==
    ASSUME NEW s, IsSeq(s), NEW n \in Nat, n < Len(s)
    PROVE  /\ SubSeq(s, n + 1, Len(s)) # <<>>
           /\ Head(SubSeq(s, n + 1, Len(s))) = s[n + 1]
           /\ Tail(SubSeq(s, n + 1, Len(s))) = SubSeq(s, (n + 1) + 1, Len(s))
<1> DEFINE S == Elements(s)
<1>1. s \in Seq(S) /\ Len(s) \in Nat BY SeqOfElements DEF IsSeq
<1> HIDE DEF S
<1>2. PICK m : m = Len(s) OBVIOUS
<1>3. m \in Nat /\ n < m BY <1>1, <1>2
<1>4. PICK r : r = SubSeq(s, n + 1, m) OBVIOUS
<1>5. PICK t : t = SubSeq(s, (n + 1) + 1, m) OBVIOUS
<1>6. r \in Seq(S) /\ t \in Seq(S) /\ Len(r) = m - n /\ Len(t) = m - (n + 1)
  BY <1>1, <1>2, <1>3, <1>4, <1>5
<1>7. \A i \in 1..(m - n) : r[i] = s[(n + 1) + i - 1] BY <1>1, <1>2, <1>3, <1>4
<1>8. \A i \in 1..(m - (n + 1)) : t[i] = s[((n + 1) + 1) + i - 1] BY <1>1, <1>2, <1>3, <1>5
<1>9. r # <<>> /\ Head(r) = s[n + 1] BY <1>3, <1>6, <1>7
<1>10. Tail(r) = t
  <2>1. Tail(r) \in Seq(S) /\ Len(Tail(r)) = m - (n + 1) BY <1>3, <1>6, <1>9
  <2>2. ASSUME NEW i \in 1..(m - (n + 1)) PROVE Tail(r)[i] = t[i]
    <3>1. Tail(r)[i] = r[i + 1] BY <1>3, <1>6, <1>9
    <3>2. i + 1 \in 1..(m - n) BY <1>3
    <3>3. (n + 1) + (i + 1) - 1 = ((n + 1) + 1) + i - 1 BY <1>3
    <3> QED BY <1>7, <1>8, <3>1, <3>2, <3>3
  <2> QED BY <1>6, <2>1, <2>2
<1> QED BY <1>2, <1>4, <1>5, <1>9, <1>10

LEMMA WholeOfSeq == ASSUME NEW s, IsSeq(s) PROVE SubSeq(s, 1, Len(s)) = s
<1>1. Len(s) \in Nat BY DEF IsSeq
<1>2. PICK t : t = SubSeq(s, 1, Len(s)) OBVIOUS
<1>3. IsSeq(t) /\ Len(t) = Len(s) /\ \A i \in 1..Len(s) : t[i] = s[i]
  BY <1>1, <1>2, PrefixIsSeq
<1> QED BY <1>2, <1>3 DEF IsSeq

LEMMA AppendIsSeq ==
    ASSUME NEW s, NEW x, IsSeq(s)
    PROVE  /\ IsSeq(Append(s, x))
           /\ Len(Append(s, x)) = Len(s) + 1
           /\ \A i \in 1..Len(s) : Append(s, x)[i] = s[i]
           /\ Append(s, x)[Len(s) + 1] = x
<1> DEFINE S == Elements(s) \cup {x}
<1>1. s \in Seq(S) /\ x \in S
  <2>1. s \in Seq(Elements(s)) BY SeqOfElements
  <2> QED BY <2>1
<1> HIDE DEF S
<1>2. Append(s, x) \in Seq(S) BY <1>1
<1>3. IsSeq(Append(s, x)) BY <1>2, SeqIsSeq
<1> QED BY <1>1, <1>3

-----------------------------------------------------------------------------
(* What the store holds.  Of the documents only those matter here whose      *)
(* revisions are counted: they are sequences, in the compilations and in     *)
(* what an approval's journal is about to install.                           *)

Approvals == {"approval of 1", "approval of 2"}

IsCompilations(v) ==
    v = [revisions |-> v.revisions, manifests |-> v.manifests] /\ IsSeq(v.revisions)

Fits(f, v) ==
    /\ f = "compilations" => IsCompilations(v)
    /\ f \in Approvals => v = Absent \/ IsCompilations(v.compilations)

StoreOK(fs) == fs = [f \in Documents |-> fs[f]] /\ \A f \in Documents : Fits(f, fs[f])

(* What a plan is: a sequence of writes that fit, where a method that gives  *)
(* up says why, and a write that may be lost is to an approval's journal and *)
(* comes after one that may not.  The documents in closed are not touched.   *)
WriteOK(w, closed) ==
    /\ w.failing = "denied" => w.to \in {"rejected", "changed"}
    /\ w.failing = "ignore" => w.file \in Approvals
    /\ w.file \notin closed
    /\ Fits(w.file, w.to)

PlanOK(plan, closed) ==
    /\ IsSeq(plan)
    /\ \A i \in 1..Len(plan) : WriteOK(plan[i], closed)
    /\ \A i \in 1..Len(plan) :
          plan[i].failing = "ignore" => i > 1 /\ plan[i - 1].failing # "ignore"

(* The receipts of a FileStorage root are never written.                     *)
Closed(fs) == IF fs["receipts"] = Absent THEN {"receipts"} ELSE {}

-----------------------------------------------------------------------------
(* After                                                                     *)

LEMMA AfterNone ==
    ASSUME NEW plan, NEW fs, fs = [f \in DOMAIN fs |-> fs[f]]
    PROVE  After(plan, 0, fs) = fs
<1>1. \A f : {i \in 1..0 : plan[i].file = f} = {} OBVIOUS
<1> QED BY <1>1 DEF After

(* One more write replaces one document.                                     *)
LEMMA AfterOneMore ==
    ASSUME NEW plan, NEW fs, NEW n \in Nat
    PROVE  After(plan, n + 1, fs)
             = [After(plan, n, fs) EXCEPT ![plan[n + 1].file] = plan[n + 1].to]
<1> DEFINE Upto(m, f) == {i \in 1..m : plan[i].file = f}
           Greatest(U) == CHOOSE i \in U : \A j \in U : j <= i
           Value(U, f) == IF U = {} THEN fs[f] ELSE plan[Greatest(U)].to
<1>1. After(plan, n + 1, fs) = [f \in DOMAIN fs |-> Value(Upto(n + 1, f), f)]
  BY Zenon DEF After
<1>2. After(plan, n, fs) = [f \in DOMAIN fs |-> Value(Upto(n, f), f)] BY Zenon DEF After
<1>3. ASSUME NEW f, f # plan[n + 1].file
      PROVE  Value(Upto(n + 1, f), f) = Value(Upto(n, f), f)
  <2>1. Upto(n + 1, f) = Upto(n, f) BY <1>3
  <2> HIDE DEF Upto, Value
  <2> QED BY <2>1
<1>4. Value(Upto(n + 1, plan[n + 1].file), plan[n + 1].file) = plan[n + 1].to
  <2> DEFINE f == plan[n + 1].file
             U == Upto(n + 1, f)
  <2>1. n + 1 \in U /\ \A j \in U : j \in Nat /\ j <= n + 1 OBVIOUS
  <2> HIDE DEF U
  <2>2. \A i \in U : (\A j \in U : j <= i) => i = n + 1 BY <2>1
  <2>3. Greatest(U) = n + 1 BY <2>1, <2>2
  <2>4. Value(U, f) = plan[n + 1].to BY <2>1, <2>3
  <2> QED BY <2>4 DEF U
<1> HIDE DEF Value, Upto
<1> QED BY <1>1, <1>2, <1>3, <1>4

(* A document has its old contents or what one of the writes put there.      *)
LEMMA AfterIsOldOrWritten ==
    ASSUME NEW plan, NEW fs, NEW n \in Nat, NEW f \in DOMAIN fs
    PROVE  \/ After(plan, n, fs)[f] = fs[f]
           \/ \E i \in 1..n : plan[i].file = f /\ After(plan, n, fs)[f] = plan[i].to
<1> DEFINE writes == {i \in 1..n : plan[i].file = f}
<1>1. CASE writes = {} BY <1>1 DEF After
<1>2. CASE writes # {}
  <2>1. \E i \in writes : \A j \in writes : j <= i BY <1>2, GreatestUpTo
  <2> DEFINE last == CHOOSE i \in writes : \A j \in writes : j <= i
  <2>2. last \in writes BY <2>1
  <2>3. After(plan, n, fs)[f] = plan[last].to BY <1>2 DEF After
  <2> QED BY <2>2, <2>3
<1> QED BY <1>1, <1>2

LEMMA AfterFits ==
    ASSUME NEW plan, NEW closed, NEW fs, PlanOK(plan, closed), StoreOK(fs),
           NEW n \in 0..Len(plan)
    PROVE  StoreOK(After(plan, n, fs))
<1>1. DOMAIN fs = Documents BY DEF StoreOK
<1>2. Len(plan) \in Nat /\ n \in Nat BY DEF PlanOK, IsSeq
<1>3. ASSUME NEW f \in Documents PROVE Fits(f, After(plan, n, fs)[f])
  <2>1. CASE After(plan, n, fs)[f] = fs[f] BY <2>1 DEF StoreOK
  <2>2. ASSUME NEW i \in 1..n, plan[i].file = f, After(plan, n, fs)[f] = plan[i].to
        PROVE  Fits(f, After(plan, n, fs)[f])
    <3>1. i \in 1..Len(plan) BY <1>2
    <3>2. Fits(plan[i].file, plan[i].to) BY <3>1 DEF PlanOK, WriteOK
    <3> QED BY <2>2, <3>2
  <2> QED BY <1>1, <1>2, <2>1, <2>2, AfterIsOldOrWritten
<1>4. After(plan, n, fs) = [f \in Documents |-> After(plan, n, fs)[f]]
  BY <1>1 DEF After
<1> QED BY <1>3, <1>4 DEF StoreOK

(* What is closed stays as it is.                                            *)
LEMMA AfterKeepsClosed ==
    ASSUME NEW plan, NEW closed, NEW fs, PlanOK(plan, closed),
           NEW n \in 0..Len(plan), NEW f \in closed \cap DOMAIN fs
    PROVE  After(plan, n, fs)[f] = fs[f]
<1>1. Len(plan) \in Nat /\ n \in Nat BY DEF PlanOK, IsSeq
<1>2. \A i \in 1..n : plan[i].file # f BY <1>1 DEF PlanOK, WriteOK
<1> QED BY <1>1, <1>2, AfterIsOldOrWritten

-----------------------------------------------------------------------------
(* Plans: the pieces they are made of                                        *)

LEMMA ClosedIsReceipts == \A fs : Closed(fs) \subseteq {"receipts"}
BY DEF Closed

LEMMA EmptyPlan == ASSUME NEW closed PROVE PlanOK(<<>>, closed)
BY EmptyIsSeq DEF PlanOK

LEMMA OneWrite ==
    ASSUME NEW w, NEW closed, WriteOK(w, closed), w.failing # "ignore"
    PROVE  PlanOK(<<w>>, closed)
<1>1. IsSeq(<<w>>) /\ Len(<<w>>) = 1 /\ <<w>>[1] = w BY OneIsSeq
<1> DEFINE plan == <<w>>
<1> HIDE DEF plan
<1>2. \A i \in 1..Len(plan) : plan[i] = w BY <1>1 DEF plan
<1>3. PlanOK(plan, closed) BY <1>1, <1>2 DEF PlanOK, plan
<1> QED BY <1>3 DEF plan

LEMMA PutPlan ==
    ASSUME NEW f, NEW v, NEW closed, f \notin closed, Fits(f, v)
    PROVE  PlanOK(<<Put(f, v)>>, closed)
<1>1. WriteOK(Put(f, v), closed) /\ Put(f, v).failing # "ignore" BY DEF WriteOK, Put
<1> QED BY <1>1, OneWrite

LEMMA DenyPlan ==
    ASSUME NEW why \in {"rejected", "changed"}, NEW closed, closed \subseteq {"receipts", "timeline"},
           Nothing \notin Documents
    PROVE  PlanOK(<<Deny(why)>>, closed)
<1>1. WriteOK(Deny(why), closed) /\ Deny(why).failing # "ignore"
  BY DEF WriteOK, Deny, Fits, Approvals, Documents
<1> QED BY <1>1, OneWrite

LEMMA ConcatPlan ==
    ASSUME NEW s, NEW t, NEW closed, PlanOK(s, closed), PlanOK(t, closed)
    PROVE  PlanOK(s \o t, closed)
<1> DEFINE u == s \o t
<1>1. /\ IsSeq(u)
      /\ Len(u) = Len(s) + Len(t)
      /\ \A i \in 1..Len(s) : u[i] = s[i]
      /\ \A i \in 1..Len(t) : u[Len(s) + i] = t[i]
  <2>1. IsSeq(s) /\ IsSeq(t) BY DEF PlanOK
  <2> QED BY <2>1, ConcatIsSeq
<1>2. Len(s) \in Nat /\ Len(t) \in Nat BY DEF PlanOK, IsSeq
<1> HIDE DEF u
<1>3. ASSUME NEW i \in 1..Len(u)
      PROVE  /\ WriteOK(u[i], closed)
             /\ u[i].failing = "ignore" => i > 1 /\ u[i - 1].failing # "ignore"
  <2>1. CASE i \in 1..Len(s)
    <3>1. u[i] = s[i] /\ (i > 1 => u[i - 1] = s[i - 1]) BY <1>1, <1>2, <2>1
    <3> QED BY <2>1, <3>1 DEF PlanOK
  <2>2. CASE i \notin 1..Len(s)
    <3>1. PICK k \in 1..Len(t) : i = Len(s) + k
      <4>1. i - Len(s) \in 1..Len(t) /\ i = Len(s) + (i - Len(s)) BY <1>1, <1>2, <2>2
      <4> QED BY <4>1
    <3>2. u[i] = t[k] /\ (k > 1 => u[i - 1] = t[k - 1])
      <4>1. u[i] = t[k] BY <1>1, <3>1
      <4>2. ASSUME k > 1 PROVE u[i - 1] = t[k - 1]
        <5>1. k - 1 \in 1..Len(t) /\ i - 1 = Len(s) + (k - 1) BY <1>2, <3>1, <4>2
        <5> QED BY <1>1, <5>1
      <4> QED BY <4>1, <4>2
    <3>3. WriteOK(t[k], closed)
          /\ (t[k].failing = "ignore" => k > 1 /\ t[k - 1].failing # "ignore")
      BY DEF PlanOK
    <3>4. k > 1 => i > 1 BY <1>2, <3>1
    <3> QED BY <3>2, <3>3, <3>4
  <2> QED BY <2>1, <2>2
<1>4. PlanOK(u, closed) BY <1>1, <1>3 DEF PlanOK
<1> QED BY <1>4 DEF u

LEMMA TwoWrites ==
    ASSUME NEW a, NEW b, NEW closed, PlanOK(<<a>>, closed), PlanOK(<<b>>, closed)
    PROVE  PlanOK(<<a, b>>, closed)
<1>1. PICK s : s = <<a>> OBVIOUS
<1>2. PICK t : t = <<b>> OBVIOUS
<1>3. IsSeq(s) /\ Len(s) = 1 /\ s[1] = a /\ IsSeq(t) /\ Len(t) = 1 /\ t[1] = b
  BY <1>1, <1>2, OneIsSeq
<1>4. IsSeq(s) /\ IsSeq(t) BY <1>3
<1>5. /\ IsSeq(s \o t) /\ Len(s \o t) = Len(s) + Len(t)
      /\ \A i \in 1..Len(s) : (s \o t)[i] = s[i]
      /\ \A i \in 1..Len(t) : (s \o t)[Len(s) + i] = t[i]
  BY <1>4, ConcatIsSeq
<1>6. PICK u : u = s \o t OBVIOUS
<1>7. 1 \in 1..Len(s) /\ 1 \in 1..Len(t) /\ Len(s) + 1 = 2 BY <1>3
<1>8. IsSeq(u) /\ Len(u) = 2 /\ u[1] = a /\ u[2] = b BY <1>3, <1>5, <1>6, <1>7
<1>9. u = [i \in 1..2 |-> u[i]] BY <1>8 DEF IsSeq
<1>10. u = <<a, b>> BY <1>8, <1>9
<1>11. PlanOK(s \o t, closed) BY <1>1, <1>2, ConcatPlan
<1> QED BY <1>6, <1>10, <1>11

-----------------------------------------------------------------------------
(* Plans: the methods that review a Persona                                  *)

LEMMA StoreHasCompilations ==
    ASSUME NEW fs, StoreOK(fs)
    PROVE  IsCompilations(fs["compilations"]) /\ IsSeq(Revisions(fs)) /\ Latest(fs) \in Nat
BY DEF StoreOK, Fits, Documents, IsCompilations, Revisions, Latest, IsSeq

LEMMA DecidedIsSeq ==
    ASSUME NEW fs, NEW rev, NEW to, NEW who, StoreOK(fs)
    PROVE  IsSeq(Decided(fs, rev, to, who))
<1>1. IsSeq(Revisions(fs)) BY StoreHasCompilations
<1> DEFINE revs == Revisions(fs)
<1>2. DOMAIN revs = 1..Len(revs) /\ Len(revs) \in Nat BY <1>1 DEF IsSeq
<1>3. PICK d : d = Decided(fs, rev, to, who) OBVIOUS
<1>4. d = [i \in DOMAIN revs |-> d[i]] BY <1>3, Zenon DEF Decided
<1> HIDE DEF revs
<1>5. d = [i \in 1..Len(revs) |-> d[i]] BY <1>2, <1>4
<1>6. IsSeq(d) BY <1>2, <1>5, FunctionIsSeq
<1> QED BY <1>3, <1>6

LEMMA WithRevisionsFits ==
    ASSUME NEW fs, NEW revs, StoreOK(fs), IsSeq(revs)
    PROVE  IsCompilations(WithRevisions(fs, revs))
<1>1. IsCompilations(fs["compilations"]) BY StoreHasCompilations
<1>2. PICK v : v = fs["compilations"] OBVIOUS
<1>3. [v EXCEPT !.revisions = revs] = [revisions |-> revs, manifests |-> v.manifests]
  BY <1>1, <1>2 DEF IsCompilations
<1> QED BY <1>2, <1>3 DEF WithRevisions, IsCompilations

LEMMA CompilationsPlan ==
    ASSUME NEW v, IsCompilations(v), NEW closed, closed \subseteq {"receipts", "timeline"}
    PROVE  PlanOK(<<Put("compilations", v)>>, closed)
<1>1. Fits("compilations", v) BY DEF Fits, Approvals
<1>2. "compilations" \notin closed OBVIOUS
<1> QED BY <1>1, <1>2, PutPlan

LEMMA ProfilePlan ==
    ASSUME NEW v, NEW closed, closed \subseteq {"receipts", "timeline"}
    PROVE  PlanOK(<<Put("profile", v)>>, closed)
<1>1. Fits("profile", v) BY DEF Fits, Approvals
<1>2. "profile" \notin closed OBVIOUS
<1> QED BY <1>1, <1>2, PutPlan

LEMMA SaveIsPlan ==
    ASSUME NEW rev, NEW proposal, NEW fs, StoreOK(fs), Nothing \notin Documents,
           NEW closed, closed \subseteq {"receipts", "timeline"}
    PROVE  PlanOK(SaveWrites(rev, proposal, fs), closed)
<1>1. IsSeq(Append(Revisions(fs), proposal)) BY StoreHasCompilations, AppendIsSeq
<1>2. IsCompilations(WithRevisions(fs, Append(Revisions(fs), proposal)))
  BY <1>1, WithRevisionsFits
<1> QED BY <1>2, CompilationsPlan, EmptyPlan, DenyPlan DEF SaveWrites

LEMMA DecideIsPlan ==
    ASSUME NEW rev, NEW to, NEW who, NEW expected, NEW fs, StoreOK(fs),
           Nothing \notin Documents, NEW closed, closed \subseteq {"receipts", "timeline"}
    PROVE  PlanOK(DecideWrites(rev, to, who, expected, fs), closed)
<1>1. IsCompilations(WithRevisions(fs, Decided(fs, rev, to, who)))
  BY DecidedIsSeq, WithRevisionsFits
<1> QED BY <1>1, CompilationsPlan, DenyPlan DEF DecideWrites

LEMMA ApprovedFits ==
    ASSUME NEW rev, NEW who, NEW made, NEW fs, StoreOK(fs)
    PROVE  IsCompilations([revisions |-> Decided(fs, rev, "approved", who), manifests |-> made])
BY DecidedIsSeq DEF IsCompilations

LEMMA ApproveIsPlan ==
    ASSUME NEW rev, NEW who, NEW expected, NEW fs, StoreOK(fs), Nothing \notin Documents,
           NEW closed, closed \subseteq {"receipts", "timeline"}
    PROVE  PlanOK(ApproveWrites(rev, who, expected, fs), closed)
<1> DEFINE v == [revisions |-> Decided(fs, rev, "approved", who),
                 manifests |-> Manifests(fs) \cup {[rev |-> rev, by |-> who]}]
<1>1. PlanOK(<<Put("compilations", v)>>, closed) BY ApprovedFits, CompilationsPlan
<1>2. PlanOK(<<>>, closed) /\ PlanOK(<<Deny("rejected")>>, closed) BY EmptyPlan, DenyPlan
<1> QED BY <1>1, <1>2, Zenon DEF ApproveWrites

LEMMA BindIsPlan ==
    ASSUME NEW rev, NEW fs, Nothing \notin Documents, NEW closed, closed \subseteq {"receipts", "timeline"}
    PROVE  PlanOK(BindWrites(rev, fs), closed)
<1>1. PlanOK(<<>>, closed) /\ PlanOK(<<Deny("rejected")>>, closed) BY EmptyPlan, DenyPlan
<1>2. PlanOK(<<Put("profile", [fs["profile"] EXCEPT !.manifest = rev])>>, closed)
  BY ProfilePlan
<1> QED BY <1>1, <1>2, Zenon DEF BindWrites

(* Both after-images, then the journal goes: losing that is not losing more. *)
LEMMA InstallIsPlan ==
    ASSUME NEW image, NEW file \in Approvals, NEW failing \in {"raise", "again"},
           IsCompilations(image.compilations), NEW closed, closed \subseteq {"receipts", "timeline"}
    PROVE  PlanOK(Install(image, file, failing), closed)
<1> DEFINE a == [Put("compilations", image.compilations) EXCEPT !.failing = failing]
           b == [Put("profile", image.profile) EXCEPT !.failing = failing]
           c == [Put(file, Absent) EXCEPT !.failing = "ignore"]
<1>1. /\ a.file = "compilations" /\ a.to = image.compilations /\ a.failing = failing
      /\ b.file = "profile" /\ b.failing = failing
      /\ c.file = file /\ c.to = Absent /\ c.failing = "ignore"
  BY DEF Put
<1> HIDE DEF a, b, c
<1>2. WriteOK(a, closed) /\ WriteOK(b, closed) /\ WriteOK(c, closed)
  BY <1>1 DEF WriteOK, Fits, Approvals
<1>3. PICK plan : plan = <<a, b, c>> OBVIOUS
<1>4. /\ plan \in Seq({a, b, c}) /\ Len(plan) = 3
      /\ plan[1] = a /\ plan[2] = b /\ plan[3] = c
  BY <1>3
<1>5. \A i \in 1..Len(plan) : i = 1 \/ i = 2 \/ i = 3 BY <1>4
<1>6. PlanOK(plan, closed) BY <1>1, <1>2, <1>4, <1>5, SeqIsSeq DEF PlanOK
<1> QED BY <1>3, <1>6, Zenon DEF Install, a, b, c

LEMMA JournalIsApproval == \A rev : ApprovalJournal(rev) \in Approvals
BY DEF ApprovalJournal, Approvals

LEMMA LeftoverIsPlan ==
    ASSUME NEW rev, NEW fs, StoreOK(fs), NEW closed, closed \subseteq {"receipts", "timeline"}
    PROVE  PlanOK(Leftover(rev, fs), closed)
<1> DEFINE file == ApprovalJournal(rev)
<1>1. file \in Approvals BY JournalIsApproval
<1>2. fs[file] = Absent \/ IsCompilations(fs[file].compilations)
  BY <1>1 DEF StoreOK, Fits, Documents, Approvals
<1>3. IsCompilations(fs[file].compilations) => PlanOK(Install(fs[file], file, "raise"), closed)
  BY <1>1, InstallIsPlan
<1> QED BY <1>2, <1>3, EmptyPlan, Zenon DEF Leftover

LEMMA JournalledIsPlan ==
    ASSUME NEW image, NEW rev, IsCompilations(image.compilations),
           NEW closed, closed \subseteq {"receipts", "timeline"}
    PROVE  PlanOK(Journalled(image, rev), closed)
<1> DEFINE file == ApprovalJournal(rev)
<1>1. file \in Approvals BY JournalIsApproval
<1>2. Fits(file, image) /\ file \notin closed BY <1>1 DEF Fits, Approvals
<1>3. PlanOK(<<Put(file, image)>>, closed) BY <1>2, PutPlan
<1>4. PlanOK(Install(image, file, "again"), closed) BY <1>1, InstallIsPlan
<1> QED BY <1>3, <1>4, ConcatPlan, Zenon DEF Journalled

LEMMA ApprovalIsPlan ==
    ASSUME NEW rev, NEW rel, NEW who, NEW expected, NEW fs, StoreOK(fs),
           Nothing \notin Documents, NEW closed, closed \subseteq {"receipts", "timeline"}
    PROVE  PlanOK(Approval(rev, rel, who, expected, fs), closed)
<1>1. PICK image : image = ApprovalImage(rev, who, fs) OBVIOUS
<1>2. IsCompilations(image.compilations) BY <1>1, ApprovedFits DEF ApprovalImage
<1>3. PlanOK(<<>>, closed) /\ PlanOK(<<Deny("rejected")>>, closed) BY EmptyPlan, DenyPlan
<1>4. PlanOK(Journalled(image, rev), closed) BY <1>2, JournalledIsPlan
<1> DEFINE a == Put("compilations", image.compilations)
           b == Put("profile", image.profile)
<1>5. PlanOK(<<a>>, closed) /\ PlanOK(<<b>>, closed)
  BY <1>2, CompilationsPlan, ProfilePlan
<1> HIDE DEF a, b
<1>6. PlanOK(<<a, b>>, closed) BY <1>5, TwoWrites
<1>8. PlanOK(<<Put("compilations", image.compilations), Put("profile", image.profile)>>, closed)
  BY <1>6 DEF a, b
<1> QED BY <1>1, <1>3, <1>4, <1>8, Zenon DEF Approval

LEMMA WrittenFits ==
    ASSUME NEW plan, NEW closed, NEW fs, PlanOK(plan, closed), StoreOK(fs)
    PROVE  StoreOK(Written(plan, fs))
<1>1. Len(plan) \in 0..Len(plan) BY DEF PlanOK, IsSeq
<1> QED BY <1>1, AfterFits DEF Written

LEMMA ApproveAndBindIsPlan ==
    ASSUME NEW rev, NEW rel, NEW who, NEW expected, NEW fs, StoreOK(fs),
           Nothing \notin Documents, NEW closed, closed \subseteq {"receipts", "timeline"}
    PROVE  PlanOK(ApproveAndBind(rev, rel, who, expected, fs), closed)
<1>1. PICK left : left = Leftover(rev, fs) OBVIOUS
<1>2. PlanOK(left, closed) BY <1>1, LeftoverIsPlan
<1>3. PICK store : store = Written(left, fs) OBVIOUS
<1>4. StoreOK(store) BY <1>2, <1>3, WrittenFits
<1>5. PlanOK(Approval(rev, rel, who, expected, store), closed) BY <1>4, ApprovalIsPlan
<1>6. PlanOK(left \o Approval(rev, rel, who, expected, store), closed)
  BY <1>2, <1>5, ConcatPlan
<1> QED BY <1>1, <1>3, <1>6, Zenon DEF ApproveAndBind

LEMMA ReplaysIsPlan ==
    ASSUME NEW fs, StoreOK(fs), NEW closed, closed \subseteq {"receipts", "timeline"}
    PROVE  PlanOK(Replays(fs), closed)
BY LeftoverIsPlan, ConcatPlan, Zenon DEF Replays

-----------------------------------------------------------------------------
(* Plans: the import of a MemoryPack                                         *)

PackOK(pack) ==
    /\ IsSeq(pack.timeline)
    /\ IsSeq(pack.turns)
    /\ IsSeq(pack.compilations.revisions)

LEMMA PacksAreOK == \A pack \in Packs : PackOK(pack)
BY PacksAssumption, SeqIsSeq DEF PackOK

LEMMA MissingIsPlan ==
    ASSUME NEW pack, NEW fs, PackOK(pack), StoreOK(fs),
           NEW closed, closed \subseteq {"receipts", "timeline"}
    PROVE  PlanOK(MissingRevisions(pack, fs), closed)
<1> DEFINE revs == pack.compilations.revisions
           k == Len(revs) - Latest(fs)
           new == [i \in 1..k |-> Proposed(revs[Latest(fs) + i].by)]
           all == Revisions(fs) \o new
           write(i) == Put("compilations", WithRevisions(fs, SubSeq(all, 1, Latest(fs) + i)))
           plan == [i \in 1..k |-> write(i)]
<1>1. k \in Int /\ Latest(fs) \in Nat BY StoreHasCompilations DEF PackOK, IsSeq
<1>2. IsSeq(Revisions(fs)) BY StoreHasCompilations
<1> HIDE DEF k
<1>3. IsSeq(new) BY <1>1, FunctionIsSeq
<1>4. Len(new) = IF k >= 0 THEN k ELSE 0 BY <1>1, FunctionIsSeq
<1> HIDE DEF new
<1>5. IsSeq(all) /\ Len(all) = Len(Revisions(fs)) + Len(new) BY <1>2, <1>3, ConcatIsSeq
<1> HIDE DEF all
<1>6. ASSUME NEW i \in 1..k PROVE IsSeq(SubSeq(all, 1, Latest(fs) + i))
  <2>1. all \in Seq(Elements(all)) BY <1>5, SeqOfElements
  <2>2. Latest(fs) + i <= Len(all) BY <1>1, <1>4, <1>5 DEF Latest
  <2>3. SubSeq(all, 1, Latest(fs) + i) \in Seq(Elements(all)) BY <1>1, <2>1, <2>2
  <2> QED BY <2>3, SeqIsSeq
<1>7. ASSUME NEW i \in 1..k PROVE WriteOK(write(i), closed) /\ write(i).failing = "raise"
  <2>1. PICK v : v = WithRevisions(fs, SubSeq(all, 1, Latest(fs) + i)) OBVIOUS
  <2>2. IsCompilations(v) BY <1>6, <2>1, WithRevisionsFits
  <2>3. WriteOK(Put("compilations", v), closed) /\ Put("compilations", v).failing = "raise"
    BY <2>2 DEF WriteOK, Put, Fits, Approvals
  <2> QED BY <2>1, <2>3
<1> HIDE DEF write
<1>8. IsSeq(plan) /\ Len(plan) = IF k >= 0 THEN k ELSE 0 BY <1>1, FunctionIsSeq
<1>a. \A i \in 1..Len(plan) : i \in 1..k
  <2> HIDE DEF plan
  <2> QED BY <1>1, <1>8
<1>9. \A i \in 1..Len(plan) : i \in 1..k /\ plan[i] = write(i) BY <1>a
<1> HIDE DEF plan
<1>10. PlanOK(plan, closed) BY <1>7, <1>8, <1>9 DEF PlanOK
<1>11. plan = MissingRevisions(pack, fs)
  BY Zenon DEF plan, write, all, new, k, MissingRevisions
<1> QED BY <1>10, <1>11

LEMMA ImportDecisionIsPlan ==
    ASSUME NEW pack, NEW rev, NEW fs, StoreOK(fs), Nothing \notin Documents,
           NEW closed, closed \subseteq {"receipts", "timeline"}
    PROVE  PlanOK(ImportDecision(pack, rev, fs), closed)
<1>1. PICK new : new = pack.compilations.revisions[rev] OBVIOUS
<1>2. PICK now : now = Status(fs, rev) OBVIOUS
<1>3. PICK who : who = Approver(pack, rev) OBVIOUS
<1>4. PICK bound : bound = ApproveAndBind(rev, fs["profile"].rel, who, now, fs) OBVIOUS
<1>5. PICK approved : approved = IF now = "pending"
                                 THEN ApproveWrites(rev, who, "pending", fs) ELSE <<>>
  OBVIOUS
<1>6. PICK store : store = Written(approved, fs) OBVIOUS
<1>7. PICK revoked : revoked = IF now = "revoked" THEN <<>>
                               ELSE DecideWrites(rev, "revoked", new.decider, "approved", store)
  OBVIOUS
<1>8. PICK rejected : rejected = DecideWrites(rev, "rejected", new.decider, "pending", fs)
  OBVIOUS
<1>9. PlanOK(bound, closed) BY <1>4, ApproveAndBindIsPlan
<1>10. PlanOK(approved, closed) BY <1>5, ApproveIsPlan, EmptyPlan
<1>11. StoreOK(store) BY <1>6, <1>10, WrittenFits
<1>12. PlanOK(revoked, closed) BY <1>7, <1>11, DecideIsPlan, EmptyPlan
<1>13. PlanOK(approved \o revoked, closed) BY <1>10, <1>12, ConcatPlan
<1>14. PlanOK(rejected, closed) /\ PlanOK(<<>>, closed) BY <1>8, DecideIsPlan, EmptyPlan
<1>15. ImportDecision(pack, rev, fs) =
         CASE new.status = "approved" /\ pack.compilations.pin = rev -> bound
           [] new.status = "approved" /\ pack.compilations.pin # rev -> approved
           [] new.status = "revoked"  -> approved \o revoked
           [] new.status = "rejected" /\ now = "pending" -> rejected
           [] OTHER -> <<>>
  BY <1>1, <1>2, <1>3, <1>4, <1>5, <1>6, <1>7, <1>8 DEF ImportDecision
<1> QED BY <1>9, <1>10, <1>13, <1>14, <1>15

(* The recursion that decides the revisions one by one is what it says.      *)
DecisionStep(pack, fs, n, before) ==
    IF n = 0 THEN MissingRevisions(pack, fs)
    ELSE before \o ImportDecision(pack, n, Written(before, fs))

LEMMA DecisionWritesRecursion ==
    ASSUME NEW pack, NEW fs, PackOK(pack)
    PROVE  DecisionWrites(pack, fs) =
             [n \in 0..Len(pack.compilations.revisions) |->
                 DecisionStep(pack, fs, n, DecisionWrites(pack, fs)[n - 1])]
<1> DEFINE L == Len(pack.compilations.revisions)
           P(m, h) == h = [n \in 0..m |-> DecisionStep(pack, fs, n, h[n - 1])]
           S == {m \in Nat : \E h : P(m, h)}
<1>1. L \in Nat BY DEF PackOK, IsSeq
<1>2. 0 \in S
  <2>1. PICK h : h = [n \in 0..0 |-> MissingRevisions(pack, fs)] OBVIOUS
  <2>2. P(0, h) BY <2>1 DEF DecisionStep
  <2> QED BY <2>2
<1>3. ASSUME NEW m \in Nat, m \in S PROVE m + 1 \in S
  <2>1. PICK h : P(m, h) BY <1>3
  <2>2. PICK g : g = [n \in 0..(m + 1) |->
                        IF n = m + 1 THEN DecisionStep(pack, fs, m + 1, h[m]) ELSE h[n]]
    OBVIOUS
  <2>3. ASSUME NEW n \in 0..(m + 1) PROVE g[n] = DecisionStep(pack, fs, n, g[n - 1])
    <3>1. CASE n = m + 1
      <4>1. n - 1 = m /\ g[m] = h[m] BY <2>2, <3>1
      <4> QED BY <2>2, <3>1, <4>1
    <3>2. CASE n = 0
      <4>1. g[n] = h[n] BY <2>2, <3>2
      <4>2. h[n] = DecisionStep(pack, fs, n, h[n - 1]) BY <2>1, <3>2
      <4> QED BY <3>2, <4>1, <4>2 DEF DecisionStep
    <3>3. CASE n \in 1..m
      <4>1. g[n] = h[n] /\ g[n - 1] = h[n - 1] BY <2>2, <3>3
      <4>2. h[n] = DecisionStep(pack, fs, n, h[n - 1]) BY <2>1, <3>3
      <4> QED BY <4>1, <4>2
    <3> QED BY <3>1, <3>2, <3>3
  <2>4. g = [n \in 0..(m + 1) |-> g[n]] BY <2>2
  <2>5. P(m + 1, g) BY <2>3, <2>4
  <2> QED BY <2>5
<1>4. L \in S
  <2> HIDE DEF S, L
  <2> QED BY <1>1, <1>2, <1>3, Induction
<1>5. PICK h : P(L, h) BY <1>4
<1>6. DecisionWrites(pack, fs) = CHOOSE g : P(L, g) BY Zenon DEF DecisionWrites, DecisionStep
<1>7. P(L, CHOOSE g : P(L, g)) BY <1>5, Zenon
<1> QED BY <1>6, <1>7, Zenon

LEMMA DecisionWritesArePlans ==
    ASSUME NEW pack, NEW fs, PackOK(pack), StoreOK(fs), Nothing \notin Documents,
           NEW closed, closed \subseteq {"receipts", "timeline"}
    PROVE  PlanOK(DecisionWrites(pack, fs)[Len(pack.compilations.revisions)], closed)
<1> DEFINE L == Len(pack.compilations.revisions)
           writes == DecisionWrites(pack, fs)
           S == {n \in Nat : n <= L => PlanOK(writes[n], closed)}
<1>1. L \in Nat BY DEF PackOK, IsSeq
<1>2. \A n \in 0..L : writes[n] = DecisionStep(pack, fs, n, writes[n - 1])
  <2>1. PICK w : w = writes OBVIOUS
  <2>2. w = [n \in 0..L |-> DecisionStep(pack, fs, n, w[n - 1])]
    BY <2>1, DecisionWritesRecursion
  <2>3. \A n \in 0..L : w[n] = DecisionStep(pack, fs, n, w[n - 1]) BY <2>2
  <2> QED BY <2>1, <2>3
<1> HIDE DEF writes, L
<1>3. 0 \in S
  <2>1. writes[0] = MissingRevisions(pack, fs) BY <1>1, <1>2 DEF DecisionStep
  <2> QED BY <2>1, MissingIsPlan
<1>4. ASSUME NEW n \in Nat, n \in S PROVE n + 1 \in S
  <2>1. SUFFICES ASSUME n + 1 <= L PROVE PlanOK(writes[n + 1], closed) OBVIOUS
  <2>2. PICK before : before = writes[n] OBVIOUS
  <2>3. PlanOK(before, closed) BY <1>1, <1>4, <2>1, <2>2
  <2>4. n + 1 \in 0..L /\ (n + 1) - 1 = n /\ n + 1 # 0 BY <1>1, <2>1
  <2>5. writes[n + 1] = before \o ImportDecision(pack, n + 1, Written(before, fs))
    BY <1>2, <2>2, <2>4 DEF DecisionStep
  <2>6. PICK store : store = Written(before, fs) OBVIOUS
  <2>7. StoreOK(store) BY <2>3, <2>6, WrittenFits
  <2>8. PlanOK(ImportDecision(pack, n + 1, store), closed) BY <2>7, ImportDecisionIsPlan
  <2>9. PlanOK(before \o ImportDecision(pack, n + 1, store), closed)
    BY <2>3, <2>8, ConcatPlan
  <2> QED BY <2>5, <2>6, <2>9
<1>5. L \in S
  <2> HIDE DEF S
  <2> QED BY <1>1, <1>3, <1>4, Induction
<1>6. PlanOK(writes[L], closed) BY <1>1, <1>5
<1> QED BY <1>6 DEF writes, L

TurnStep(turns, fs, n, before) ==
    IF n = 0 THEN <<>>
    ELSE IF turns[n] \in fs["turns"] THEN before
    ELSE Append(before, Put("turns", fs["turns"] \cup {turns[m] : m \in 1..n}))

LEMMA NewTurnsRecursion ==
    ASSUME NEW turns, NEW fs, Len(turns) \in Nat
    PROVE  NewTurns(turns, fs) =
             [n \in 0..Len(turns) |-> TurnStep(turns, fs, n, NewTurns(turns, fs)[n - 1])]
<1> DEFINE L == Len(turns)
           P(m, h) == h = [n \in 0..m |-> TurnStep(turns, fs, n, h[n - 1])]
           S == {m \in Nat : \E h : P(m, h)}
<1>2. 0 \in S
  <2>1. PICK h : h = [n \in 0..0 |-> <<>>] OBVIOUS
  <2>2. P(0, h) BY <2>1 DEF TurnStep
  <2> QED BY <2>2
<1>3. ASSUME NEW m \in Nat, m \in S PROVE m + 1 \in S
  <2>1. PICK h : P(m, h) BY <1>3
  <2>2. PICK g : g = [n \in 0..(m + 1) |->
                        IF n = m + 1 THEN TurnStep(turns, fs, m + 1, h[m]) ELSE h[n]]
    OBVIOUS
  <2>3. ASSUME NEW n \in 0..(m + 1) PROVE g[n] = TurnStep(turns, fs, n, g[n - 1])
    <3>1. CASE n = m + 1
      <4>1. n - 1 = m /\ g[m] = h[m] BY <2>2, <3>1
      <4> QED BY <2>2, <3>1, <4>1
    <3>2. CASE n = 0
      <4>1. g[n] = h[n] BY <2>2, <3>2
      <4>2. h[n] = TurnStep(turns, fs, n, h[n - 1]) BY <2>1, <3>2
      <4> QED BY <3>2, <4>1, <4>2 DEF TurnStep
    <3>3. CASE n \in 1..m
      <4>1. g[n] = h[n] /\ g[n - 1] = h[n - 1] BY <2>2, <3>3
      <4>2. h[n] = TurnStep(turns, fs, n, h[n - 1]) BY <2>1, <3>3
      <4> QED BY <4>1, <4>2
    <3> QED BY <3>1, <3>2, <3>3
  <2>4. g = [n \in 0..(m + 1) |-> g[n]] BY <2>2
  <2>5. P(m + 1, g) BY <2>3, <2>4
  <2> QED BY <2>5
<1>4. L \in S
  <2> HIDE DEF S, L
  <2>1. L \in Nat BY DEF L
  <2> QED BY <2>1, <1>2, <1>3, Induction
<1>5. PICK h : P(L, h) BY <1>4
<1>6. NewTurns(turns, fs) = CHOOSE g : P(L, g) BY Zenon DEF NewTurns, TurnStep
<1>7. P(L, CHOOSE g : P(L, g)) BY <1>5, Zenon
<1> QED BY <1>6, <1>7, Zenon

WritesTurns(plan) ==
    \A i \in 1..Len(plan) : plan[i].failing = "raise" /\ plan[i].file = "turns"

LEMMA NewTurnsArePlans ==
    ASSUME NEW turns, NEW fs, Len(turns) \in Nat, NEW closed, closed \subseteq {"receipts", "timeline"}
    PROVE  \A n \in 0..Len(turns) :
              PlanOK(NewTurns(turns, fs)[n], closed) /\ WritesTurns(NewTurns(turns, fs)[n])
<1> DEFINE L == Len(turns)
           writes == NewTurns(turns, fs)
           Good(plan) == PlanOK(plan, closed) /\ WritesTurns(plan)
           S == {n \in Nat : n <= L => Good(writes[n])}
<1>2. \A n \in 0..L : writes[n] = TurnStep(turns, fs, n, writes[n - 1])
  <2>1. PICK w : w = writes OBVIOUS
  <2>2. w = [n \in 0..L |-> TurnStep(turns, fs, n, w[n - 1])] BY <2>1, NewTurnsRecursion
  <2>3. \A n \in 0..L : w[n] = TurnStep(turns, fs, n, w[n - 1]) BY <2>2
  <2> QED BY <2>1, <2>3
<1>1. L \in Nat OBVIOUS
<1> HIDE DEF writes, L
<1>3. 0 \in S
  <2>0. 0 \in 0..L BY <1>1
  <2>4. writes[0] = TurnStep(turns, fs, 0, writes[0 - 1]) BY <1>2, <2>0
  <2>1. writes[0] = <<>> BY <2>4, Zenon DEF TurnStep
  <2>2. PlanOK(<<>>, closed) BY EmptyPlan
  <2>3. Good(<<>>) BY <2>2, EmptyIsSeq DEF WritesTurns
  <2> QED BY <2>1, <2>3
<1>4. ASSUME NEW n \in Nat, n \in S PROVE n + 1 \in S
  <2>1. SUFFICES ASSUME n + 1 <= L PROVE Good(writes[n + 1]) OBVIOUS
  <2>2. PICK before : before = writes[n] OBVIOUS
  <2>3. Good(before) BY <1>1, <1>4, <2>1, <2>2
  <2>4. n + 1 \in 0..L /\ (n + 1) - 1 = n /\ n + 1 # 0 BY <1>1, <2>1
  <2>5. PICK w : w = Put("turns", fs["turns"] \cup {turns[m] : m \in 1..(n + 1)}) OBVIOUS
  <2>6. writes[n + 1] = before \/ writes[n + 1] = Append(before, w)
    BY <1>2, <2>2, <2>4, <2>5 DEF TurnStep
  <2>7. Good(Append(before, w))
    <3>1. WriteOK(w, closed) /\ w.failing = "raise" /\ w.file = "turns"
      BY <2>5 DEF WriteOK, Put, Fits, Approvals
    <3>2. IsSeq(before) BY <2>3 DEF PlanOK
    <3>3. PICK plan : plan = Append(before, w) OBVIOUS
    <3>4. /\ IsSeq(plan) /\ Len(plan) = Len(before) + 1 /\ Len(before) \in Nat
          /\ \A i \in 1..Len(before) : plan[i] = before[i]
          /\ plan[Len(before) + 1] = w
      BY <3>2, <3>3, AppendIsSeq DEF IsSeq
    <3>5. \A i \in 1..Len(plan) : i \in 1..Len(before) \/ i = Len(before) + 1 BY <3>4
    <3>6. \A i \in 1..Len(plan) :
             WriteOK(plan[i], closed) /\ plan[i].failing = "raise" /\ plan[i].file = "turns"
      BY <2>3, <3>1, <3>4, <3>5 DEF PlanOK, WritesTurns
    <3> QED BY <3>3, <3>4, <3>6 DEF PlanOK, WritesTurns
  <2> QED BY <2>3, <2>6, <2>7
<1>5. ASSUME NEW n \in Nat PROVE n \in S
  <2> HIDE DEF S
  <2> QED BY <1>3, <1>4, Induction
<1>6. \A n \in 0..L : Good(writes[n]) BY <1>1, <1>5
<1> QED BY <1>6 DEF writes, L

LEMMA CompilationIsPlan ==
    ASSUME NEW pack, NEW fs, PackOK(pack), StoreOK(fs), Nothing \notin Documents,
           NEW closed, closed \subseteq {"receipts", "timeline"}
    PROVE  PlanOK(CompilationWrites(pack, fs), closed)
<1>1. PICK decided : decided = DecisionWrites(pack, fs)[Len(pack.compilations.revisions)]
  OBVIOUS
<1>2. PlanOK(decided, closed) BY <1>1, DecisionWritesArePlans
<1>3. PICK store : store = Written(decided, fs) OBVIOUS
<1>4. PICK rest : rest = IF pack.compilations.pin = 0 THEN <<>>
                         ELSE BindWrites(pack.compilations.pin, store)
  OBVIOUS
<1>5. PlanOK(rest, closed) BY <1>4, BindIsPlan, EmptyPlan
<1>6. PlanOK(decided \o rest, closed) BY <1>2, <1>5, ConcatPlan
<1>7. CompilationWrites(pack, fs) = decided \o rest
  BY <1>1, <1>3, <1>4, Zenon DEF CompilationWrites
<1> QED BY <1>6, <1>7

(* A document no condition is made of.                                       *)
Plain == {"registry", "nodes", "core", "timeline", "turns", "ledger"}

LEMMA PlainPlan ==
    ASSUME NEW f \in Plain, NEW v, NEW closed, closed \subseteq {"receipts", "timeline"},
           f \notin closed
    PROVE  PlanOK(<<Put(f, v)>>, closed)
<1>1. f \notin closed /\ Fits(f, v) BY DEF Plain, Fits, Approvals
<1> QED BY <1>1, PutPlan

LEMMA CreateTargetIsPlan ==
    ASSUME NEW op, NEW fs, NEW closed, closed \subseteq {"receipts", "timeline"}
    PROVE  PlanOK(CreateTarget(op, fs), closed)
<1> DEFINE a == Put("profile", [rel |-> Target(op, fs), manifest |-> op.pack.compilations.pin])
           b == Put("registry", fs["registry"] \cup {Target(op, fs)})
<1>1. PlanOK(<<a>>, closed) BY ProfilePlan
<1>2. PlanOK(<<b>>, closed)
  <2>1. "registry" \notin closed /\ "registry" \in Plain BY DEF Plain
  <2> QED BY <2>1, PlainPlan
<1> HIDE DEF a, b
<1>3. PlanOK(<<a, b>>, closed) BY <1>1, <1>2, TwoWrites
<1>4. CreateTarget(op, fs) = IF fs["profile"].rel # Absent THEN <<>> ELSE <<a, b>>
  BY Zenon DEF CreateTarget, a, b
<1> QED BY <1>3, <1>4, EmptyPlan

LEMMA TimelineIsPlan ==
    ASSUME NEW op, NEW fs, PackOK(op.pack), NEW closed, closed \subseteq {"receipts"}
    PROVE  PlanOK(TimelineWrites(op, fs), closed)
<1> DEFINE n == Len(op.pack.timeline)
           write(i) == Put("timeline", fs["timeline"] \o SubSeq(op.pack.timeline, 1, i))
           plan == [i \in 1..n |-> write(i)]
<1>1. n \in Nat BY DEF PackOK, IsSeq
<1>2. \A i : WriteOK(write(i), closed) /\ write(i).failing = "raise"
  BY DEF WriteOK, Put, Fits, Approvals
<1> HIDE DEF n, write
<1>3. IsSeq(plan) /\ Len(plan) = n BY <1>1, FunctionIsSeq
<1>4. \A i \in 1..Len(plan) : plan[i] = write(i) BY <1>3
<1> HIDE DEF plan
<1>5. PlanOK(plan, closed) BY <1>2, <1>3, <1>4 DEF PlanOK
<1>6. plan = TimelineWrites(op, fs) BY Zenon DEF plan, write, n, TimelineWrites
<1> QED BY <1>5, <1>6

LEMMA PayloadIsPlan ==
    ASSUME NEW op, NEW fs, PackOK(op.pack), Nothing \notin Documents,
           NEW closed, closed \subseteq {"receipts"}
    PROVE  PlanOK(PayloadWrites(op, fs), closed)
<1>a. \A f \in {"nodes", "core", "ledger"} : \A v : PlanOK(<<Put(f, v)>>, closed)
  <2>1. ASSUME NEW f \in {"nodes", "core", "ledger"}, NEW v PROVE PlanOK(<<Put(f, v)>>, closed)
    <3>1. f \in Plain /\ f \notin closed /\ closed \subseteq {"receipts", "timeline"} BY DEF Plain
    <3> QED BY <3>1, PlainPlan
  <2> QED BY <2>1
<1>1. PICK a : a = <<Put("nodes", Merged(op, fs))>> OBVIOUS
<1>2. PlanOK(a, closed) BY <1>a, <1>1
<1>3. PICK b : b = CoreWrites(op, fs) OBVIOUS
<1>4. PlanOK(b, closed) BY <1>a, <1>3, EmptyPlan DEF CoreWrites
<1>5. PICK c : c = TimelineWrites(op, fs) OBVIOUS
<1>6. PlanOK(c, closed) BY <1>5, TimelineIsPlan
<1>7. PICK d : d = TurnWrites(op, fs) OBVIOUS
<1>8. PlanOK(d, closed)
  <2>1. PICK turns : turns = op.pack.turns OBVIOUS
  <2>4. Len(turns) \in Nat /\ Len(turns) \in 0..Len(turns) BY <2>1 DEF PackOK, IsSeq
  <2>5. \A n \in 0..Len(turns) : PlanOK(NewTurns(turns, fs)[n], closed)
    BY <2>4, NewTurnsArePlans
  <2>2. PlanOK(NewTurns(op.pack.turns, fs)[Len(op.pack.turns)], closed)
    BY <2>1, <2>4, <2>5
  <2>3. PlanOK(<<Deny("rejected")>>, closed) BY DenyPlan
  <2> QED BY <1>7, <2>2, <2>3, Zenon DEF TurnWrites
<1>9. PICK e : e = TombstoneWrites(op, fs) OBVIOUS
<1>10. PlanOK(e, closed) BY <1>a, <1>9, EmptyPlan DEF TombstoneWrites
<1>11. PlanOK(a \o b, closed) BY <1>2, <1>4, ConcatPlan
<1>12. PlanOK((a \o b) \o c, closed) BY <1>6, <1>11, ConcatPlan
<1>13. PlanOK(((a \o b) \o c) \o d, closed) BY <1>8, <1>12, ConcatPlan
<1>14. PlanOK((((a \o b) \o c) \o d) \o e, closed) BY <1>10, <1>13, ConcatPlan
<1> QED BY <1>1, <1>3, <1>5, <1>7, <1>9, <1>14, Zenon DEF PayloadWrites

LEMMA ReceiptIsPlan ==
    ASSUME NEW op, NEW fs
    PROVE  PlanOK(ReceiptWrites(op, fs), Closed(fs))
<1> DEFINE v == fs["receipts"] \cup {Receipt(op.pack, op.over)}
<1>1. Fits("receipts", v) BY DEF Fits, Approvals
<1>2. fs["receipts"] # Absent => "receipts" \notin Closed(fs) BY DEF Closed
<1>3. fs["receipts"] # Absent => PlanOK(<<Put("receipts", v)>>, Closed(fs))
  BY <1>1, <1>2, PutPlan
<1> QED BY <1>3, EmptyPlan, Zenon DEF ReceiptWrites

LEMMA ImportIsPlan ==
    ASSUME NEW op, NEW fs, PackOK(op.pack), StoreOK(fs), Nothing \notin Documents,
           NEW plan \in ImportPlans(op, fs)
    PROVE  PlanOK(plan, Closed(fs))
<1> DEFINE closed == Closed(fs)
<1>1. closed \subseteq {"receipts"} BY ClosedIsReceipts
<1> HIDE DEF closed
<1>2. PICK target : target = CreateTarget(op, fs) OBVIOUS
<1>3. PlanOK(target, closed) BY <1>1, <1>2, CreateTargetIsPlan
<1>4. PICK store : store = Written(target, fs) OBVIOUS
<1>5. StoreOK(store) BY <1>3, <1>4, WrittenFits
<1>6. PICK a : a = IF Compiled(op.pack) THEN CompilationWrites(op.pack, store) ELSE <<>>
  OBVIOUS
<1>7. PlanOK(a, closed) BY <1>1, <1>5, <1>6, CompilationIsPlan, EmptyPlan
<1>8. PICK b : b = PayloadWrites(op, fs) OBVIOUS
<1>9. PlanOK(b, closed) BY <1>1, <1>8, PayloadIsPlan
<1>10. PICK c : c = ReceiptWrites(op, fs) OBVIOUS
<1>11. PlanOK(c, closed) BY <1>10, ReceiptIsPlan DEF closed
<1>12. PlanOK(target \o a, closed) BY <1>3, <1>7, ConcatPlan
<1>13. PlanOK((target \o a) \o b, closed) BY <1>9, <1>12, ConcatPlan
<1>14. PlanOK(((target \o a) \o b) \o c, closed) BY <1>11, <1>13, ConcatPlan
<1>15. PlanOK(target \o a \o b \o c, closed) BY <1>14
<1>16. /\ PlanOK(<<>>, closed) /\ PlanOK(<<Deny("rejected")>>, closed)
       /\ PlanOK(<<Deny("changed")>>, closed)
  BY <1>1, EmptyPlan, DenyPlan
<1>17. \/ plan = <<>> \/ plan = <<Deny("rejected")>> \/ plan = <<Deny("changed")>>
       \/ plan = target \o a \o b \o c
  BY <1>2, <1>4, <1>6, <1>8, <1>10, Zenon DEF ImportPlans
<1> QED BY <1>15, <1>16, <1>17 DEF closed

OpOK(op) == op.kind = "import" => op.pack \in Packs

(* Only an import touches the receipts or the timeline.                      *)
LEMMA PlainPlansAreOK ==
    ASSUME NEW op, NEW fs, op.kind # "import", StoreOK(fs), Nothing \notin Documents,
           NEW plan \in AllPlans(op, fs),
           NEW closed, closed \subseteq {"receipts", "timeline"}
    PROVE  PlanOK(plan, closed)
<1>2. PlanOK(<<>>, closed) /\ PlanOK(<<Deny("rejected")>>, closed)
  BY EmptyPlan, DenyPlan
<1>3. ASSUME plan \in CreatePlans(op, fs) PROVE PlanOK(plan, closed)
  <2> DEFINE a == Put("profile", [rel |-> op.rel, manifest |-> 0])
             b == Put("registry", fs["registry"] \cup {op.rel})
  <2>1. PlanOK(<<a>>, closed) BY ProfilePlan
  <2>2. PlanOK(<<b>>, closed) BY PlainPlan DEF Plain
  <2>3. plan = <<>> \/ plan = <<Deny("rejected")>> \/ plan = <<a, b>>
    BY <1>3, Zenon DEF CreatePlans
  <2> HIDE DEF a, b
  <2>4. PlanOK(<<a, b>>, closed) BY <2>1, <2>2, TwoWrites
  <2> QED BY <1>2, <2>3, <2>4
<1>4. ASSUME plan \in TurnPlans(op, fs) PROVE PlanOK(plan, closed)
  <2>1. PlanOK(<<Put("turns", fs["turns"] \cup {op.turn})>>, closed)
    BY PlainPlan DEF Plain
  <2> QED BY <1>2, <1>4, <2>1, Zenon DEF TurnPlans
<1>5. ASSUME plan \in ArchivePlans(op, fs) PROVE PlanOK(plan, closed)
  BY <1>5, PlainPlan DEF Plain, ArchivePlans
<1>6. ASSUME plan \in CorePlans(op, fs) PROVE PlanOK(plan, closed)
  BY <1>6, PlainPlan DEF Plain, CorePlans
<1>8. ASSUME plan \in SavePlans(op, fs) PROVE PlanOK(plan, closed)
  BY <1>8, SaveIsPlan DEF SavePlans
<1>9. ASSUME plan \in DecidePlans(op, fs) PROVE PlanOK(plan, closed)
  BY <1>9, DecideIsPlan DEF DecidePlans
<1>10. ASSUME plan \in ApprovePlans(op, fs) PROVE PlanOK(plan, closed)
  BY <1>10, ApproveAndBindIsPlan DEF ApprovePlans
<1>11. ASSUME plan \in OpenPlans(op, fs) PROVE PlanOK(plan, closed)
  BY <1>11, ReplaysIsPlan DEF OpenPlans
<1>12. \/ plan \in CreatePlans(op, fs) \/ plan \in TurnPlans(op, fs)
       \/ plan \in ArchivePlans(op, fs) \/ plan \in CorePlans(op, fs)
       \/ plan \in SavePlans(op, fs) \/ plan \in DecidePlans(op, fs)
       \/ plan \in ApprovePlans(op, fs) \/ plan \in OpenPlans(op, fs)
  BY DEF AllPlans
<1> QED BY <1>3, <1>4, <1>5, <1>6, <1>8, <1>9, <1>10, <1>11, <1>12

(* Every plan of every method is one.                                        *)
LEMMA AllPlansAreOK ==
    ASSUME NEW op, NEW fs, OpOK(op), StoreOK(fs), Nothing \notin Documents,
           NEW plan \in AllPlans(op, fs)
    PROVE  PlanOK(plan, Closed(fs))
<1>1. CASE op.kind = "import"
  <2>1. plan \in ImportPlans(op, fs) /\ PackOK(op.pack)
    BY <1>1, PacksAreOK DEF AllPlans, OpOK
  <2> QED BY <2>1, ImportIsPlan
<1>2. CASE op.kind # "import"
  <2>1. PICK closed : closed = Closed(fs) OBVIOUS
  <2>2. closed \subseteq {"receipts", "timeline"} BY <2>1, ClosedIsReceipts
  <2>3. PlanOK(plan, closed) BY <1>2, <2>2, PlainPlansAreOK
  <2> QED BY <2>1, <2>3
<1> QED BY <1>1, <1>2

-----------------------------------------------------------------------------
(* The journal and the committed contents                                    *)

(* How the constants are set in a check of the engine over its storage.  The *)
(* erasure of a store that was left with journals is another question.       *)
Setting ==
    /\ \A op, fs : Plans(op, fs) = AllPlans(op, fs)
    /\ Files = Documents
    /\ \A state, entries, saved :
          Nothing # [state |-> state, entries |-> entries, saved |-> saved]
    /\ ~EraseInterrupted

(* An active or committed journal has one before-image for a document; the   *)
(* images fit, and there is none of the receipts.  What is not saved is the  *)
(* last image of an active one.                                              *)
JournalOK ==
    \/ journal = Nothing
    \/ /\ journal = [state |-> journal.state, entries |-> journal.entries,
                     saved |-> journal.saved]
       /\ journal.state \in {"active", "committed"}
       /\ IsSeq(journal.entries)
       /\ journal.saved \/ (journal.state = "active" /\ Len(journal.entries) > 0)
       /\ \A i \in 1..Len(journal.entries) :
             WriteOK([file |-> journal.entries[i].file, to |-> journal.entries[i].before,
                      failing |-> "raise"], {"receipts"})
       /\ \A i, j \in 1..Len(journal.entries) :
             journal.entries[i].file = journal.entries[j].file => i = j

LEMMA RecordedIsCount ==
    ASSUME JournalOK PROVE Recorded \in Nat /\ (Recorded > 0 => Unfinished)
BY DEF JournalOK, Recorded, Unfinished, IsSeq

LEMMA BeforeIsImage ==
    ASSUME JournalOK, NEW i \in 1..Recorded
    PROVE  Before(journal.entries[i].file) = journal.entries[i].before
<1>1. Unfinished /\ Recorded = Len(journal.entries) BY RecordedIsCount DEF Recorded
<1> DEFINE f == journal.entries[i].file
<1>2. \A j \in 1..Recorded : journal.entries[j].file = f => j = i
  BY <1>1 DEF JournalOK, Unfinished
<1>3. (CHOOSE j \in 1..Recorded : journal.entries[j].file = f) = i BY <1>2
<1> QED BY <1>3 DEF Before

LEMMA ImagesAreRecorded ==
    ASSUME JournalOK
    PROVE  \A f : f \in Images <=> \E i \in 1..Recorded : journal.entries[i].file = f
<1>1. CASE Unfinished BY <1>1 DEF Images
<1>2. CASE ~Unfinished
  <2>1. Recorded = 0 /\ Images = {} BY <1>2 DEF Recorded, Images
  <2> QED BY <2>1
<1> QED BY <1>1, <1>2

LEMMA ContentsFit ==
    ASSUME JournalOK, StoreOK(files), Files = Documents
    PROVE  StoreOK(Base) /\ "receipts" \notin Images
<1>1. ASSUME NEW f, f \in Images PROVE Fits(f, Before(f)) /\ f # "receipts"
  <2>1. PICK i \in 1..Recorded : journal.entries[i].file = f
    BY <1>1, ImagesAreRecorded
  <2>2. Before(f) = journal.entries[i].before BY <2>1, BeforeIsImage
  <2>3. Unfinished /\ i \in 1..Len(journal.entries) BY RecordedIsCount, <2>1 DEF Recorded
  <2>4. WriteOK([file |-> journal.entries[i].file, to |-> journal.entries[i].before,
                 failing |-> "raise"], {"receipts"})
    BY <2>3 DEF JournalOK, Unfinished
  <2> QED BY <2>1, <2>2, <2>4 DEF WriteOK
<1>2. ASSUME NEW f \in Documents PROVE Fits(f, Contents(f))
  BY <1>1 DEF Contents, StoreOK
<1> QED BY <1>1, <1>2 DEF StoreOK, Base

LEMMA BaseWithoutImages ==
    ASSUME Images = {}, StoreOK(files), Files = Documents
    PROVE  Base = files
BY DEF Base, Contents, StoreOK

Lookup == \A i \in 1..Recorded : Before(journal.entries[i].file) = journal.entries[i].before

LEMMA LookupFinds == JournalOK => Lookup
BY BeforeIsImage DEF Lookup

(* Recording a before-image changes nothing of what recovery would make.     *)
LEMMA ImagedKeepsBase ==
    ASSUME JournalOK, Unfinished, StoreOK(files), Files = Documents,
           NEW f, f \notin Images, f # "receipts", NEW saved,
           files' = files, journal' = Imaged(f, saved), Setting
    PROVE  /\ JournalOK' /\ Unfinished' /\ Base' = Base
           /\ Recorded' = Recorded + 1
           /\ \A i \in 1..Recorded : journal'.entries[i] = journal.entries[i]
           /\ journal'.entries[Recorded + 1] = [file |-> f, before |-> files[f]]
<1> DEFINE new == [file |-> f, before |-> files[f]]
<1>1. /\ journal = [state |-> "active", entries |-> journal.entries, saved |-> journal.saved]
      /\ IsSeq(journal.entries) /\ Recorded = Len(journal.entries) /\ Recorded \in Nat
  BY DEF JournalOK, Unfinished, Recorded, IsSeq
<1>2. PICK es : es = Append(journal.entries, new) OBVIOUS
<1>3. journal' = [state |-> "active", entries |-> es, saved |-> saved]
  <2>1. PICK j : j = journal OBVIOUS
  <2>2. PICK k : k = [j EXCEPT !.entries = es] OBVIOUS
  <2>3. k = [state |-> "active", entries |-> es, saved |-> j.saved] BY <1>1, <2>1, <2>2
  <2>4. [j EXCEPT !.entries = es, !.saved = saved] = [k EXCEPT !.saved = saved] BY <2>2
  <2>5. [k EXCEPT !.saved = saved] = [state |-> "active", entries |-> es, saved |-> saved]
    BY <2>3
  <2>6. journal' = [j EXCEPT !.entries = es, !.saved = saved] BY <1>2, <2>1, Zenon DEF Imaged
  <2> QED BY <2>4, <2>5, <2>6
<1>4. /\ IsSeq(es) /\ Len(es) = Recorded + 1
      /\ \A i \in 1..Recorded : es[i] = journal.entries[i]
      /\ es[Recorded + 1] = new
  BY <1>1, <1>2, AppendIsSeq
<1>5. journal' # Nothing BY <1>3 DEF Setting
<1>6. Unfinished' /\ Recorded' = Recorded + 1 BY <1>3, <1>4, <1>5 DEF Unfinished, Recorded
<1>7. \A i \in 1..Recorded : journal.entries[i].file # f BY ImagesAreRecorded
<1>8. Fits(f, files[f])
  <2>1. CASE f \in Documents BY <2>1 DEF StoreOK
  <2>2. CASE f \notin Documents BY <2>2 DEF Fits, Documents, Approvals
  <2> QED BY <2>1, <2>2
<1>9. JournalOK'
  <2>1. ASSUME NEW i \in 1..Len(es)
        PROVE  WriteOK([file |-> es[i].file, to |-> es[i].before, failing |-> "raise"],
                       {"receipts"})
    <3>1. CASE i \in 1..Recorded
      BY <1>1, <1>4, <3>1 DEF JournalOK, Unfinished
    <3>2. CASE i = Recorded + 1
      BY <1>4, <1>8, <3>2 DEF WriteOK
    <3> QED BY <1>1, <1>4, <3>1, <3>2
  <2>2. ASSUME NEW i \in 1..Len(es), NEW j \in 1..Len(es), es[i].file = es[j].file
        PROVE  i = j
    <3>1. i \in 1..Recorded \/ i = Recorded + 1 BY <1>1, <1>4
    <3>2. j \in 1..Recorded \/ j = Recorded + 1 BY <1>1, <1>4
    <3>3. CASE i \in 1..Recorded /\ j \in 1..Recorded
      BY <1>1, <1>4, <2>2, <3>3 DEF JournalOK, Unfinished
    <3> QED BY <1>4, <1>7, <2>2, <3>1, <3>2, <3>3
  <2>3. saved \/ Len(es) > 0 BY <1>1, <1>4
  <2>4. /\ journal' = [state |-> journal'.state, entries |-> journal'.entries,
                       saved |-> journal'.saved]
        /\ journal'.state = "active" /\ journal'.entries = es /\ journal'.saved = saved
    BY <1>3
  <2> QED BY <1>4, <2>1, <2>2, <2>3, <2>4 DEF JournalOK
<1>a. Lookup'
  <2>1. JournalOK' => Lookup' BY LookupFinds, PTL
  <2> QED BY <1>9, <2>1
<1>10. ASSUME NEW g \in Files PROVE Contents(g)' = Contents(g)
  <2>1. CASE g \in Images
    <3>1. PICK i \in 1..Recorded : journal.entries[i].file = g BY <2>1, ImagesAreRecorded
    <3>2. Before(g) = journal.entries[i].before BY <3>1, BeforeIsImage
    <3>3. i \in 1..Recorded' /\ journal'.entries[i] = journal.entries[i]
      BY <1>1, <1>3, <1>4, <1>6
    <3>4. Before(g)' = journal'.entries[i].before
      BY <1>a, <3>1, <3>3 DEF Lookup
    <3>5. g \in Images' BY <1>6, <3>1, <3>3 DEF Images
    <3> QED BY <2>1, <3>2, <3>3, <3>4, <3>5 DEF Contents
  <2>2. CASE g = f
    <3>1. Recorded + 1 \in 1..Recorded' /\ journal'.entries[Recorded + 1] = new
      BY <1>1, <1>3, <1>4, <1>6
    <3>2. Before(g)' = files[f] BY <1>a, <2>2, <3>1 DEF Lookup
    <3>3. g \in Images' BY <1>6, <2>2, <3>1 DEF Images
    <3> QED BY <2>2, <3>2, <3>3 DEF Contents
  <2>3. CASE g \notin Images /\ g # f
    <3>1. g \notin Images'
      BY <1>1, <1>3, <1>4, <1>6, <2>3, ImagesAreRecorded DEF Images
    <3> QED BY <2>3, <3>1 DEF Contents
  <2> QED BY <2>1, <2>2, <2>3
<1> QED BY <1>3, <1>4, <1>6, <1>9, <1>10 DEF Base

(* What the next writer finds is a journal like any other, and when an image *)
(* is missing from it, that is noticed.                                      *)
LEMMA OnDiskIsJournal ==
    ASSUME JournalOK, Setting, journal' = OnDisk
    PROVE  JournalOK' /\ (journal' = journal \/ Loses)
<1>1. CASE ~(Unfinished /\ ~journal.saved) BY <1>1 DEF OnDisk, JournalOK
<1>2. CASE Unfinished /\ ~journal.saved
  <2>1. /\ journal = [state |-> "active", entries |-> journal.entries, saved |-> journal.saved]
        /\ IsSeq(journal.entries) /\ Recorded = Len(journal.entries)
        /\ Len(journal.entries) \in Nat /\ Len(journal.entries) > 0
    BY <1>2 DEF JournalOK, Unfinished, Recorded, IsSeq
  <2>2. PICK n : n = Len(journal.entries) - 1 OBVIOUS
  <2>3. n \in Nat /\ Recorded = n + 1 /\ Recorded - 1 = n BY <2>1, <2>2
  <2>4. PICK es : es = SubSeq(journal.entries, 1, n) OBVIOUS
  <2>5. IsSeq(es) /\ Len(es) = n /\ \A i \in 1..n : es[i] = journal.entries[i]
    <3>1. PICK s : s = journal.entries OBVIOUS
    <3>2. IsSeq(s) /\ es = SubSeq(s, 1, n) BY <2>1, <2>4, <3>1
    <3>3. n <= Len(s) BY <2>1, <2>2, <3>1
    <3> QED BY <2>3, <3>1, <3>2, <3>3, PrefixIsSeq
  <2>6. journal' = [state |-> "active", entries |-> es, saved |-> TRUE]
    <3>1. PICK j : j = journal OBVIOUS
    <3>2. PICK k : k = [j EXCEPT !.entries = es] OBVIOUS
    <3>3. k = [state |-> "active", entries |-> es, saved |-> j.saved] BY <2>1, <3>1, <3>2
    <3>4. [j EXCEPT !.entries = es, !.saved = TRUE] = [k EXCEPT !.saved = TRUE] BY <3>2
    <3>5. [k EXCEPT !.saved = TRUE] = [state |-> "active", entries |-> es, saved |-> TRUE]
      <4>1. PICK x, y : k = [state |-> "active", entries |-> x, saved |-> y] BY <3>3
      <4>2. x = es BY <3>3, <4>1
      <4>3. PICK yes : yes = TRUE OBVIOUS
      <4>4. [k EXCEPT !.saved = yes] = [state |-> "active", entries |-> x, saved |-> yes]
        BY <4>1
      <4> QED BY <4>2, <4>3, <4>4
    <3>6. journal' = [journal EXCEPT !.entries = SubSeq(@, 1, n), !.saved = TRUE]
      BY <1>2, <2>3, Zenon DEF OnDisk
    <3>7. journal' = [j EXCEPT !.entries = es, !.saved = TRUE] BY <2>4, <3>1, <3>6
    <3> QED BY <3>4, <3>5, <3>7
  <2>7. journal' # Nothing BY <2>6 DEF Setting
  <2>8. Unfinished' /\ Recorded' = n BY <2>5, <2>6, <2>7 DEF Unfinished, Recorded
  <2>9. JournalOK'
    <3>1. \A i \in 1..n : i \in 1..Len(journal.entries) BY <2>1, <2>2
    <3>2. /\ journal' = [state |-> journal'.state, entries |-> journal'.entries,
                         saved |-> journal'.saved]
          /\ journal'.state = "active" /\ journal'.entries = es /\ journal'.saved
      BY <2>6
    <3>3. ASSUME NEW i \in 1..n
          PROVE  WriteOK([file |-> es[i].file, to |-> es[i].before, failing |-> "raise"],
                         {"receipts"})
      BY <1>2, <2>5, <3>1 DEF JournalOK, Unfinished
    <3>4. \A i, j \in 1..n : es[i].file = es[j].file => i = j
      BY <1>2, <2>5, <3>1 DEF JournalOK, Unfinished
    <3> QED BY <2>5, <3>2, <3>3, <3>4 DEF JournalOK
  <2> QED BY <2>3, <2>8, <2>9 DEF Loses
<1> QED BY <1>1, <1>2

-----------------------------------------------------------------------------
(* A plan some of whose writes were lost                                     *)

LEMMA WithoutIsSeq ==
    ASSUME NEW plan, IsSeq(plan), NEW skipped
    PROVE  /\ IsSeq(Without(plan, skipped))
           /\ Len(Without(plan, skipped)) = Len(plan)
           /\ \A i \in 1..Len(plan) :
                 Without(plan, skipped)[i] = IF i \in skipped THEN plan[i - 1] ELSE plan[i]
<1>1. DOMAIN plan = 1..Len(plan) /\ Len(plan) \in Nat BY DEF IsSeq
<1>2. PICK w : w = Without(plan, skipped) OBVIOUS
<1>3. w = [i \in 1..Len(plan) |-> IF i \in skipped THEN plan[i - 1] ELSE plan[i]]
  BY <1>1, <1>2, Zenon DEF Without
<1>4. w = [i \in 1..Len(plan) |-> w[i]] BY <1>3
<1>5. IsSeq(w) /\ Len(w) = Len(plan) BY <1>1, <1>4, FunctionIsSeq
<1> QED BY <1>2, <1>3, <1>5

LEMMA WithoutNone == ASSUME NEW plan, IsSeq(plan) PROVE Without(plan, {}) = plan
BY DEF Without, IsSeq

LEMMA AfterPrefix ==
    ASSUME NEW s, NEW t, NEW fs, NEW n \in Nat, \A i \in 1..n : s[i] = t[i]
    PROVE  After(s, n, fs) = After(t, n, fs)
<1> DEFINE U(f) == {i \in 1..n : s[i].file = f}
           V(f) == {i \in 1..n : t[i].file = f}
           Greatest(W) == CHOOSE i \in W : \A j \in W : j <= i
           Value(w, W, f) == IF W = {} THEN fs[f] ELSE w[Greatest(W)].to
<1>1. After(s, n, fs) = [f \in DOMAIN fs |-> Value(s, U(f), f)] BY Zenon DEF After
<1>2. After(t, n, fs) = [f \in DOMAIN fs |-> Value(t, V(f), f)] BY Zenon DEF After
<1>3. ASSUME NEW f PROVE Value(s, U(f), f) = Value(t, V(f), f)
  <2>1. U(f) = V(f) OBVIOUS
  <2>2. U(f) # {} => Greatest(U(f)) \in 1..n
    <3>1. U(f) \subseteq 1..n OBVIOUS
    <3> DEFINE W == U(f)
    <3> HIDE DEF W
    <3>2. W # {} => \E i \in W : \A j \in W : j <= i BY <3>1, GreatestUpTo DEF W
    <3>3. W # {} => Greatest(W) \in W BY <3>2
    <3> QED BY <3>1, <3>3 DEF W
  <2> HIDE DEF U, V, Greatest
  <2> QED BY <2>1, <2>2
<1> HIDE DEF Value, U, V
<1> QED BY <1>1, <1>2, <1>3

(* A write that is lost is as if the one before it had been repeated.        *)
LEMMA NextWriteLost ==
    ASSUME NEW plan, NEW closed, PlanOK(plan, closed), NEW fs, NEW n \in Nat,
           n + 1 <= Len(plan), plan[n + 1].failing = "ignore",
           NEW skipped, skipped \subseteq Ignored(plan) \cap 1..n
    PROVE  After(Without(plan, skipped \cup {n + 1}), n + 1, fs)
             = After(Without(plan, skipped), n, fs)
<1>1. IsSeq(plan) /\ Len(plan) \in Nat BY DEF PlanOK, IsSeq
<1>2. n >= 1 /\ plan[n].failing # "ignore"
  <2>1. n + 1 \in 1..Len(plan) BY <1>1
  <2>2. n + 1 > 1 /\ plan[(n + 1) - 1].failing # "ignore" BY <2>1 DEF PlanOK
  <2> QED BY <2>2
<1>3. n \notin skipped BY <1>2 DEF Ignored
<1>4. PICK v : v = Without(plan, skipped \cup {n + 1}) OBVIOUS
<1>5. PICK w : w = Without(plan, skipped) OBVIOUS
<1>6. \A i \in 1..n : v[i] = w[i]
  <2>1. ASSUME NEW i \in 1..n PROVE v[i] = w[i]
    <3>1. i \in 1..Len(plan) /\ i # n + 1 BY <1>1
    <3> QED BY <1>1, <1>4, <1>5, <3>1, WithoutIsSeq
  <2> QED BY <2>1
<1>7. n \in 1..Len(plan) /\ n + 1 \in 1..Len(plan) BY <1>1, <1>2
<1>8. w[n] = plan[n] BY <1>1, <1>3, <1>5, <1>7, WithoutIsSeq
<1>9. v[n + 1] = plan[n]
  <2>1. v[n + 1] = plan[(n + 1) - 1] BY <1>1, <1>4, <1>7, WithoutIsSeq
  <2> QED BY <2>1
<1>10. After(v, n + 1, fs) = [After(v, n, fs) EXCEPT ![plan[n].file] = plan[n].to]
  BY <1>9, AfterOneMore
<1>11. After(v, n, fs) = After(w, n, fs) BY <1>6, AfterPrefix
<1>12. After(w, n, fs) = [After(w, n - 1, fs) EXCEPT ![plan[n].file] = plan[n].to]
  <2>1. n - 1 \in Nat /\ (n - 1) + 1 = n BY <1>2
  <2>2. After(w, (n - 1) + 1, fs)
          = [After(w, n - 1, fs) EXCEPT ![w[(n - 1) + 1].file] = w[(n - 1) + 1].to]
    BY <2>1, AfterOneMore
  <2> QED BY <1>8, <2>1, <2>2
<1>13. ASSUME NEW g, NEW h, NEW x, NEW y, h = [g EXCEPT ![x] = y]
       PROVE  [h EXCEPT ![x] = y] = h
  BY <1>13
<1> QED BY <1>4, <1>5, <1>10, <1>11, <1>12, <1>13

-----------------------------------------------------------------------------
(* The inductive invariant                                                   *)

Busy == {"begin", "plan", "write", "recover", "rollback", "clean"}
Importing == {"import", "guarded", "checked", "importing"}

IsTask(t) ==
    t = [at |-> t.at, op |-> t.op, plan |-> t.plan, done |-> t.done, again |-> t.again,
         undo |-> t.undo, applied |-> t.applied, result |-> t.result]

(* Only an import is a whole-pack operation.  What is decided is a revision  *)
(* that waits for it, or an approval that is taken back.                     *)
OpFits(op) ==
    /\ OpOK(op)
    /\ op.kind \in {"create", "approve"} => op.rel # Absent
    /\ op.kind = "import" => op.fresh \in Processes /\ op.whole /\ op.over \in BOOLEAN
    /\ op.kind = "decide" => op.to = "revoked" \/ op.expected = "pending"
    /\ op.kind = "approve" => op.rev \in Nat \ {0}
    /\ op.whole \in BOOLEAN
    /\ op.whole => op = [kind |-> "import", whole |-> TRUE, pack |-> op.pack,
                         over |-> op.over, guard |-> op.guard, fresh |-> op.fresh,
                         seen |-> op.seen]

Tasks ==
    /\ task = [p \in Processes |-> task[p]]
    /\ \A p \in Processes :
          IsTask(task[p]) /\ OpFits(task[p].op) /\ task[p].applied \in BOOLEAN

IsEngine(e) ==
    /\ "at" \in DOMAIN e
    /\ e.at \in Importing =>
          /\ e = [at |-> e.at, pack |-> e.pack, over |-> e.over, guard |-> e.guard,
                  tries |-> e.tries]
          /\ e.pack \in Packs /\ e.over \in BOOLEAN

Engines ==
    /\ engine = [p \in Processes |-> engine[p]]
    /\ \A p \in Processes : IsEngine(engine[p])

(* With some of the removals it may skip, p has done that much of its plan;  *)
(* of a write it is going to try again nobody knows whether it is done.      *)
Progress(p) ==
    \E skipped \in SUBSET (Ignored(task[p].plan) \cap 1..task[p].done) :
        LET now == After(Without(task[p].plan, skipped), task[p].done, Base)
        IN  \/ files = now
            \/ /\ task[p].done < Len(task[p].plan)
               /\ NextWrite(p).failing = "again"
               /\ files = [now EXCEPT ![NextWrite(p).file] = NextWrite(p).to]

WritingOK(p) ==
    /\ PlanOK(task[p].plan, {"receipts"})
    /\ task[p].done \in 0..Len(task[p].plan)
    /\ ~Whole(p) => journal = Nothing
    /\ Whole(p) =>
          /\ Unfinished
          /\ \A i \in 1..task[p].done : task[p].plan[i].failing # "denied"
          /\ lost \/ (task[p].plan \in AllPlans(task[p].op, Base) /\ Progress(p))

(* What was recorded after the image that is restored next is restored.      *)
RestoringOK(p) ==
    /\ task[p].undo \in 0..Recorded
    /\ \A i \in (task[p].undo + 1)..Recorded :
          journal.entries[i].file \in Files =>
              files[journal.entries[i].file] = journal.entries[i].before

ProcessOK(p) ==
    /\ task[p].at \in Busy => lock = p
    /\ task[p].at \in {"wait", "recover", "begin", "plan", "write", "rollback"}
          => ~task[p].applied
    /\ task[p].at \in {"wait", "recover", "begin", "plan"} => task[p].done = 0
    /\ task[p].at = "begin" => journal = Nothing /\ Whole(p)
    /\ task[p].at = "plan" => journal = IF Whole(p) THEN NewJournal ELSE Nothing
    /\ task[p].at = "write" => WritingOK(p)
    /\ task[p].at \in {"recover", "rollback"} => RestoringOK(p)
    /\ task[p].at = "rollback" =>
          Whole(p) /\ task[p].result \in {"rejected", "changed", "error"}
    /\ task[p].at = "clean" =>
          Whole(p) /\ task[p].applied /\ journal # Nothing /\ ~Unfinished

(* SQLite has no journal that could lose anything, and nobody is in the      *)
(* middle of anything.                                                       *)
DatabaseOK ==
    Transactional =>
        ~lost /\ journal = Nothing /\ \A p \in Processes : task[p].at \notin Busy

IInv ==
    /\ StoreOK(files)
    /\ Tasks
    /\ Engines
    /\ JournalOK
    /\ \A p \in Processes : ProcessOK(p)
    /\ DatabaseOK
    /\ lost \in BOOLEAN

(* What Next does to the history, whatever the step.                         *)
Recalls ==
    /\ lost \/ Loses => lost'
    /\ lost' => lost \/ Loses
    /\ lost' \in BOOLEAN

LEMMA NothingIsLost ==
    ASSUME files' = files, journal' = journal, JournalOK
    PROVE  ~Loses
<1>1. Recorded \in Nat /\ Recorded' = Recorded
  BY RecordedIsCount DEF Unfinished, Recorded
<1> QED BY <1>1 DEF Loses

-----------------------------------------------------------------------------
(* What a step looks like to AtomicStore                                     *)

(* To AtomicStore a task looks as it did.                                    *)
Looks(t, u) ==
    /\ u.op = t.op /\ u.applied = t.applied
    /\ Answered(u) = Answered(t) /\ Remaining(u) = Remaining(t)

Unseen == Base' = Base /\ \A p \in Processes : Looks(task[p], task'[p])

(* What a step does to what is committed: nothing, an operation as a whole,  *)
(* one write of a plain method, or an erasure.                               *)
Moved ==
    \/ Base' = Base
    \/ \E p \in Processes : Base' \in Outcomes(task[p].op, Base)
    \/ \E p \in Processes :
          /\ task[p].at = "write" /\ ~Whole(p) /\ task[p].done < Len(task[p].plan)
          /\ Base' = [Base EXCEPT ![NextWrite(p).file] = NextWrite(p).to]
    \/ Base' = Erased(Base) /\ \A f \in Approvals : Base'[f] = Absent

(* The step is one of AtomicStore's, or the promise ends with it.            *)
Simulated ==
    \/ lost'
    \/ /\ Unseen \/ Atomic!Reset \/ \E p \in Processes : Atomic!Operates(p)
       /\ Moved

LEMMA SeenAsNothing ==
    ASSUME Base' = Base, \A p \in Processes : Looks(task[p], task'[p])
    PROVE  Simulated
BY DEF Simulated, Moved, Unseen

LEMMA SeenAsAsk ==
    ASSUME NEW p \in Processes, Base' = Base,
           ~task'[p].applied, task'[p].applied \in BOOLEAN, Answered(task'[p]) = "none",
           Remaining(task'[p]) = <<>>,
           \A q \in Processes \ {p} : task'[q] = task[q]
    PROVE  Simulated
<1>1. \A q \in Processes \ {p} : Asked'[q] = Asked[q] BY DEF Asked
<1>2. Left' = [Left EXCEPT ![p] = <<>>] BY DEF Left
<1>3. Applied' = [Applied EXCEPT ![p] = FALSE]
  <2>1. task'[p].applied = FALSE OBVIOUS
  <2> QED BY <2>1 DEF Applied
<1>4. Answer' = [Answer EXCEPT ![p] = "none"] BY DEF Answer
<1>5. Atomic!Ask(p) BY <1>1, <1>2, <1>3, <1>4 DEF Atomic!Ask
<1> QED BY <1>5 DEF Simulated, Moved, Atomic!Operates

LEMMA SeenAsAnswer ==
    ASSUME NEW p \in Processes, Base' = Base,
           task'[p].op = task[p].op, task'[p].applied = task[p].applied,
           Remaining(task'[p]) = Remaining(task[p]),
           Answered(task'[p]) \in {"done", "rejected", "changed", "error"},
           Answered(task'[p]) = "done" => task[p].applied,
           Answered(task'[p]) \in {"rejected", "changed"} => ~task[p].applied,
           \A q \in Processes \ {p} : task'[q] = task[q]
    PROVE  Simulated
<1>1. PICK r : r = Answered(task'[p]) OBVIOUS
<1>2. Answer' = [Answer EXCEPT ![p] = r] BY <1>1 DEF Answer
<1>3. Asked' = Asked /\ Left' = Left /\ Applied' = Applied /\ Applied[p] = task[p].applied
  BY DEF Asked, Left, Applied
<1>4. Atomic!Answer(p) BY <1>1, <1>2, <1>3 DEF Atomic!Answer
<1> QED BY <1>4 DEF Simulated, Moved, Atomic!Operates

LEMMA SeenAsApply ==
    ASSUME NEW p \in Processes, task[p].op.whole, ~task[p].applied,
           Base' \in Outcomes(task[p].op, Base),
           task'[p].op = task[p].op, task'[p].applied, task'[p].applied \in BOOLEAN,
           Remaining(task'[p]) = Remaining(task[p]),
           \/ Answered(task'[p]) = Answered(task[p])
           \/ Answered(task'[p]) \in {"done", "error"},
           \A q \in Processes \ {p} : task'[q] = task[q] /\ Remaining(task[q]) = <<>>
    PROVE  Simulated
<1>1. PICK r : r = Answered(task'[p]) OBVIOUS
<1>2. Answer' = [Answer EXCEPT ![p] = r] BY <1>1 DEF Answer
<1>3. Answer' = Answer \/ r \in {"done", "error"}
  <2>1. CASE r = Answered(task[p]) BY <1>1, <2>1 DEF Answer
  <2>2. CASE r # Answered(task[p]) BY <1>1, <2>2
  <2> QED BY <2>1, <2>2
<1>4. Answer' \in {Answer} \cup {[Answer EXCEPT ![p] = x] : x \in {"done", "error"}}
  BY <1>2, <1>3
<1>5. Applied' = [Applied EXCEPT ![p] = TRUE]
  <2>1. task'[p].applied = TRUE OBVIOUS
  <2> QED BY <2>1 DEF Applied
<1>6. Asked' = Asked /\ Asked[p] = task[p].op /\ Left' = Left /\ Applied[p] = task[p].applied
  BY DEF Asked, Left, Applied
<1>7. \A q \in Processes \ {p} : Left[q] = <<>> BY DEF Left
<1>8. Atomic!Apply(p) BY <1>4, <1>5, <1>6, <1>7 DEF Atomic!Apply, Atomic!Alone
<1> QED BY <1>8 DEF Simulated, Moved, Atomic!Operates

(* Only p changes, and only in what it has left to write.                    *)
Rests(p, rest) ==
    /\ task'[p].op = task[p].op /\ task'[p].applied = task[p].applied
    /\ Answered(task'[p]) = Answered(task[p]) /\ Remaining(task'[p]) = rest
    /\ \A q \in Processes \ {p} : task'[q] = task[q]

LEMMA RestingIsLeft ==
    ASSUME NEW p \in Processes, NEW rest, Rests(p, rest)
    PROVE  /\ Asked' = Asked /\ Applied' = Applied /\ Answer' = Answer
           /\ Left' = [Left EXCEPT ![p] = rest]
<1>1. Asked' = Asked BY DEF Rests, Asked
<1>2. Applied' = Applied BY DEF Rests, Applied
<1>3. Answer' = Answer BY DEF Rests, Answer
<1>4. Left' = [Left EXCEPT ![p] = rest] BY DEF Rests, Left
<1> QED BY <1>1, <1>2, <1>3, <1>4

LEMMA SeenAsDecide ==
    ASSUME NEW p \in Processes, ~task[p].op.whole, Base["receipts"] = Absent,
           Base' = Base, Remaining(task[p]) = <<>>,
           \A q \in Processes \ {p} : Remaining(task[q]) = <<>>,
           NEW plan \in AllPlans(task[p].op, Base), Rests(p, plan)
    PROVE  Simulated
<1>1. Asked' = Asked /\ Applied' = Applied /\ Answer' = Answer BY RestingIsLeft
<1>2. Left' = [Left EXCEPT ![p] = plan] BY RestingIsLeft
<1>3. Asked[p] = task[p].op /\ Left[p] = <<>> /\ \A q \in Processes \ {p} : Left[q] = <<>>
  BY DEF Asked, Left
<1>4. Atomic!Decide(p) BY <1>1, <1>2, <1>3 DEF Atomic!Decide, Atomic!Alone
<1> QED BY <1>4 DEF Simulated, Moved, Atomic!Operates

LEMMA SeenAsReplace ==
    ASSUME NEW p \in Processes, Moved, Remaining(task[p]) # <<>>,
           \A q \in Processes \ {p} : Remaining(task[q]) = <<>>,
           NEW write, write = Head(Remaining(task[p])), write.failing # "denied",
           Base' = [Base EXCEPT ![write.file] = write.to],
           NEW rest \in {Remaining(task[p]), Tail(Remaining(task[p])), <<>>}, Rests(p, rest)
    PROVE  Simulated
<1>1. Asked' = Asked /\ Applied' = Applied /\ Answer' = Answer BY RestingIsLeft
<1>2. Left' = [Left EXCEPT ![p] = rest] BY RestingIsLeft
<1>3. Left[p] = Remaining(task[p]) /\ \A q \in Processes \ {p} : Left[q] = <<>> BY DEF Left
<1>4. Atomic!Replace(p) BY <1>1, <1>2, <1>3 DEF Atomic!Replace, Atomic!Alone
<1> QED BY <1>4 DEF Simulated, Atomic!Operates

LEMMA SeenAsForgo ==
    ASSUME NEW p \in Processes, Base' = Base, Remaining(task[p]) # <<>>,
           NEW rest, Rests(p, rest),
           \/ rest = <<>>
           \/ /\ Head(Remaining(task[p])).failing = "ignore"
              /\ rest = Tail(Remaining(task[p]))
    PROVE  Simulated
<1>1. Asked' = Asked /\ Applied' = Applied /\ Answer' = Answer BY RestingIsLeft
<1>2. Left' = [Left EXCEPT ![p] = rest] BY RestingIsLeft
<1>3. Left[p] = Remaining(task[p]) BY DEF Left
<1>4. \/ Left' = [Left EXCEPT ![p] = <<>>]
      \/ Head(Left[p]).failing = "ignore" /\ Left' = [Left EXCEPT ![p] = Tail(Left[p])]
  BY <1>2, <1>3
<1>5. Atomic!Forgo(p) BY <1>1, <1>3, <1>4 DEF Atomic!Forgo
<1> QED BY <1>5 DEF Simulated, Moved, Atomic!Operates

LEMMA SeenAsTransact ==
    ASSUME NEW p \in Processes, ~task[p].op.whole, Base["receipts"] # Absent,
           Base' \in Outcomes(task[p].op, Base), \A q \in Processes : Looks(task[q], task'[q])
    PROVE  Simulated
<1>1. Asked' = Asked /\ Left' = Left /\ Applied' = Applied /\ Answer' = Answer
  <2>1. Asked' = Asked BY DEF Looks, Asked
  <2>2. Left' = Left BY DEF Looks, Left
  <2>3. Applied' = Applied BY DEF Looks, Applied
  <2>4. Answer' = Answer BY DEF Looks, Answer
  <2> QED BY <2>1, <2>2, <2>3, <2>4
<1>2. Asked[p] = task[p].op BY DEF Asked
<1>3. Atomic!Transact(p) BY <1>1, <1>2 DEF Atomic!Transact
<1> QED BY <1>3 DEF Simulated, Moved, Atomic!Operates

LEMMA SeenAsReset ==
    ASSUME Base' = Erased(Base), \A f \in Approvals : Base'[f] = Absent,
           \A p \in Processes : /\ task'[p].applied = FALSE
                                /\ Answered(task'[p]) = "none"
                                /\ Remaining(task[p]) = <<>>
                                /\ Remaining(task'[p]) = <<>>
    PROVE  Simulated
<1>1. Applied' = [p \in Processes |-> FALSE] BY DEF Applied
<1>2. Answer' = [p \in Processes |-> "none"] BY DEF Answer
<1>3. Left' = Left /\ \A p \in Processes : Left[p] = <<>> BY DEF Left
<1>4. Atomic!Reset BY <1>1, <1>2, <1>3 DEF Atomic!Reset
<1> QED BY <1>4 DEF Simulated, Moved

(* While p has the lock, or nobody has, or there is a database, the others   *)
(* have nothing left to write.                                               *)
LEMMA OthersAreDone ==
    ASSUME IInv, NEW p \in Processes, lock \in {p, Free} \/ Transactional
    PROVE  \A q \in Processes \ {p} : Remaining(task[q]) = <<>>
<1> SUFFICES ASSUME NEW q \in Processes \ {p}, task[q].at = "write" PROVE FALSE
  BY DEF Remaining
<1>1. task[q].at \in Busy /\ ProcessOK(q) BY DEF Busy, IInv
<1> QED BY <1>1, StorageAssumption DEF ProcessOK, IInv, DatabaseOK

-----------------------------------------------------------------------------
(* How a step changes the task of its process                                *)

OnlyTask(p) == Tasks' /\ \A q \in Processes \ {p} : task'[q] = task[q]

MovesToUndo(p, x, y) == task' = [task EXCEPT ![p].at = x, ![p].undo = y]
Leaves(p, x, y) == task' = [task EXCEPT ![p].at = x, ![p].result = y]
Decides(p, x, y) == task' = [task EXCEPT ![p].at = x, ![p].plan = y]
RollsBack(p, x, y, z) == task' = [task EXCEPT ![p].at = x, ![p].undo = y, ![p].result = z]
Commits(p, x, y) == task' = [task EXCEPT ![p].at = x, ![p].applied = y]
LeavesApplied(p, x, y, z) == task' = [task EXCEPT ![p].at = x, ![p].applied = y, ![p].result = z]

LEMMA TaskReplaced ==
    ASSUME Tasks, NEW p \in Processes, NEW u, IsTask(u), OpFits(u.op), u.applied \in BOOLEAN,
           task' = [task EXCEPT ![p] = u]
    PROVE  OnlyTask(p) /\ task'[p] = u
<1>1. /\ task' = [q \in Processes |-> task'[q]]
      /\ task'[p] = u
      /\ \A q \in Processes \ {p} : task'[q] = task[q]
  BY DEF Tasks
<1> QED BY <1>1 DEF Tasks, OnlyTask

LEMMA TaskMoves ==
    ASSUME Tasks, NEW p \in Processes, NEW x,
           task' = [task EXCEPT ![p].at = x]
    PROVE  /\ OnlyTask(p)
           /\ task'[p].at = x /\ task'[p].op = task[p].op
           /\ task'[p].plan = task[p].plan /\ task'[p].done = task[p].done
           /\ task'[p].again = task[p].again /\ task'[p].undo = task[p].undo
           /\ task'[p].applied = task[p].applied /\ task'[p].result = task[p].result
<1>1. PICK t : t = task[p] OBVIOUS
<1>2. IsTask(t) /\ OpFits(t.op) /\ t.applied \in BOOLEAN BY <1>1 DEF Tasks
<1>3. PICK u : u = [at |-> x, op |-> t.op, plan |-> t.plan,
           done |-> t.done, again |-> t.again, undo |-> t.undo, applied |-> t.applied, result |-> t.result]
  OBVIOUS
<1>4. [t EXCEPT !.at = x] = u BY <1>2, <1>3 DEF IsTask
<1>5. task' = [task EXCEPT ![p] = [t EXCEPT !.at = x]] BY <1>1 DEF Tasks
<1>6. task' = [task EXCEPT ![p] = u] BY <1>4, <1>5
<1>7. IsTask(u) /\ OpFits(u.op) /\ u.applied \in BOOLEAN BY <1>2, <1>3 DEF IsTask
<1>8. OnlyTask(p) /\ task'[p] = u BY <1>6, <1>7, TaskReplaced
<1> QED BY <1>1, <1>3, <1>8

LEMMA TaskMovesToUndo ==
    ASSUME Tasks, NEW p \in Processes, NEW x, NEW y,
           MovesToUndo(p, x, y)
    PROVE  /\ OnlyTask(p)
           /\ task'[p].at = x /\ task'[p].op = task[p].op
           /\ task'[p].plan = task[p].plan /\ task'[p].done = task[p].done
           /\ task'[p].again = task[p].again /\ task'[p].undo = y
           /\ task'[p].applied = task[p].applied /\ task'[p].result = task[p].result
<1>1. PICK t : t = task[p] OBVIOUS
<1>2. IsTask(t) /\ OpFits(t.op) /\ t.applied \in BOOLEAN BY <1>1 DEF Tasks
<1>3. PICK u : u = [at |-> x, op |-> t.op, plan |-> t.plan,
           done |-> t.done, again |-> t.again, undo |-> y, applied |-> t.applied, result |-> t.result]
  OBVIOUS
<1>4. [t EXCEPT !.at = x, !.undo = y] = u
  <2>1. PICK t1 : t1 = [at |-> x, op |-> t.op, plan |-> t.plan,
              done |-> t.done, again |-> t.again, undo |-> t.undo, applied |-> t.applied, result |-> t.result]
    OBVIOUS
  <2>2. [t EXCEPT !.at = x] = t1 BY <1>2, <2>1 DEF IsTask
  <2>3. [t1 EXCEPT !.undo = y] = u BY <1>3, <2>1
  <2>4. [t EXCEPT !.at = x, !.undo = y] = [[t EXCEPT !.at = x] EXCEPT !.undo = y] OBVIOUS
  <2> QED BY <2>2, <2>3, <2>4
<1>5. task' = [task EXCEPT ![p] = [t EXCEPT !.at = x, !.undo = y]] BY <1>1 DEF Tasks, MovesToUndo
<1>6. task' = [task EXCEPT ![p] = u] BY <1>4, <1>5
<1>7. IsTask(u) /\ OpFits(u.op) /\ u.applied \in BOOLEAN BY <1>2, <1>3 DEF IsTask
<1>8. OnlyTask(p) /\ task'[p] = u BY <1>6, <1>7, TaskReplaced
<1> QED BY <1>1, <1>3, <1>8

LEMMA TaskUndoes ==
    ASSUME Tasks, NEW p \in Processes, NEW x,
           task' = [task EXCEPT ![p].undo = x]
    PROVE  /\ OnlyTask(p)
           /\ task'[p].at = task[p].at /\ task'[p].op = task[p].op
           /\ task'[p].plan = task[p].plan /\ task'[p].done = task[p].done
           /\ task'[p].again = task[p].again /\ task'[p].undo = x
           /\ task'[p].applied = task[p].applied /\ task'[p].result = task[p].result
<1>1. PICK t : t = task[p] OBVIOUS
<1>2. IsTask(t) /\ OpFits(t.op) /\ t.applied \in BOOLEAN BY <1>1 DEF Tasks
<1>3. PICK u : u = [at |-> t.at, op |-> t.op, plan |-> t.plan,
           done |-> t.done, again |-> t.again, undo |-> x, applied |-> t.applied, result |-> t.result]
  OBVIOUS
<1>4. [t EXCEPT !.undo = x] = u BY <1>2, <1>3 DEF IsTask
<1>5. task' = [task EXCEPT ![p] = [t EXCEPT !.undo = x]] BY <1>1 DEF Tasks
<1>6. task' = [task EXCEPT ![p] = u] BY <1>4, <1>5
<1>7. IsTask(u) /\ OpFits(u.op) /\ u.applied \in BOOLEAN BY <1>2, <1>3 DEF IsTask
<1>8. OnlyTask(p) /\ task'[p] = u BY <1>6, <1>7, TaskReplaced
<1> QED BY <1>1, <1>3, <1>8

LEMMA TaskLeaves ==
    ASSUME Tasks, NEW p \in Processes, NEW x, NEW y,
           Leaves(p, x, y)
    PROVE  /\ OnlyTask(p)
           /\ task'[p].at = x /\ task'[p].op = task[p].op
           /\ task'[p].plan = task[p].plan /\ task'[p].done = task[p].done
           /\ task'[p].again = task[p].again /\ task'[p].undo = task[p].undo
           /\ task'[p].applied = task[p].applied /\ task'[p].result = y
<1>1. PICK t : t = task[p] OBVIOUS
<1>2. IsTask(t) /\ OpFits(t.op) /\ t.applied \in BOOLEAN BY <1>1 DEF Tasks
<1>3. PICK u : u = [at |-> x, op |-> t.op, plan |-> t.plan,
           done |-> t.done, again |-> t.again, undo |-> t.undo, applied |-> t.applied, result |-> y]
  OBVIOUS
<1>4. [t EXCEPT !.at = x, !.result = y] = u
  <2>1. PICK t1 : t1 = [at |-> x, op |-> t.op, plan |-> t.plan,
              done |-> t.done, again |-> t.again, undo |-> t.undo, applied |-> t.applied, result |-> t.result]
    OBVIOUS
  <2>2. [t EXCEPT !.at = x] = t1 BY <1>2, <2>1 DEF IsTask
  <2>3. [t1 EXCEPT !.result = y] = u BY <1>3, <2>1
  <2>4. [t EXCEPT !.at = x, !.result = y] = [[t EXCEPT !.at = x] EXCEPT !.result = y] OBVIOUS
  <2> QED BY <2>2, <2>3, <2>4
<1>5. task' = [task EXCEPT ![p] = [t EXCEPT !.at = x, !.result = y]] BY <1>1 DEF Tasks, Leaves
<1>6. task' = [task EXCEPT ![p] = u] BY <1>4, <1>5
<1>7. IsTask(u) /\ OpFits(u.op) /\ u.applied \in BOOLEAN BY <1>2, <1>3 DEF IsTask
<1>8. OnlyTask(p) /\ task'[p] = u BY <1>6, <1>7, TaskReplaced
<1> QED BY <1>1, <1>3, <1>8

LEMMA TaskDecides ==
    ASSUME Tasks, NEW p \in Processes, NEW x, NEW y,
           Decides(p, x, y)
    PROVE  /\ OnlyTask(p)
           /\ task'[p].at = x /\ task'[p].op = task[p].op
           /\ task'[p].plan = y /\ task'[p].done = task[p].done
           /\ task'[p].again = task[p].again /\ task'[p].undo = task[p].undo
           /\ task'[p].applied = task[p].applied /\ task'[p].result = task[p].result
<1>1. PICK t : t = task[p] OBVIOUS
<1>2. IsTask(t) /\ OpFits(t.op) /\ t.applied \in BOOLEAN BY <1>1 DEF Tasks
<1>3. PICK u : u = [at |-> x, op |-> t.op, plan |-> y,
           done |-> t.done, again |-> t.again, undo |-> t.undo, applied |-> t.applied, result |-> t.result]
  OBVIOUS
<1>4. [t EXCEPT !.at = x, !.plan = y] = u
  <2>1. PICK t1 : t1 = [at |-> x, op |-> t.op, plan |-> t.plan,
              done |-> t.done, again |-> t.again, undo |-> t.undo, applied |-> t.applied, result |-> t.result]
    OBVIOUS
  <2>2. [t EXCEPT !.at = x] = t1 BY <1>2, <2>1 DEF IsTask
  <2>3. [t1 EXCEPT !.plan = y] = u BY <1>3, <2>1
  <2>4. [t EXCEPT !.at = x, !.plan = y] = [[t EXCEPT !.at = x] EXCEPT !.plan = y] OBVIOUS
  <2> QED BY <2>2, <2>3, <2>4
<1>5. task' = [task EXCEPT ![p] = [t EXCEPT !.at = x, !.plan = y]] BY <1>1 DEF Tasks, Decides
<1>6. task' = [task EXCEPT ![p] = u] BY <1>4, <1>5
<1>7. IsTask(u) /\ OpFits(u.op) /\ u.applied \in BOOLEAN BY <1>2, <1>3 DEF IsTask
<1>8. OnlyTask(p) /\ task'[p] = u BY <1>6, <1>7, TaskReplaced
<1> QED BY <1>1, <1>3, <1>8

LEMMA TaskRollsBack ==
    ASSUME Tasks, NEW p \in Processes, NEW x, NEW y, NEW z,
           RollsBack(p, x, y, z)
    PROVE  /\ OnlyTask(p)
           /\ task'[p].at = x /\ task'[p].op = task[p].op
           /\ task'[p].plan = task[p].plan /\ task'[p].done = task[p].done
           /\ task'[p].again = task[p].again /\ task'[p].undo = y
           /\ task'[p].applied = task[p].applied /\ task'[p].result = z
<1>1. PICK t : t = task[p] OBVIOUS
<1>2. IsTask(t) /\ OpFits(t.op) /\ t.applied \in BOOLEAN BY <1>1 DEF Tasks
<1>3. PICK u : u = [at |-> x, op |-> t.op, plan |-> t.plan,
           done |-> t.done, again |-> t.again, undo |-> y, applied |-> t.applied, result |-> z]
  OBVIOUS
<1>4. [t EXCEPT !.at = x, !.undo = y, !.result = z] = u
  <2>1. PICK t1 : t1 = [at |-> x, op |-> t.op, plan |-> t.plan,
              done |-> t.done, again |-> t.again, undo |-> t.undo, applied |-> t.applied, result |-> t.result]
    OBVIOUS
  <2>2. [t EXCEPT !.at = x] = t1 BY <1>2, <2>1 DEF IsTask
  <2>3. PICK t2 : t2 = [at |-> x, op |-> t.op, plan |-> t.plan,
              done |-> t.done, again |-> t.again, undo |-> y, applied |-> t.applied, result |-> t.result]
    OBVIOUS
  <2>4. [t1 EXCEPT !.undo = y] = t2 BY <1>2, <2>1, <2>3 DEF IsTask
  <2>5. [t2 EXCEPT !.result = z] = u BY <1>3, <2>3
  <2>6. [t EXCEPT !.at = x, !.undo = y, !.result = z] = [[[t EXCEPT !.at = x] EXCEPT !.undo = y] EXCEPT !.result = z] OBVIOUS
  <2> QED BY <2>2, <2>4, <2>5, <2>6
<1>5. task' = [task EXCEPT ![p] = [t EXCEPT !.at = x, !.undo = y, !.result = z]] BY <1>1 DEF Tasks, RollsBack
<1>6. task' = [task EXCEPT ![p] = u] BY <1>4, <1>5
<1>7. IsTask(u) /\ OpFits(u.op) /\ u.applied \in BOOLEAN BY <1>2, <1>3 DEF IsTask
<1>8. OnlyTask(p) /\ task'[p] = u BY <1>6, <1>7, TaskReplaced
<1> QED BY <1>1, <1>3, <1>8

LEMMA TaskAdvances ==
    ASSUME Tasks, NEW p \in Processes, NEW x,
           task' = [task EXCEPT ![p].done = x]
    PROVE  /\ OnlyTask(p)
           /\ task'[p].at = task[p].at /\ task'[p].op = task[p].op
           /\ task'[p].plan = task[p].plan /\ task'[p].done = x
           /\ task'[p].again = task[p].again /\ task'[p].undo = task[p].undo
           /\ task'[p].applied = task[p].applied /\ task'[p].result = task[p].result
<1>1. PICK t : t = task[p] OBVIOUS
<1>2. IsTask(t) /\ OpFits(t.op) /\ t.applied \in BOOLEAN BY <1>1 DEF Tasks
<1>3. PICK u : u = [at |-> t.at, op |-> t.op, plan |-> t.plan,
           done |-> x, again |-> t.again, undo |-> t.undo, applied |-> t.applied, result |-> t.result]
  OBVIOUS
<1>4. [t EXCEPT !.done = x] = u BY <1>2, <1>3 DEF IsTask
<1>5. task' = [task EXCEPT ![p] = [t EXCEPT !.done = x]] BY <1>1 DEF Tasks
<1>6. task' = [task EXCEPT ![p] = u] BY <1>4, <1>5
<1>7. IsTask(u) /\ OpFits(u.op) /\ u.applied \in BOOLEAN BY <1>2, <1>3 DEF IsTask
<1>8. OnlyTask(p) /\ task'[p] = u BY <1>6, <1>7, TaskReplaced
<1> QED BY <1>1, <1>3, <1>8

LEMMA TaskRepeats ==
    ASSUME Tasks, NEW p \in Processes, NEW x,
           task' = [task EXCEPT ![p].again = x]
    PROVE  /\ OnlyTask(p)
           /\ task'[p].at = task[p].at /\ task'[p].op = task[p].op
           /\ task'[p].plan = task[p].plan /\ task'[p].done = task[p].done
           /\ task'[p].again = x /\ task'[p].undo = task[p].undo
           /\ task'[p].applied = task[p].applied /\ task'[p].result = task[p].result
<1>1. PICK t : t = task[p] OBVIOUS
<1>2. IsTask(t) /\ OpFits(t.op) /\ t.applied \in BOOLEAN BY <1>1 DEF Tasks
<1>3. PICK u : u = [at |-> t.at, op |-> t.op, plan |-> t.plan,
           done |-> t.done, again |-> x, undo |-> t.undo, applied |-> t.applied, result |-> t.result]
  OBVIOUS
<1>4. [t EXCEPT !.again = x] = u BY <1>2, <1>3 DEF IsTask
<1>5. task' = [task EXCEPT ![p] = [t EXCEPT !.again = x]] BY <1>1 DEF Tasks
<1>6. task' = [task EXCEPT ![p] = u] BY <1>4, <1>5
<1>7. IsTask(u) /\ OpFits(u.op) /\ u.applied \in BOOLEAN BY <1>2, <1>3 DEF IsTask
<1>8. OnlyTask(p) /\ task'[p] = u BY <1>6, <1>7, TaskReplaced
<1> QED BY <1>1, <1>3, <1>8

LEMMA TaskCommits ==
    ASSUME Tasks, NEW p \in Processes, NEW x, NEW y \in BOOLEAN,
           Commits(p, x, y)
    PROVE  /\ OnlyTask(p)
           /\ task'[p].at = x /\ task'[p].op = task[p].op
           /\ task'[p].plan = task[p].plan /\ task'[p].done = task[p].done
           /\ task'[p].again = task[p].again /\ task'[p].undo = task[p].undo
           /\ task'[p].applied = y /\ task'[p].result = task[p].result
<1>1. PICK t : t = task[p] OBVIOUS
<1>2. IsTask(t) /\ OpFits(t.op) /\ t.applied \in BOOLEAN BY <1>1 DEF Tasks
<1>3. PICK u : u = [at |-> x, op |-> t.op, plan |-> t.plan,
           done |-> t.done, again |-> t.again, undo |-> t.undo, applied |-> y, result |-> t.result]
  OBVIOUS
<1>4. [t EXCEPT !.at = x, !.applied = y] = u
  <2>1. PICK t1 : t1 = [at |-> x, op |-> t.op, plan |-> t.plan,
              done |-> t.done, again |-> t.again, undo |-> t.undo, applied |-> t.applied, result |-> t.result]
    OBVIOUS
  <2>2. [t EXCEPT !.at = x] = t1 BY <1>2, <2>1 DEF IsTask
  <2>3. [t1 EXCEPT !.applied = y] = u BY <1>3, <2>1
  <2>4. [t EXCEPT !.at = x, !.applied = y] = [[t EXCEPT !.at = x] EXCEPT !.applied = y] OBVIOUS
  <2> QED BY <2>2, <2>3, <2>4
<1>5. task' = [task EXCEPT ![p] = [t EXCEPT !.at = x, !.applied = y]] BY <1>1 DEF Tasks, Commits
<1>6. task' = [task EXCEPT ![p] = u] BY <1>4, <1>5
<1>7. IsTask(u) /\ OpFits(u.op) /\ u.applied \in BOOLEAN BY <1>2, <1>3 DEF IsTask
<1>8. OnlyTask(p) /\ task'[p] = u BY <1>6, <1>7, TaskReplaced
<1> QED BY <1>1, <1>3, <1>8

LEMMA TaskLeavesApplied ==
    ASSUME Tasks, NEW p \in Processes, NEW x, NEW y \in BOOLEAN, NEW z,
           LeavesApplied(p, x, y, z)
    PROVE  /\ OnlyTask(p)
           /\ task'[p].at = x /\ task'[p].op = task[p].op
           /\ task'[p].plan = task[p].plan /\ task'[p].done = task[p].done
           /\ task'[p].again = task[p].again /\ task'[p].undo = task[p].undo
           /\ task'[p].applied = y /\ task'[p].result = z
<1>1. PICK t : t = task[p] OBVIOUS
<1>2. IsTask(t) /\ OpFits(t.op) /\ t.applied \in BOOLEAN BY <1>1 DEF Tasks
<1>3. PICK u : u = [at |-> x, op |-> t.op, plan |-> t.plan,
           done |-> t.done, again |-> t.again, undo |-> t.undo, applied |-> y, result |-> z]
  OBVIOUS
<1>4. [t EXCEPT !.at = x, !.applied = y, !.result = z] = u
  <2>1. PICK t1 : t1 = [at |-> x, op |-> t.op, plan |-> t.plan,
              done |-> t.done, again |-> t.again, undo |-> t.undo, applied |-> t.applied, result |-> t.result]
    OBVIOUS
  <2>2. [t EXCEPT !.at = x] = t1 BY <1>2, <2>1 DEF IsTask
  <2>3. PICK t2 : t2 = [at |-> x, op |-> t.op, plan |-> t.plan,
              done |-> t.done, again |-> t.again, undo |-> t.undo, applied |-> y, result |-> t.result]
    OBVIOUS
  <2>4. [t1 EXCEPT !.applied = y] = t2 BY <1>2, <2>1, <2>3 DEF IsTask
  <2>5. [t2 EXCEPT !.result = z] = u BY <1>3, <2>3
  <2>6. [t EXCEPT !.at = x, !.applied = y, !.result = z] = [[[t EXCEPT !.at = x] EXCEPT !.applied = y] EXCEPT !.result = z] OBVIOUS
  <2> QED BY <2>2, <2>4, <2>5, <2>6
<1>5. task' = [task EXCEPT ![p] = [t EXCEPT !.at = x, !.applied = y, !.result = z]] BY <1>1 DEF Tasks, LeavesApplied
<1>6. task' = [task EXCEPT ![p] = u] BY <1>4, <1>5
<1>7. IsTask(u) /\ OpFits(u.op) /\ u.applied \in BOOLEAN BY <1>2, <1>3 DEF IsTask
<1>8. OnlyTask(p) /\ task'[p] = u BY <1>6, <1>7, TaskReplaced
<1> QED BY <1>1, <1>3, <1>8

-----------------------------------------------------------------------------
(* The steps of a storage method under its lock                              *)

(* What p does under the lock, or without touching the root, leaves the      *)
(* others as they were.                                                      *)
LEMMA OthersAreOK ==
    ASSUME IInv, Recalls, NEW p \in Processes, OnlyTask(p),
           lock \in {p, Free} \/ UNCHANGED <<files, journal, lock>>
    PROVE  \A q \in Processes \ {p} : ProcessOK(q)'
<1> SUFFICES ASSUME NEW q \in Processes \ {p} PROVE ProcessOK(q)'
  OBVIOUS
<1>1. task'[q] = task[q] /\ ProcessOK(q) BY DEF OnlyTask, IInv
<1>2. CASE task[q].at \notin Busy
  BY <1>1, <1>2 DEF ProcessOK, Busy
<1>3. CASE task[q].at \in Busy
  <2>1. lock = q /\ q # Free BY <1>1, <1>3, StorageAssumption DEF ProcessOK
  <2>2. UNCHANGED <<files, journal, lock>> BY <2>1
  <2>3. Base' = Base /\ Unfinished' = Unfinished /\ Recorded' = Recorded
    BY <2>2 DEF Base, Contents, Images, Before, Unfinished, Recorded
  <2>4. WritingOK(q) => WritingOK(q)'
    <3>1. Progress(q)' = Progress(q) BY <1>1, <2>2, <2>3 DEF Progress, NextWrite
    <3> QED BY <1>1, <2>2, <2>3, <3>1 DEF WritingOK, Whole, Recalls
  <2>5. RestoringOK(q) => RestoringOK(q)' BY <1>1, <2>2, <2>3 DEF RestoringOK
  <2> QED BY <1>1, <2>2, <2>3, <2>4, <2>5 DEF ProcessOK, Whole
<1> QED BY <1>2, <1>3

Stepping == IInv /\ Setting /\ ~Transactional /\ engine' = engine /\ Recalls

LEMMA StepKeepsIInv ==
    ASSUME Stepping, NEW p \in Processes, OnlyTask(p), lock \in {p, Free},
           \/ files' = files
           \/ \E f, v : f # "receipts" /\ Fits(f, v) /\ files' = [files EXCEPT ![f] = v],
           JournalOK', ProcessOK(p)'
    PROVE  IInv'
<1>1. Files = Documents /\ StoreOK(files) /\ files["receipts"] = Absent
  BY DEF Stepping, IInv, Setting, Transactional
<1>2. StoreOK(files)' /\ files'["receipts"] = Absent
  <2>1. CASE files' = files BY <1>1, <2>1
  <2>2. ASSUME NEW f, NEW v, f # "receipts", Fits(f, v), files' = [files EXCEPT ![f] = v]
        PROVE  StoreOK(files)' /\ files'["receipts"] = Absent
    <3>1. DOMAIN files = Documents BY <1>1 DEF StoreOK
    <3>2. files' = [g \in Documents |-> files'[g]] BY <2>2, <3>1
    <3>3. \A g \in Documents : files'[g] = files[g] \/ (g = f /\ files'[g] = v)
      BY <2>2, <3>1
    <3>4. \A g \in Documents : Fits(g, files'[g]) BY <1>1, <2>2, <3>3 DEF StoreOK
    <3>5. files'["receipts"] = Absent BY <1>1, <2>2, <3>1 DEF Documents
    <3> QED BY <3>2, <3>4, <3>5 DEF StoreOK
  <2> QED BY <2>1, <2>2
<1>3. Engines' BY DEF Stepping, IInv, Engines
<1>4. Tasks' BY DEF OnlyTask
<1>5. \A q \in Processes : ProcessOK(q)'
  <2>1. IInv /\ Recalls BY DEF Stepping
  <2>2. \A q \in Processes \ {p} : ProcessOK(q)' BY <2>1, OthersAreOK
  <2> QED BY <2>2
<1>6. DatabaseOK' BY <1>2 DEF DatabaseOK, Transactional
<1>7. lost' \in BOOLEAN BY DEF Stepping, Recalls
<1> QED BY <1>2, <1>3, <1>4, <1>5, <1>6, <1>7 DEF IInv

(* As long as the files and the journal say the same.                        *)
LEMMA SameBase ==
    ASSUME files' = files, journal' = journal
    PROVE  Base' = Base /\ Unfinished' = Unfinished /\ Recorded' = Recorded
BY DEF Base, Contents, Images, Before, Unfinished, Recorded

LEMMA NoJournal ==
    ASSUME journal = Nothing
    PROVE  JournalOK /\ Images = {} /\ Recorded = 0 /\ ~Unfinished
BY DEF JournalOK, Images, Recorded, Unfinished

LEMMA FreshJournal ==
    ASSUME journal = NewJournal, Setting
    PROVE  JournalOK /\ Images = {} /\ Recorded = 0 /\ Unfinished
<1>1. journal # Nothing BY DEF Setting, NewJournal
<1>2. journal.entries = <<>> /\ IsSeq(<<>>) /\ Len(<<>>) = 0 BY EmptyIsSeq DEF NewJournal
<1>3. Recorded = 0 /\ Unfinished BY <1>1, <1>2 DEF Recorded, Unfinished, NewJournal
<1>4. JournalOK BY <1>1, <1>2 DEF JournalOK, NewJournal
<1> QED BY <1>3, <1>4 DEF Images

LEMMA EnterIsFine ==
    ASSUME Stepping, NEW p \in Processes, Enter(p)
    PROVE  IInv' /\ Simulated
<1>1. /\ task[p].at = "wait" /\ lock = Free /\ lock' = p
      /\ files' = files /\ journal' = journal
  BY DEF Enter, At
<1>2. Base' = Base /\ Unfinished' = Unfinished /\ Recorded' = Recorded BY <1>1, SameBase
<1>3. ProcessOK(p) /\ Tasks /\ JournalOK BY DEF Stepping, IInv
<1>4. JournalOK' BY <1>1, <1>3 DEF JournalOK
<1>5. ASSUME NEW at \in {"begin", "plan", "recover"}, OnlyTask(p), task'[p].at = at,
             task'[p].op = task[p].op, task'[p].done = task[p].done,
             task'[p].applied = task[p].applied, ProcessOK(p)'
      PROVE  IInv' /\ Simulated
  <2>1. IInv' BY <1>1, <1>4, <1>5, StepKeepsIInv
  <2>2. Simulated BY <1>1, <1>2, <1>5, SeenAsNothing DEF OnlyTask, Looks, Answered, Remaining
  <2> QED BY <2>1, <2>2
<1>6. CASE journal = Nothing
  <2>1. PICK at : at = IF Whole(p) THEN "begin" ELSE "plan" OBVIOUS
  <2>2. task' = [task EXCEPT ![p].at = at] BY <1>6, <2>1 DEF Enter
  <2>3. /\ OnlyTask(p) /\ task'[p].at = at /\ task'[p].op = task[p].op
        /\ task'[p].done = task[p].done /\ task'[p].applied = task[p].applied
    BY <1>3, <2>2, TaskMoves
  <2>4. ProcessOK(p)'
    BY <1>1, <1>3, <1>6, <2>1, <2>3 DEF ProcessOK, Whole
  <2> QED BY <1>5, <2>1, <2>3, <2>4
<1>7. CASE journal # Nothing
  <2>1. task' = [task EXCEPT ![p].at = "recover", ![p].undo = Recorded] BY <1>7 DEF Enter
  <2>2. PICK n : n = Recorded OBVIOUS
  <2>3. /\ OnlyTask(p) /\ task'[p].at = "recover" /\ task'[p].op = task[p].op
        /\ task'[p].done = task[p].done /\ task'[p].applied = task[p].applied
        /\ task'[p].undo = n
    <3>1. MovesToUndo(p, "recover", n) BY <2>1, <2>2 DEF MovesToUndo
    <3> QED BY <1>3, <3>1, TaskMovesToUndo
  <2>4. n \in Nat BY <1>3, <2>2, RecordedIsCount
  <2>5. RestoringOK(p)' BY <1>2, <2>2, <2>3, <2>4 DEF RestoringOK
  <2>6. ProcessOK(p)' BY <1>1, <1>3, <2>3, <2>5 DEF ProcessOK
  <2> QED BY <1>5, <2>3, <2>6
<1> QED BY <1>6, <1>7

LEMMA RestoreIsFine ==
    ASSUME Stepping, NEW p \in Processes, Restore(p)
    PROVE  IInv' /\ Simulated
<1> DEFINE n == task[p].undo
           f == journal.entries[n].file
           v == journal.entries[n].before
<1>1. /\ task[p].at \in {"recover", "rollback"} /\ n > 0
      /\ files' = [files EXCEPT ![f] = v]
      /\ task' = [task EXCEPT ![p].undo = n - 1]
      /\ journal' = journal /\ lock' = lock
  BY DEF Restore, Stepping, IInv, Tasks
<1>2. ProcessOK(p) /\ Tasks /\ JournalOK /\ StoreOK(files) /\ Files = Documents
  BY DEF Stepping, IInv, Setting
<1>3. RestoringOK(p) /\ lock = p BY <1>1, <1>2 DEF ProcessOK, Busy
<1>4. n \in 1..Recorded /\ Recorded \in Nat BY <1>1, <1>2, <1>3, RecordedIsCount DEF RestoringOK
<1>5. /\ OnlyTask(p) /\ task'[p].at = task[p].at /\ task'[p].op = task[p].op
      /\ task'[p].done = task[p].done /\ task'[p].applied = task[p].applied
      /\ task'[p].result = task[p].result /\ task'[p].undo = n - 1
  BY <1>1, <1>2, TaskUndoes
<1>6. /\ Unfinished /\ Recorded = Len(journal.entries)
      /\ WriteOK([file |-> f, to |-> v, failing |-> "raise"], {"receipts"})
  <2>1. Unfinished BY <1>2, <1>4, RecordedIsCount
  <2> QED BY <1>2, <1>4, <2>1 DEF JournalOK, Unfinished, Recorded
<1>7. f \in Images BY <1>2, <1>4, ImagesAreRecorded
<1> HIDE DEF f, v
<1>8. Base' = Base /\ Recorded' = Recorded
  <2>1. Images' = Images /\ \A g : Before(g)' = Before(g)
    BY <1>1 DEF Images, Before, Unfinished, Recorded
  <2>2. ASSUME NEW g \in Files PROVE Contents(g)' = Contents(g)
    <3>1. CASE g \in Images BY <2>1, <3>1 DEF Contents
    <3>2. CASE g \notin Images
      <4>1. g # f BY <1>7, <3>2
      <4>2. files'[g] = files[g] BY <1>1, <1>2, <4>1 DEF StoreOK
      <4> QED BY <2>1, <3>2, <4>2 DEF Contents
    <3> QED BY <3>1, <3>2
  <2>3. Recorded' = Recorded BY <1>1 DEF Recorded, Unfinished
  <2> QED BY <2>2, <2>3 DEF Base
<1>9. RestoringOK(p)'
  <2>1. ASSUME NEW i \in n..Recorded, journal.entries[i].file \in Files
        PROVE  files'[journal.entries[i].file] = journal.entries[i].before
    <3>1. CASE i = n BY <1>1, <1>2, <2>1, <3>1 DEF StoreOK, f, v
    <3>2. CASE i # n
      <4>1. i \in (n + 1)..Recorded /\ i \in 1..Len(journal.entries)
        BY <1>4, <1>6, <3>2
      <4>2. journal.entries[i].file # f
        BY <1>2, <1>4, <1>6, <3>2, <4>1 DEF JournalOK, Unfinished, f
      <4>3. files[journal.entries[i].file] = journal.entries[i].before
        BY <1>3, <2>1, <4>1 DEF RestoringOK
      <4> QED BY <1>1, <1>2, <2>1, <4>2, <4>3 DEF StoreOK
    <3> QED BY <3>1, <3>2
  <2>2. task'[p].undo \in 0..Recorded' BY <1>4, <1>5, <1>8
  <2>3. (task'[p].undo + 1)..Recorded' = n..Recorded BY <1>4, <1>5, <1>8
  <2> QED BY <1>1, <2>1, <2>2, <2>3 DEF RestoringOK
<1>10. ProcessOK(p)'
  BY <1>1, <1>2, <1>3, <1>5, <1>9 DEF ProcessOK, Whole
<1>11. JournalOK' BY <1>1, <1>2 DEF JournalOK
<1>12. f # "receipts" /\ Fits(f, v) BY <1>6 DEF WriteOK
<1>13. IInv' BY <1>1, <1>3, <1>5, <1>10, <1>11, <1>12, StepKeepsIInv
<1>14. Simulated BY <1>1, <1>5, <1>8, SeenAsNothing DEF OnlyTask, Looks, Answered, Remaining
<1> QED BY <1>13, <1>14

(* The method leaves with something its caller may be told.                  *)
Reports(p, result) ==
    /\ result \in {"done", "rejected", "changed", "error"}
    /\ Whole(p) /\ result = "done" => task[p].applied
    /\ Whole(p) /\ result \in {"rejected", "changed"} => ~task[p].applied

LEMMA LeavingIsSeen ==
    ASSUME NEW p \in Processes, OnlyTask(p), task[p].at # "left", task'[p].at = "left",
           NEW result, Reports(p, result), task'[p].result = result,
           task'[p].op = task[p].op, task'[p].applied = task[p].applied,
           lost' \/ Base' = Base
    PROVE  Simulated
<1>0. CASE lost' BY <1>0 DEF Simulated
<1>1. CASE Whole(p) /\ Base' = Base
  <2>1. Answered(task'[p]) = result BY <1>1 DEF Answered, Whole
  <2>2. \A q \in Processes \ {p} : task'[q] = task[q] BY DEF OnlyTask
  <2>3. /\ Answered(task'[p]) \in {"done", "rejected", "changed", "error"}
        /\ Answered(task'[p]) = "done" => task[p].applied
        /\ Answered(task'[p]) \in {"rejected", "changed"} => ~task[p].applied
    BY <1>1, <2>1 DEF Reports
  <2>4. Remaining(task'[p]) = Remaining(task[p]) BY <1>1 DEF Remaining, Whole
  <2> QED BY <1>1, <2>2, <2>3, <2>4, SeenAsAnswer
<1>2. CASE ~Whole(p) /\ Base' = Base
  <2>1. PICK rest : rest = <<>> OBVIOUS
  <2>2. Rests(p, rest) BY <1>2, <2>1 DEF Rests, OnlyTask, Answered, Remaining, Whole
  <2>3. CASE Remaining(task[p]) # <<>> BY <1>2, <2>1, <2>2, <2>3, SeenAsForgo
  <2>4. CASE Remaining(task[p]) = <<>>
    <3>1. \A q \in Processes : Looks(task[q], task'[q]) BY <2>1, <2>2, <2>4 DEF Rests, Looks
    <3> QED BY <1>2, <3>1, SeenAsNothing
  <2> QED BY <2>3, <2>4
<1> QED BY <1>0, <1>1, <1>2

LEMMA LeavingIsFine ==
    ASSUME Stepping, NEW p \in Processes, task[p].at \in Busy,
           files' = files, JournalOK', lost' \/ Base' = Base, NEW result, Reports(p, result),
           Leaves(p, "left", result)
    PROVE  IInv' /\ Simulated
<1>1. Tasks /\ lock = p BY DEF Stepping, IInv, ProcessOK
<1>2. /\ OnlyTask(p) /\ task'[p].at = "left" /\ task'[p].result = result
      /\ task'[p].op = task[p].op /\ task'[p].applied = task[p].applied
  BY <1>1, TaskLeaves
<1>3. ProcessOK(p)' BY <1>2 DEF ProcessOK, Busy
<1>4. IInv' BY <1>1, <1>2, <1>3, StepKeepsIInv
<1>5. task[p].at # "left" BY DEF Busy
<1>6. Simulated BY <1>2, <1>5, LeavingIsSeen
<1> QED BY <1>4, <1>6

(* A pack is rolled back, from its last image or from the one before it when *)
(* what that one says was not touched yet.                                   *)
LEMMA RollingBackIsFine ==
    ASSUME Stepping, NEW p \in Processes, task[p].at = "write", Whole(p),
           \/ files' = files
           \/ \E f, v : f # "receipts" /\ Fits(f, v) /\ files' = [files EXCEPT ![f] = v],
           JournalOK', lost' \/ Base' = Base,
           NEW result \in {"rejected", "changed", "error"},
           NEW n \in 0..Recorded', Recorded' \in Nat,
           \A i \in (n + 1)..Recorded' : journal'.entries[i].file \in Files =>
               files'[journal'.entries[i].file] = journal'.entries[i].before,
           RollsBack(p, "rollback", n, result), lock' = lock
    PROVE  IInv' /\ Simulated
<1>1. Tasks /\ lock = p /\ ProcessOK(p) BY DEF Stepping, IInv, ProcessOK, Busy
<1>2. /\ OnlyTask(p) /\ task'[p].at = "rollback" /\ task'[p].result = result
      /\ task'[p].op = task[p].op /\ task'[p].applied = task[p].applied
      /\ task'[p].undo = n
  BY <1>1, TaskRollsBack
<1>3. RestoringOK(p)' BY <1>2 DEF RestoringOK
<1>4. ProcessOK(p)' BY <1>1, <1>2, <1>3 DEF ProcessOK, Whole
<1>5. IInv' BY <1>1, <1>2, <1>4, StepKeepsIInv
<1>6. ASSUME NEW q \in Processes
      PROVE  Looks(task[q], task'[q])
  BY <1>2, <1>6 DEF OnlyTask, Looks, Answered, Remaining, Whole
<1>7. Simulated BY <1>6, SeenAsNothing DEF Simulated
<1> QED BY <1>5, <1>7

(* When everything is restored, the root is what recovery makes of it.       *)
LEMMA AllRestored ==
    ASSUME JournalOK, StoreOK(files), Files = Documents,
           NEW p, RestoringOK(p), task[p].undo = 0
    PROVE  Base = files
<1>1. \A i \in 1..Recorded : journal.entries[i].file \in Files =>
          files[journal.entries[i].file] = journal.entries[i].before
  BY DEF RestoringOK
<1>2. ASSUME NEW f \in Files PROVE Contents(f) = files[f]
  <2>1. CASE f \in Images
    <3>1. PICK i \in 1..Recorded : journal.entries[i].file = f BY <2>1, ImagesAreRecorded
    <3>2. Before(f) = journal.entries[i].before BY <3>1, BeforeIsImage
    <3> QED BY <1>1, <2>1, <3>1, <3>2 DEF Contents
  <2>2. CASE f \notin Images BY <2>2 DEF Contents
  <2> QED BY <2>1, <2>2
<1> QED BY <1>2 DEF Base, StoreOK

LEMMA MarkedIs ==
    ASSUME JournalOK, journal # Nothing
    PROVE  Marked = [state |-> "committed", entries |-> journal.entries, saved |-> TRUE]
<1>1. PICK a, b, c : journal = [state |-> a, entries |-> b, saved |-> c] BY DEF JournalOK
<1>2. PICK yes : yes = TRUE OBVIOUS
<1>3. PICK j : j = [journal EXCEPT !.state = "committed"] OBVIOUS
<1>4. j = [state |-> "committed", entries |-> b, saved |-> c] BY <1>1, <1>3
<1>5. [j EXCEPT !.saved = yes] = [state |-> "committed", entries |-> b, saved |-> yes]
  BY <1>4
<1>6. Marked = [[journal EXCEPT !.state = "committed"] EXCEPT !.saved = yes]
  BY <1>2 DEF Marked
<1> QED BY <1>1, <1>2, <1>3, <1>5, <1>6

(* Without a journal, or with a fresh one, or with a committed one.          *)
LEMMA BaseAfter ==
    ASSUME StoreOK(files)', Files = Documents, Setting,
           \/ journal' = Nothing
           \/ journal' = NewJournal
           \/ journal # Nothing /\ JournalOK /\ journal' = Marked
    PROVE  Base' = files' /\ JournalOK'
<1>1. CASE journal' = Nothing
  <2>1. Images' = {} /\ JournalOK' BY <1>1 DEF Images, Unfinished, JournalOK
  <2> QED BY <2>1 DEF Base, Contents, StoreOK
<1>2. CASE journal' = NewJournal
  <2>1. IsSeq(<<>>) /\ Len(<<>>) = 0 BY EmptyIsSeq
  <2>2. journal' = [state |-> "active", entries |-> <<>>, saved |-> TRUE]
    BY <1>2 DEF NewJournal
  <2>3. journal'.entries = <<>> /\ journal'.state = "active" /\ journal'.saved BY <2>2
  <2>4. JournalOK' BY <2>1, <2>2, <2>3 DEF JournalOK
  <2>5. Recorded' = 0 BY <2>1, <2>3 DEF Recorded
  <2>6. Images' = {} BY <2>5 DEF Images
  <2> QED BY <2>4, <2>6 DEF Base, Contents, StoreOK
<1>3. CASE journal # Nothing /\ JournalOK /\ journal' = Marked
  <2>1. journal' = [state |-> "committed", entries |-> journal.entries, saved |-> TRUE]
    BY <1>3, MarkedIs
  <2>2. /\ journal'.state = "committed" /\ journal'.entries = journal.entries
        /\ journal'.saved
    BY <2>1
  <2>3. JournalOK' BY <1>3, <2>1, <2>2 DEF JournalOK
  <2>4. Images' = {} BY <2>2 DEF Images, Unfinished
  <2> QED BY <2>3, <2>4 DEF Base, Contents, StoreOK
<1> QED BY <1>1, <1>2, <1>3

LEMMA RestoredIsFine ==
    ASSUME Stepping, NEW p \in Processes, task[p].at \in {"recover", "rollback"}, Restored(p)
    PROVE  IInv' /\ Simulated
<1>1. /\ ProcessOK(p) /\ Tasks /\ JournalOK /\ StoreOK(files) /\ Files = Documents /\ Setting
      /\ files["receipts"] = Absent
  BY DEF Stepping, IInv, Setting, Transactional
<1>2. task[p].undo = 0 /\ journal' = Nothing /\ files' = files BY DEF Restored
<1>3. RestoringOK(p) /\ lock = p BY <1>1 DEF ProcessOK, Busy
<1>4. Base = files BY <1>1, <1>2, <1>3, AllRestored
<1>5. StoreOK(files)' BY <1>1, <1>2 DEF StoreOK
<1>6. Base' = Base /\ JournalOK' BY <1>1, <1>2, <1>4, <1>5, BaseAfter
<1>7. CASE At(p, "recover")
  <2>1. PICK at : at = IF Whole(p) THEN "begin" ELSE "plan" OBVIOUS
  <2>2. task' = [task EXCEPT ![p].at = at] /\ lock' = lock
    BY <1>7, <2>1 DEF Restored, Goto, At
  <2>3. /\ OnlyTask(p) /\ task'[p].at = at /\ task'[p].op = task[p].op
        /\ task'[p].done = task[p].done /\ task'[p].applied = task[p].applied
    BY <1>1, <2>2, TaskMoves
  <2>4. ProcessOK(p)' BY <1>1, <1>2, <1>3, <1>7, <2>1, <2>2, <2>3 DEF ProcessOK, Whole, At
  <2>5. IInv' BY <1>2, <1>3, <1>6, <2>3, <2>4, StepKeepsIInv
  <2>6. ASSUME NEW q \in Processes
        PROVE  Looks(task[q], task'[q])
    BY <1>7, <2>1, <2>3, <2>6 DEF OnlyTask, Looks, Answered, Remaining, At
  <2>7. Simulated BY <1>6, <2>6, SeenAsNothing
  <2> QED BY <2>5, <2>7
<1>8. CASE At(p, "rollback")
  <2>1. PICK result : result = task[p].result OBVIOUS
  <2>2. Leaves(p, "left", result)
    BY <1>8, <2>1 DEF Restored, Leave, At, Leaves
  <2>3. Reports(p, result) BY <1>1, <1>8, <2>1 DEF ProcessOK, At, Reports
  <2>4. task[p].at \in Busy BY DEF Busy
  <2> QED BY <1>2, <1>6, <2>2, <2>3, <2>4, LeavingIsFine
<1> QED BY <1>7, <1>8 DEF At

LEMMA CannotRestoreIsFine ==
    ASSUME Stepping, NEW p \in Processes, CannotRestore(p)
    PROVE  IInv' /\ Simulated
<1>1. /\ task[p].at \in Busy /\ files' = files /\ journal' = OnDisk
      /\ Leaves(p, "left", "error")
  BY DEF CannotRestore, Leave, Busy, Leaves
<1>2. JournalOK' /\ (journal' = journal \/ Loses)
  BY <1>1, OnDiskIsJournal DEF Stepping, IInv
<1>3. lost' \/ Base' = Base BY <1>1, <1>2, SameBase DEF Stepping, Recalls
<1>4. Reports(p, "error") BY DEF Reports
<1> QED BY <1>1, <1>2, <1>3, <1>4, LeavingIsFine

LEMMA BeginIsFine ==
    ASSUME Stepping, NEW p \in Processes, Begin(p)
    PROVE  IInv' /\ Simulated
<1>1. /\ task[p].at = "begin" /\ files' = files /\ journal' = NewJournal /\ lock' = lock
      /\ task' = [task EXCEPT ![p].at = "plan"]
  BY DEF Begin, Goto, At
<1>2. /\ ProcessOK(p) /\ Tasks /\ StoreOK(files) /\ Files = Documents /\ Setting
  BY DEF Stepping, IInv, Setting
<1>3. journal = Nothing /\ lock = p /\ Whole(p) BY <1>1, <1>2 DEF ProcessOK, Busy
<1>4. Base = files BY <1>2, <1>3, NoJournal, BaseWithoutImages
<1>5. StoreOK(files)' BY <1>1, <1>2 DEF StoreOK
<1>6. Base' = Base /\ JournalOK' BY <1>1, <1>2, <1>4, <1>5, BaseAfter
<1>7. /\ OnlyTask(p) /\ task'[p].at = "plan" /\ task'[p].op = task[p].op
      /\ task'[p].done = task[p].done /\ task'[p].applied = task[p].applied
  BY <1>1, <1>2, TaskMoves
<1>8. ProcessOK(p)' BY <1>1, <1>2, <1>3, <1>7 DEF ProcessOK, Whole, NewJournal
<1>9. IInv' BY <1>1, <1>3, <1>6, <1>7, <1>8, StepKeepsIInv
<1>10. ASSUME NEW q \in Processes
       PROVE  Looks(task[q], task'[q])
  BY <1>1, <1>7, <1>10 DEF OnlyTask, Looks, Answered, Remaining
<1>11. Simulated BY <1>6, <1>10, SeenAsNothing
<1> QED BY <1>9, <1>11

LEMMA CannotBeginIsFine ==
    ASSUME Stepping, NEW p \in Processes, CannotBegin(p)
    PROVE  IInv' /\ Simulated
<1>1. /\ task[p].at = "begin" /\ files' = files /\ journal' \in {Nothing, NewJournal}
      /\ Leaves(p, "left", "error")
  BY DEF CannotBegin, Leave, At, Leaves
<1>2. /\ ProcessOK(p) /\ Tasks /\ StoreOK(files) /\ Files = Documents /\ Setting
  BY DEF Stepping, IInv, Setting
<1>3. journal = Nothing BY <1>1, <1>2 DEF ProcessOK
<1>4. Base = files BY <1>2, <1>3, NoJournal, BaseWithoutImages
<1>5. StoreOK(files)' BY <1>1, <1>2 DEF StoreOK
<1>6. Base' = Base /\ JournalOK' BY <1>1, <1>2, <1>4, <1>5, BaseAfter
<1>7. Reports(p, "error") /\ task[p].at \in Busy BY <1>1 DEF Reports, Busy
<1> QED BY <1>1, <1>6, <1>7, LeavingIsFine

LEMMA PlanIsFine ==
    ASSUME Stepping, NEW p \in Processes, Plan(p)
    PROVE  IInv' /\ Simulated
<1>1. /\ task[p].at = "plan" /\ files' = files /\ journal' = journal /\ lock' = lock
  BY DEF Plan, At
<1>2. PICK plan \in Plans(task[p].op, files) :
          task' = [task EXCEPT ![p].at = "write", ![p].plan = plan]
  BY DEF Plan
<1>3. /\ ProcessOK(p) /\ Tasks /\ StoreOK(files) /\ Files = Documents /\ Setting /\ JournalOK
      /\ files["receipts"] = Absent
  BY DEF Stepping, IInv, Setting, Transactional
<1>4. /\ lock = p /\ journal = (IF Whole(p) THEN NewJournal ELSE Nothing)
      /\ task[p].done = 0 /\ ~task[p].applied
  BY <1>1, <1>3 DEF ProcessOK, Busy
<1>5. Images = {} /\ (Whole(p) => Unfinished)
  BY <1>3, <1>4, NoJournal, FreshJournal
<1>6. Base = files BY <1>3, <1>5, BaseWithoutImages
<1>7. Base' = Base /\ Unfinished' = Unfinished BY <1>1, SameBase
<1>8. plan \in AllPlans(task[p].op, files) BY <1>2, <1>3 DEF Setting
<1>9. PlanOK(plan, {"receipts"})
  <2>1. OpOK(task[p].op) BY <1>3 DEF Tasks, OpFits
  <2>2. Nothing \notin Documents BY <1>3, StorageAssumption
  <2>3. Closed(files) = {"receipts"} BY <1>3 DEF Closed
  <2> QED BY <1>3, <1>8, <2>1, <2>2, <2>3, AllPlansAreOK
<1>10. Decides(p, "write", plan) BY <1>2 DEF Decides
<1>11. /\ OnlyTask(p) /\ task'[p].at = "write" /\ task'[p].op = task[p].op
       /\ task'[p].plan = plan
       /\ task'[p].done = task[p].done /\ task'[p].applied = task[p].applied
  BY <1>3, <1>10, TaskDecides
<1>12. IsSeq(plan) /\ Len(plan) \in Nat BY <1>9 DEF PlanOK, IsSeq
<1>13. Progress(p)'
  <2>1. {} \in SUBSET (Ignored(plan) \cap 1..0) OBVIOUS
  <2>2. files = [f \in DOMAIN files |-> files[f]] BY <1>3 DEF StoreOK
  <2>3. After(Without(plan, {}), 0, files) = files BY <1>12, <2>2, WithoutNone, AfterNone
  <2>4. files' = After(Without(task'[p].plan, {}), task'[p].done, Base')
    BY <1>1, <1>4, <1>6, <1>7, <1>11, <2>3
  <2>5. {} \in SUBSET (Ignored(task'[p].plan) \cap 1..task'[p].done) OBVIOUS
  <2> QED BY <2>4, <2>5 DEF Progress
<1>14. WritingOK(p)'
  <2>1. task'[p].done \in 0..Len(task'[p].plan) BY <1>4, <1>11, <1>12
  <2>2. \A i \in 1..task'[p].done : task'[p].plan[i].failing # "denied" BY <1>4, <1>11
  <2>3. Whole(p)' = Whole(p) BY <1>11 DEF Whole
  <2> QED
    BY <1>1, <1>4, <1>5, <1>6, <1>7, <1>8, <1>9, <1>11, <1>13, <2>1, <2>2, <2>3 DEF WritingOK
<1>15. ProcessOK(p)' BY <1>1, <1>3, <1>4, <1>11, <1>14 DEF ProcessOK, Whole
<1>16. JournalOK' BY <1>1, <1>3 DEF JournalOK
<1>17. IInv' BY <1>1, <1>4, <1>11, <1>15, <1>16, StepKeepsIInv
<1>18. Simulated
  <2>1. Remaining(task[p]) = <<>> BY <1>1 DEF Remaining
  <2>2. CASE Whole(p)
    <3>1. ASSUME NEW q \in Processes PROVE Looks(task[q], task'[q])
      BY <1>1, <1>11, <2>1, <2>2, <3>1 DEF OnlyTask, Looks, Answered, Remaining, Whole
    <3> QED BY <1>7, <3>1, SeenAsNothing
  <2>3. CASE ~Whole(p)
    <3>1. SubSeq(plan, 1, Len(plan)) = plan BY <1>12, WholeOfSeq
    <3>2. Remaining(task'[p]) = plan
      BY <1>4, <1>11, <2>3, <3>1 DEF Remaining, Whole
    <3>3. Rests(p, plan) BY <1>1, <1>11, <3>2 DEF Rests, OnlyTask, Answered
    <3>4. \A q \in Processes \ {p} : Remaining(task[q]) = <<>>
      BY <1>4, OthersAreDone DEF Stepping
    <3>5. Base["receipts"] = Absent /\ plan \in AllPlans(task[p].op, Base)
      BY <1>3, <1>6, <1>8
    <3>6. ~task[p].op.whole BY <2>3 DEF Whole
    <3> QED BY <1>7, <2>1, <3>3, <3>4, <3>5, <3>6, SeenAsDecide
  <2> QED BY <2>2, <2>3
<1> QED BY <1>17, <1>18

(* What is known of a process that writes.                                   *)
LEMMA WritesNext ==
    ASSUME Stepping, NEW p \in Processes, task[p].at = "write"
    PROVE  /\ ProcessOK(p) /\ Tasks /\ StoreOK(files) /\ Files = Documents /\ Setting
           /\ JournalOK /\ lock = p /\ task[p].at \in Busy /\ ~task[p].applied
           /\ WritingOK(p) /\ PlanOK(task[p].plan, {"receipts"})
           /\ task[p].done \in Nat /\ Len(task[p].plan) \in Nat
           /\ task[p].done <= Len(task[p].plan)
           /\ task[p].done < Len(task[p].plan) =>
                 /\ task[p].done + 1 \in 1..Len(task[p].plan)
                 /\ WriteOK(NextWrite(p), {"receipts"})
                 /\ NextWrite(p).file # "receipts"
                 /\ Fits(NextWrite(p).file, NextWrite(p).to)
           /\ Recorded \in Nat
<1>1. /\ ProcessOK(p) /\ Tasks /\ StoreOK(files) /\ Files = Documents /\ Setting /\ JournalOK
  BY DEF Stepping, IInv, Setting
<1>2. WritingOK(p) /\ lock = p /\ task[p].at \in Busy /\ ~task[p].applied
  BY <1>1 DEF ProcessOK, Busy
<1>3. PlanOK(task[p].plan, {"receipts"}) /\ task[p].done \in 0..Len(task[p].plan)
  BY <1>2 DEF WritingOK
<1>4. Len(task[p].plan) \in Nat BY <1>3 DEF PlanOK, IsSeq
<1>5. task[p].done \in Nat /\ task[p].done <= Len(task[p].plan) BY <1>3, <1>4
<1>6. ASSUME task[p].done < Len(task[p].plan)
      PROVE  /\ task[p].done + 1 \in 1..Len(task[p].plan)
             /\ WriteOK(NextWrite(p), {"receipts"})
             /\ NextWrite(p).file # "receipts"
             /\ Fits(NextWrite(p).file, NextWrite(p).to)
  <2>1. task[p].done + 1 \in 1..Len(task[p].plan) BY <1>4, <1>5, <1>6
  <2>2. WriteOK(NextWrite(p), {"receipts"}) BY <1>3, <2>1 DEF PlanOK, NextWrite
  <2> QED BY <2>1, <2>2 DEF WriteOK
<1> QED BY <1>1, <1>2, <1>3, <1>4, <1>5, <1>6, RecordedIsCount

(* A method that gives up, around a pack or not.                             *)
LEMMA RaiseIsFine ==
    ASSUME Stepping, NEW p \in Processes, task[p].at = "write",
           NEW result \in {"rejected", "changed", "error"}, Raise(p, result),
           files' = files
    PROVE  IInv' /\ Simulated
<1>1. journal' = journal BY DEF Raise, RollBack
<1>2. /\ Base' = Base /\ Recorded' = Recorded BY <1>1, SameBase
<1>3. JournalOK /\ Recorded \in Nat /\ ~task[p].applied /\ task[p].at \in Busy BY WritesNext
<1>4. JournalOK' BY <1>1, <1>3 DEF JournalOK
<1>5. CASE Whole(p)
  <2>1. PICK n : n = Recorded OBVIOUS
  <2>2. RollsBack(p, "rollback", n, result) /\ lock' = lock
    BY <1>5, <2>1 DEF Raise, RollBack, RollsBack
  <2>3. n \in 0..Recorded' /\ Recorded' \in Nat /\ (n + 1)..Recorded' = {} BY <1>2, <1>3, <2>1
  <2>4. \A i \in (n + 1)..Recorded' : journal'.entries[i].file \in Files =>
               files'[journal'.entries[i].file] = journal'.entries[i].before
    BY <2>3
  <2> QED BY <1>2, <1>4, <1>5, <2>2, <2>3, <2>4, RollingBackIsFine
<1>6. CASE ~Whole(p)
  <2>1. Leaves(p, "left", result) BY <1>6 DEF Raise, Leave, Leaves
  <2>2. Reports(p, result) BY <1>6 DEF Reports
  <2> QED BY <1>2, <1>3, <1>4, <2>1, <2>2, LeavingIsFine
<1> QED BY <1>5, <1>6

LEMMA RefuseIsFine ==
    ASSUME Stepping, NEW p \in Processes, Refuse(p)
    PROVE  IInv' /\ Simulated
<1>1. /\ task[p].at = "write" /\ files' = files /\ Raise(p, NextWrite(p).to)
      /\ task[p].done < Len(task[p].plan) /\ NextWrite(p).failing = "denied"
  BY DEF Refuse, At
<1>2. WriteOK(NextWrite(p), {"receipts"}) BY <1>1, WritesNext
<1>3. PICK result : result = NextWrite(p).to OBVIOUS
<1>4. result \in {"rejected", "changed", "error"} BY <1>1, <1>2, <1>3 DEF WriteOK
<1>5. Raise(p, result) BY <1>1, <1>3
<1> QED BY <1>1, <1>4, <1>5, RaiseIsFine

(* A pack's journal grows, or an entry of it is retried; nothing is written. *)
LEMMA RecordingIsFine ==
    ASSUME Stepping, NEW p \in Processes, task[p].at = "write", Whole(p),
           files' = files, lock' = lock, JournalOK', Unfinished', Base' = Base,
           OnlyTask(p), task'[p].at = "write", task'[p].op = task[p].op,
           task'[p].plan = task[p].plan, task'[p].done = task[p].done,
           task'[p].applied = task[p].applied
    PROVE  IInv' /\ Simulated
<1>1. ProcessOK(p) /\ lock = p /\ WritingOK(p) BY WritesNext
<1>2. Whole(p)' = Whole(p) BY DEF Whole
<1>3. Progress(p)' = Progress(p) BY DEF Progress, NextWrite
<1>4. lost => lost' BY DEF Stepping, Recalls
<1>5. WritingOK(p)' BY <1>1, <1>2, <1>3, <1>4 DEF WritingOK
<1>6. ProcessOK(p)' BY <1>1, <1>2, <1>5 DEF ProcessOK
<1>7. IInv' BY <1>1, <1>6, StepKeepsIInv
<1>8. ASSUME NEW q \in Processes PROVE Looks(task[q], task'[q])
  BY <1>2, <1>8 DEF OnlyTask, Looks, Answered, Remaining, Whole
<1>9. Simulated BY <1>8, SeenAsNothing
<1> QED BY <1>7, <1>9

LEMMA RecordIsFine ==
    ASSUME Stepping, NEW p \in Processes, Record(p)
    PROVE  IInv' /\ Simulated
<1> DEFINE f == NextWrite(p).file
<1>1. /\ task[p].at = "write" /\ files' = files /\ task' = task /\ lock' = lock
      /\ task[p].done < Len(task[p].plan) /\ Whole(p)
      /\ f \notin Images /\ journal' = Imaged(f, TRUE)
  BY DEF Record, Writing, At, NeedsImage
<1>2. /\ Tasks /\ StoreOK(files) /\ Files = Documents /\ Setting
      /\ JournalOK /\ WritingOK(p) /\ f # "receipts"
  BY <1>1, WritesNext
<1>3. Unfinished BY <1>1, <1>2 DEF WritingOK
<1> HIDE DEF f
<1>4. PICK g, saved : g = f /\ saved = TRUE OBVIOUS
<1>5. JournalOK' /\ Unfinished' /\ Base' = Base
  BY <1>1, <1>2, <1>3, <1>4, ImagedKeepsBase
<1>6. OnlyTask(p) BY <1>1, <1>2 DEF OnlyTask, Tasks
<1> QED BY <1>1, <1>5, <1>6, RecordingIsFine

LEMMA CannotRecordIsFine ==
    ASSUME Stepping, NEW p \in Processes, CannotRecord(p)
    PROVE  IInv' /\ Simulated
<1> DEFINE f == NextWrite(p).file
<1>1. /\ task[p].at = "write" /\ files' = files /\ lock' = lock
      /\ task[p].done < Len(task[p].plan) /\ Whole(p)
      /\ f \notin Images
      /\ journal' = journal \/ \E saved : journal' = Imaged(f, saved)
      /\ IF TriesAgain(p)
         THEN task' = [task EXCEPT ![p].again = TRUE]
         ELSE task' = [task EXCEPT ![p].at = "rollback", ![p].undo = Recorded,
                                   ![p].result = "error"]
  BY DEF CannotRecord, Writing, At, NeedsImage
<1>2. /\ Tasks /\ StoreOK(files) /\ Files = Documents /\ Setting
      /\ JournalOK /\ WritingOK(p) /\ f # "receipts" /\ Recorded \in Nat
  BY <1>1, WritesNext
<1>3. Unfinished BY <1>1, <1>2 DEF WritingOK
<1> HIDE DEF f
<1>4. PICK g : g = f OBVIOUS
<1>5. /\ JournalOK' /\ Unfinished' /\ Base' = Base
      /\ \/ Recorded' = Recorded
         \/ /\ Recorded' = Recorded + 1
            /\ journal'.entries[Recorded + 1] = [file |-> g, before |-> files[g]]
  <2>1. CASE journal' = journal
    <3>1. Base' = Base /\ Recorded' = Recorded /\ Unfinished' = Unfinished
      BY <1>1, <2>1, SameBase
    <3> QED BY <1>2, <1>3, <2>1, <3>1 DEF JournalOK
  <2>2. ASSUME NEW saved, journal' = Imaged(f, saved)
        PROVE  /\ JournalOK' /\ Unfinished' /\ Base' = Base /\ Recorded' = Recorded + 1
               /\ journal'.entries[Recorded + 1] = [file |-> g, before |-> files[g]]
    BY <1>1, <1>2, <1>3, <1>4, <2>2, ImagedKeepsBase
  <2> QED BY <1>1, <2>1, <2>2
<1>6. CASE TriesAgain(p)
  <2>1. task' = [task EXCEPT ![p].again = TRUE] BY <1>1, <1>6
  <2>2. /\ OnlyTask(p) /\ task'[p].at = "write" /\ task'[p].op = task[p].op
        /\ task'[p].plan = task[p].plan /\ task'[p].applied = task[p].applied
        /\ task'[p].done = task[p].done
    BY <1>1, <1>2, <2>1, TaskRepeats
  <2> QED BY <1>1, <1>5, <2>2, RecordingIsFine
<1>7. CASE ~TriesAgain(p)
  <2>1. PICK n : n = Recorded OBVIOUS
  <2>2. RollsBack(p, "rollback", n, "error") BY <1>1, <1>7, <2>1 DEF RollsBack
  <2>3. /\ n \in 0..Recorded' /\ Recorded' \in Nat
        /\ \A i \in (n + 1)..Recorded' :
              i = n + 1 /\ journal'.entries[n + 1] = [file |-> g, before |-> files[g]]
    BY <1>2, <1>5, <2>1
  <2>4. \A i \in (n + 1)..Recorded' : journal'.entries[i].file \in Files =>
               files'[journal'.entries[i].file] = journal'.entries[i].before
    BY <1>1, <2>3
  <2> QED BY <1>1, <1>5, <2>2, <2>3, <2>4, RollingBackIsFine
<1> QED BY <1>6, <1>7

(* Writing a document whose image is recorded is not seen, ...               *)
LEMMA WritingKeepsBase ==
    ASSUME JournalOK, StoreOK(files), Files = Documents, journal' = journal,
           NEW f, NEW v, f \in Images \/ files' = files,
           files' = files \/ files' = [files EXCEPT ![f] = v]
    PROVE  Base' = Base /\ Unfinished' = Unfinished /\ Recorded' = Recorded
<1>1. Images' = Images /\ \A g : Before(g)' = Before(g)
  BY DEF Images, Before, Unfinished, Recorded
<1>2. ASSUME NEW g \in Files PROVE Contents(g)' = Contents(g)
  <2>1. CASE g \in Images BY <1>1, <2>1 DEF Contents
  <2>2. CASE g \notin Images
    <3>1. files'[g] = files[g] BY <2>2 DEF StoreOK
    <3> QED BY <1>1, <2>2, <3>1 DEF Contents
  <2> QED BY <2>1, <2>2
<1>3. Unfinished' = Unfinished /\ Recorded' = Recorded BY DEF Unfinished, Recorded
<1> QED BY <1>2, <1>3 DEF Base

(* ... and without a journal it is the next document, as decided.            *)
LEMMA PlainWriteIsSeen ==
    ASSUME Stepping, NEW p \in Processes, task[p].at = "write", ~Whole(p),
           task[p].done < Len(task[p].plan), NextWrite(p).failing # "denied",
           StoreOK(files)', journal' = journal,
           NEW f, NEW v, f = NextWrite(p).file, v = NextWrite(p).to,
           files' = files \/ files' = [files EXCEPT ![f] = v],
           NEW rest, Rests(p, rest),
           \/ rest = Remaining(task[p]) \/ rest = <<>>
           \/ /\ rest = Tail(Remaining(task[p]))
              /\ files' = [files EXCEPT ![f] = v] \/ NextWrite(p).failing = "ignore"
    PROVE  Simulated
<1>1. /\ StoreOK(files) /\ Files = Documents /\ lock = p /\ WritingOK(p)
      /\ IsSeq(task[p].plan) /\ task[p].done \in Nat
  BY WritesNext DEF PlanOK
<1>2. journal = Nothing /\ journal' = Nothing BY <1>1 DEF WritingOK
<1>3. Images = {} /\ Images' = {} BY <1>2 DEF Images, Unfinished
<1>4. Base = files BY <1>1, <1>3, BaseWithoutImages
<1>5. Base' = files'
  <2>1. Base' = [g \in Documents |-> files'[g]] BY <1>1, <1>3 DEF Base, Contents
  <2>2. files' = [g \in Documents |-> files'[g]] BY DEF StoreOK
  <2> QED BY <2>1, <2>2
<1>6. Remaining(task[p]) # <<>> /\ Head(Remaining(task[p])) = NextWrite(p)
  <2>1. PICK n : n = task[p].done OBVIOUS
  <2>2. PICK plan : plan = task[p].plan OBVIOUS
  <2>3. Remaining(task[p]) = SubSeq(plan, n + 1, Len(plan)) BY <2>1, <2>2 DEF Remaining, Whole
  <2>4. IsSeq(plan) /\ n \in Nat /\ n < Len(plan) /\ NextWrite(p) = plan[n + 1]
    BY <1>1, <2>1, <2>2 DEF NextWrite
  <2> QED BY <2>3, <2>4, RestOfSeq
<1>7. CASE files' = [files EXCEPT ![f] = v]
  <2>1. Moved BY <1>4, <1>5, <1>7 DEF Moved
  <2>2. PICK write : write = NextWrite(p) OBVIOUS
  <2>3. Base' = [Base EXCEPT ![write.file] = write.to] BY <1>4, <1>5, <1>7, <2>2
  <2>4. \A q \in Processes \ {p} : Remaining(task[q]) = <<>>
    BY <1>1, OthersAreDone DEF Stepping
  <2>5. rest \in {Remaining(task[p]), Tail(Remaining(task[p])), <<>>} OBVIOUS
  <2> QED BY <1>6, <2>1, <2>2, <2>3, <2>4, <2>5, SeenAsReplace
<1>8. CASE files' # [files EXCEPT ![f] = v]
  <2>1. Base' = Base BY <1>4, <1>5, <1>8
  <2>2. CASE rest = Remaining(task[p])
    <3>1. \A q \in Processes : Looks(task[q], task'[q]) BY <2>2 DEF Rests, Looks
    <3> QED BY <2>1, <3>1, SeenAsNothing
  <2>3. CASE rest # Remaining(task[p])
    <3>1. \/ rest = <<>>
          \/ /\ Head(Remaining(task[p])).failing = "ignore"
             /\ rest = Tail(Remaining(task[p]))
      BY <1>6, <1>8, <2>3
    <3> QED BY <1>6, <2>1, <3>1, SeenAsForgo
  <2> QED BY <2>2, <2>3
<1> QED BY <1>7, <1>8

(* A process that goes on writing after it tried one write.                  *)
LEMMA WritingOnIsFine ==
    ASSUME Stepping, NEW p \in Processes, task[p].at = "write", OnlyTask(p),
           task'[p].at = "write", task'[p].op = task[p].op, task'[p].plan = task[p].plan,
           task'[p].applied = task[p].applied,
           journal' = journal, lock' = lock,
           task[p].done < Len(task[p].plan), NextWrite(p).failing # "denied",
           NEW f, NEW v, f = NextWrite(p).file, v = NextWrite(p).to, f # "receipts", Fits(f, v),
           files' = files \/ files' = [files EXCEPT ![f] = v],
           \/ task'[p].done = task[p].done
           \/ /\ task'[p].done = task[p].done + 1
              /\ files' = [files EXCEPT ![f] = v] \/ NextWrite(p).failing = "ignore",
           Whole(p) => /\ f \in Images \/ files' = files \/ lost'
                       /\ lost \/ (Base' = Base => Progress(p)')
    PROVE  IInv' /\ Simulated
<1>1. /\ ProcessOK(p) /\ Tasks /\ StoreOK(files) /\ Files = Documents /\ Setting
      /\ JournalOK /\ lock = p /\ WritingOK(p) /\ task[p].done \in Nat
      /\ Len(task[p].plan) \in Nat /\ IsSeq(task[p].plan)
  BY WritesNext DEF PlanOK
<1>2. Whole(p)' = Whole(p) /\ ~task[p].applied BY WritesNext DEF Whole
<1>3. task'[p].done \in 0..Len(task[p].plan) BY <1>1
<1>4. JournalOK' BY <1>1 DEF JournalOK
<1>a. lost => lost' BY DEF Stepping, Recalls
<1>5. CASE Whole(p)
  <2>1. CASE lost'
    <3>1. Unfinished' = Unfinished BY DEF Unfinished
    <3>2. \A i \in 1..task'[p].done : task[p].plan[i].failing # "denied"
      <4>1. \A i \in 1..task'[p].done : i \in 1..task[p].done \/ i = task[p].done + 1
        BY <1>1
      <4> QED BY <1>1, <1>5, <4>1 DEF WritingOK, NextWrite
    <3>3. WritingOK(p)' BY <1>1, <1>2, <1>3, <1>5, <2>1, <3>1, <3>2 DEF WritingOK
    <3>4. ProcessOK(p)' BY <1>1, <1>2, <3>3 DEF ProcessOK
    <3>5. IInv' BY <1>1, <1>4, <3>4, StepKeepsIInv
    <3> QED BY <2>1, <3>5 DEF Simulated
  <2>2. CASE ~lost'
    <3>0. PICK g, w : g = f /\ w = v OBVIOUS
    <3>a. /\ JournalOK /\ StoreOK(files) /\ Files = Documents /\ journal' = journal
          /\ g \in Images \/ files' = files
          /\ files' = files \/ files' = [files EXCEPT ![g] = w]
      BY <1>1, <1>5, <2>2, <3>0
    <3>1. Base' = Base /\ Unfinished' = Unfinished BY ONLY <3>a, WritingKeepsBase
    <3>2. \A i \in 1..task'[p].done : task[p].plan[i].failing # "denied"
      <4>1. \A i \in 1..task'[p].done : i \in 1..task[p].done \/ i = task[p].done + 1
        BY <1>1
      <4> QED BY <1>1, <1>5, <4>1 DEF WritingOK, NextWrite
    <3>3. Progress(p)' BY <1>5, <1>a, <2>2, <3>1
    <3>4. WritingOK(p)' BY <1>1, <1>2, <1>3, <1>5, <1>a, <2>2, <3>1, <3>2, <3>3 DEF WritingOK
    <3>5. ProcessOK(p)' BY <1>1, <1>2, <3>4 DEF ProcessOK
    <3>6. IInv' BY <1>1, <1>4, <3>5, StepKeepsIInv
    <3>7. ASSUME NEW q \in Processes PROVE Looks(task[q], task'[q])
      BY <1>2, <1>5, <3>7 DEF OnlyTask, Looks, Answered, Remaining, Whole
    <3> QED BY <3>1, <3>6, <3>7, SeenAsNothing
  <2> QED BY <2>1, <2>2
<1>6. CASE ~Whole(p)
  <2>1. journal = Nothing BY <1>1, <1>6 DEF WritingOK
  <2>2. WritingOK(p)' BY <1>1, <1>2, <1>3, <1>6, <2>1 DEF WritingOK
  <2>3. ProcessOK(p)' BY <1>1, <1>2, <2>2 DEF ProcessOK
  <2>4. IInv' BY <1>1, <1>4, <2>3, StepKeepsIInv
  <2>5. PICK rest : rest = Remaining(task'[p]) OBVIOUS
  <2>6. Rests(p, rest) BY <2>5 DEF Rests, OnlyTask, Answered
  <2>7. \/ rest = Remaining(task[p])
        \/ /\ rest = Tail(Remaining(task[p]))
           /\ files' = [files EXCEPT ![f] = v] \/ NextWrite(p).failing = "ignore"
    <3>1. CASE task'[p].done = task[p].done BY <2>5, <3>1 DEF Remaining
    <3>2. CASE /\ task'[p].done = task[p].done + 1
               /\ files' = [files EXCEPT ![f] = v] \/ NextWrite(p).failing = "ignore"
      <4>1. PICK n : n = task[p].done OBVIOUS
      <4>2. PICK plan : plan = task[p].plan OBVIOUS
      <4>3. Remaining(task[p]) = SubSeq(plan, n + 1, Len(plan))
        BY <1>6, <4>1, <4>2 DEF Remaining, Whole
      <4>4. rest = SubSeq(plan, (n + 1) + 1, Len(plan))
        BY <1>6, <2>5, <3>2, <4>1, <4>2 DEF Remaining, Whole
      <4>5. IsSeq(plan) /\ n \in Nat /\ n < Len(plan) BY <1>1, <4>1, <4>2
      <4>6. rest = Tail(Remaining(task[p])) BY <4>3, <4>4, <4>5, RestOfSeq
      <4> QED BY <3>2, <4>6
    <3> QED BY <3>1, <3>2
  <2>8. StoreOK(files)' BY <2>4 DEF IInv
  <2>9. Simulated BY <1>6, <2>6, <2>7, <2>8, PlainWriteIsSeen
  <2> QED BY <2>4, <2>9
<1> QED BY <1>5, <1>6

(* Of what is known of the progress of p, what the next write needs.         *)
LEMMA ProgressOfNext ==
    ASSUME Stepping, ~lost, NEW p \in Processes, task[p].at = "write", Whole(p),
           task[p].done < Len(task[p].plan)
    PROVE  \E skipped \in SUBSET (Ignored(task[p].plan) \cap 1..task[p].done) :
             LET now == After(Without(task[p].plan, skipped), task[p].done, Base)
                 next == [now EXCEPT ![NextWrite(p).file] = NextWrite(p).to]
             IN  /\ files = now \/ (NextWrite(p).failing = "again" /\ files = next)
                 /\ [files EXCEPT ![NextWrite(p).file] = NextWrite(p).to] = next
                 /\ next = After(Without(task[p].plan, skipped), task[p].done + 1, Base)
<1>1. WritingOK(p) /\ task[p].done \in Nat /\ Len(task[p].plan) \in Nat /\ IsSeq(task[p].plan)
  BY WritesNext DEF PlanOK
<1>2. PICK skipped \in SUBSET (Ignored(task[p].plan) \cap 1..task[p].done) :
        LET now == After(Without(task[p].plan, skipped), task[p].done, Base)
        IN  \/ files = now
            \/ /\ task[p].done < Len(task[p].plan)
               /\ NextWrite(p).failing = "again"
               /\ files = [now EXCEPT ![NextWrite(p).file] = NextWrite(p).to]
  BY <1>1 DEF WritingOK, Progress
<1>3. PICK now : now = After(Without(task[p].plan, skipped), task[p].done, Base) OBVIOUS
<1>4. PICK f : f = NextWrite(p).file OBVIOUS
<1>5. PICK v : v = NextWrite(p).to OBVIOUS
<1>6. \/ files = now
      \/ NextWrite(p).failing = "again" /\ files = [now EXCEPT ![f] = v]
  BY <1>2, <1>3, <1>4, <1>5
<1>7. [files EXCEPT ![f] = v] = [now EXCEPT ![f] = v] BY <1>6
<1>8. [now EXCEPT ![f] = v] = After(Without(task[p].plan, skipped), task[p].done + 1, Base)
  <2>1. PICK n : n = task[p].done OBVIOUS
  <2>2. PICK plan : plan = task[p].plan OBVIOUS
  <2>3. n \in Nat /\ n + 1 <= Len(plan) /\ n + 1 \notin skipped /\ IsSeq(plan)
    BY <1>1, <2>1, <2>2
  <2>4. plan[n + 1].file = f /\ plan[n + 1].to = v BY <1>4, <1>5, <2>1, <2>2 DEF NextWrite
  <2>5. PICK base : base = Base OBVIOUS
  <2>6. IsSeq(plan) /\ n \in Nat /\ n + 1 <= Len(plan) /\ n + 1 \notin skipped BY <2>3
  <2>7. Without(plan, skipped)[n + 1] = plan[n + 1]
    <3>1. n + 1 \in 1..Len(plan) BY <2>6
    <3> QED BY <2>6, <3>1, WithoutIsSeq
  <2>8. PICK w : w = Without(plan, skipped) OBVIOUS
  <2>9. After(w, n + 1, base) = [After(w, n, base) EXCEPT ![w[n + 1].file] = w[n + 1].to]
    BY <2>6, AfterOneMore
  <2> QED BY <1>3, <2>1, <2>2, <2>4, <2>5, <2>7, <2>8, <2>9
<1> QED BY <1>3, <1>4, <1>5, <1>6, <1>7, <1>8

(* The next write was done, or it was lost and that does not matter.         *)
LEMMA Progresses ==
    ASSUME Stepping, ~lost, NEW p \in Processes, task[p].at = "write", Whole(p),
           task[p].done < Len(task[p].plan), Base' = Base,
           task'[p].plan = task[p].plan, task'[p].done = task[p].done + 1,
           \/ files' = [files EXCEPT ![NextWrite(p).file] = NextWrite(p).to]
           \/ files' = files /\ NextWrite(p).failing = "ignore"
    PROVE  Progress(p)'
<1>1. PICK n : n = task[p].done OBVIOUS
<1>2. PICK plan : plan = task[p].plan OBVIOUS
<1>3. PICK f : f = NextWrite(p).file OBVIOUS
<1>4. PICK v : v = NextWrite(p).to OBVIOUS
<1>5. PICK skipped \in SUBSET (Ignored(plan) \cap 1..n) :
         /\ files = After(Without(plan, skipped), n, Base) \/ NextWrite(p).failing = "again"
         /\ [files EXCEPT ![f] = v] = After(Without(plan, skipped), n + 1, Base)
  BY <1>1, <1>2, <1>3, <1>4, ProgressOfNext
<1>6. n \in Nat /\ n + 1 <= Len(plan) /\ PlanOK(plan, {"receipts"})
  BY <1>1, <1>2, WritesNext
<1>7. CASE files' = [files EXCEPT ![NextWrite(p).file] = NextWrite(p).to]
  <2>1. files' = After(Without(plan, skipped), n + 1, Base) BY <1>3, <1>4, <1>5, <1>7
  <2>2. files' = After(Without(task'[p].plan, skipped), task'[p].done, Base')
    BY <1>1, <1>2, <2>1
  <2>3. skipped \in SUBSET (Ignored(task'[p].plan) \cap 1..task'[p].done)
    BY <1>1, <1>2, <1>5, <1>6
  <2> QED BY <2>2, <2>3 DEF Progress
<1>8. CASE files' = files /\ NextWrite(p).failing = "ignore"
  <2>1. files' = After(Without(plan, skipped), n, Base) BY <1>5, <1>8
  <2>2. plan[n + 1].failing = "ignore" BY <1>1, <1>2, <1>8 DEF NextWrite
  <2>3. After(Without(plan, skipped \cup {n + 1}), n + 1, Base) = After(Without(plan, skipped), n, Base)
    BY <1>5, <1>6, <2>2, NextWriteLost
  <2>4. PICK gone1 : gone1 = skipped \cup {n + 1} OBVIOUS
  <2>5. files' = After(Without(task'[p].plan, gone1), task'[p].done, Base')
    BY <1>1, <1>2, <2>1, <2>3, <2>4
  <2>6. n + 1 \in DOMAIN plan BY <1>6 DEF PlanOK, IsSeq
  <2>7. gone1 \in SUBSET (Ignored(task'[p].plan) \cap 1..task'[p].done)
    BY <1>1, <1>2, <1>5, <1>6, <2>2, <2>4, <2>6 DEF Ignored
  <2> QED BY <2>5, <2>7 DEF Progress
<1> QED BY <1>7, <1>8

(* Of a write that is tried again nobody knows whether it was done.          *)
LEMMA TryingAgain ==
    ASSUME Stepping, ~lost, NEW p \in Processes, task[p].at = "write", Whole(p),
           task[p].done < Len(task[p].plan), Base' = Base, NextWrite(p).failing = "again",
           task'[p].plan = task[p].plan, task'[p].done = task[p].done,
           \/ files' = files
           \/ files' = [files EXCEPT ![NextWrite(p).file] = NextWrite(p).to]
    PROVE  Progress(p)'
<1>1. PICK skipped \in SUBSET (Ignored(task[p].plan) \cap 1..task[p].done) :
        LET now == After(Without(task[p].plan, skipped), task[p].done, Base)
            next == [now EXCEPT ![NextWrite(p).file] = NextWrite(p).to]
        IN  /\ files = now \/ (NextWrite(p).failing = "again" /\ files = next)
            /\ [files EXCEPT ![NextWrite(p).file] = NextWrite(p).to] = next
  BY ProgressOfNext
<1>2. PICK now : now = After(Without(task[p].plan, skipped), task[p].done, Base) OBVIOUS
<1>3. PICK next : next = [now EXCEPT ![NextWrite(p).file] = NextWrite(p).to] OBVIOUS
<1>4. files' = now \/ files' = next BY <1>1, <1>2, <1>3
<1>5. NextWrite(p)' = NextWrite(p) BY DEF NextWrite
<1>6. /\ now = After(Without(task'[p].plan, skipped), task'[p].done, Base')
      /\ next = [now EXCEPT ![NextWrite(p)'.file] = NextWrite(p)'.to]
      /\ task'[p].done < Len(task'[p].plan) /\ NextWrite(p)'.failing = "again"
      /\ skipped \in SUBSET (Ignored(task'[p].plan) \cap 1..task'[p].done)
  BY <1>1, <1>2, <1>3, <1>5
<1> QED BY <1>4, <1>6 DEF Progress

(* A pack replaces what it has the image of, or something is lost.           *)
LEMMA ImagedOrLost ==
    ASSUME Recalls, NEW p \in Processes, Writing(p), Whole(p)
    PROVE  NextWrite(p).file \in Images \/ files' = files \/ lost'
BY DEF Loses, Recalls

LEMMA WriteIsFine ==
    ASSUME Stepping, NEW p \in Processes, Write(p)
    PROVE  IInv' /\ Simulated
<1>1. /\ task[p].at = "write" /\ task[p].done < Len(task[p].plan)
      /\ NextWrite(p).failing # "denied" /\ Writing(p)
      /\ journal' = journal /\ lock' = lock
      /\ files' = [files EXCEPT ![NextWrite(p).file] = NextWrite(p).to]
      /\ task' = [task EXCEPT ![p].done = task[p].done + 1]
  <2>1. Tasks BY DEF Stepping, IInv
  <2> QED BY <2>1 DEF Write, Writing, At, Tasks
<1>2. /\ Tasks /\ NextWrite(p).file # "receipts" /\ Fits(NextWrite(p).file, NextWrite(p).to)
      /\ StoreOK(files)
  BY <1>1, WritesNext
<1>3. PICK n : n = task[p].done + 1 OBVIOUS
<1>4. /\ OnlyTask(p) /\ task'[p].at = "write" /\ task'[p].op = task[p].op
      /\ task'[p].plan = task[p].plan /\ task'[p].applied = task[p].applied
      /\ task'[p].done = n
  <2>1. task' = [task EXCEPT ![p].done = n] BY <1>1, <1>3
  <2> QED BY <1>1, <1>2, <2>1, TaskAdvances
<1>5. Whole(p) => lost \/ (Base' = Base => Progress(p)') BY <1>1, <1>3, <1>4, Progresses
<1>6. Whole(p) => NextWrite(p).file \in Images \/ files' = files \/ lost'
  BY <1>1, ImagedOrLost DEF Stepping
<1>7. PICK f : f = NextWrite(p).file OBVIOUS
<1>8. PICK v : v = NextWrite(p).to OBVIOUS
<1>9. /\ f # "receipts" /\ Fits(f, v) /\ files' = [files EXCEPT ![f] = v]
      /\ Whole(p) => f \in Images \/ files' = files \/ lost'
  BY <1>1, <1>2, <1>6, <1>7, <1>8
<1> QED BY <1>1, <1>3, <1>4, <1>5, <1>7, <1>8, <1>9, WritingOnIsFine

LEMMA CannotWriteIsFine ==
    ASSUME Stepping, NEW p \in Processes, CannotWrite(p)
    PROVE  IInv' /\ Simulated
<1>1. /\ task[p].at = "write" /\ task[p].done < Len(task[p].plan)
      /\ NextWrite(p).failing # "denied" /\ Writing(p)
      /\ Whole(p) => NextWrite(p).file \in Images \/ NextWrite(p).failing = "ignore"
      /\ \/ files' = files
         \/ files' = [files EXCEPT ![NextWrite(p).file] = NextWrite(p).to]
  BY DEF CannotWrite, Writing, At, NeedsImage
<1>2. /\ Tasks /\ WritingOK(p) /\ task[p].done \in Nat /\ Len(task[p].plan) \in Nat
      /\ NextWrite(p).file # "receipts" /\ Fits(NextWrite(p).file, NextWrite(p).to)
      /\ StoreOK(files) /\ Files = Documents /\ JournalOK /\ lock = p /\ Recorded \in Nat
  BY <1>1, WritesNext
<1>3. PICK f : f = NextWrite(p).file OBVIOUS
<1>4. PICK v : v = NextWrite(p).to OBVIOUS
<1>5. /\ f # "receipts" /\ Fits(f, v)
      /\ files' = files \/ files' = [files EXCEPT ![f] = v]
      /\ Whole(p) => f \in Images \/ files' = files \/ lost'
  <2>1. Whole(p) => NextWrite(p).file \in Images \/ files' = files \/ lost'
    BY <1>1, ImagedOrLost DEF Stepping
  <2> QED BY <1>1, <1>2, <1>3, <1>4, <2>1
<1>a. NextWrite(p).failing = "ignore" => ~TriesAgain(p) BY DEF TriesAgain
<1>6. CASE NextWrite(p).failing = "ignore"
  <2>1. /\ task' = [task EXCEPT ![p].done = @ + 1]
        /\ journal' = journal /\ lock' = lock
    BY <1>6, <1>a, Zenon DEF CannotWrite
  <2>2. PICK n : n = task[p].done + 1 OBVIOUS
  <2>3. /\ OnlyTask(p) /\ task'[p].at = "write" /\ task'[p].op = task[p].op
        /\ task'[p].plan = task[p].plan /\ task'[p].applied = task[p].applied
        /\ task'[p].done = n
    <3>1. task' = [task EXCEPT ![p].done = n] BY <1>2, <2>1, <2>2 DEF Tasks
    <3> QED BY <1>1, <1>2, <3>1, TaskAdvances
  <2>4. Whole(p) => lost \/ (Base' = Base => Progress(p)')
    BY <1>1, <1>6, <2>2, <2>3, Progresses
  <2> QED BY <1>1, <1>3, <1>4, <1>5, <1>6, <2>1, <2>2, <2>3, <2>4, WritingOnIsFine
<1>7. CASE NextWrite(p).failing # "ignore" /\ TriesAgain(p)
  <2>1. /\ task' = [task EXCEPT ![p].again = TRUE]
        /\ journal' = journal /\ lock' = lock
    BY <1>7 DEF CannotWrite
  <2>2. /\ OnlyTask(p) /\ task'[p].at = "write" /\ task'[p].op = task[p].op
        /\ task'[p].plan = task[p].plan /\ task'[p].applied = task[p].applied
        /\ task'[p].done = task[p].done
    BY <1>1, <1>2, <2>1, TaskRepeats
  <2>3. NextWrite(p).failing = "again" BY <1>7 DEF TriesAgain
  <2>4. Whole(p) => lost \/ (Base' = Base => Progress(p)') BY <1>1, <2>2, <2>3, TryingAgain
  <2> QED BY <1>1, <1>3, <1>4, <1>5, <2>1, <2>2, <2>4, WritingOnIsFine
<1>8. CASE NextWrite(p).failing # "ignore" /\ ~TriesAgain(p)
  <2>1. Raise(p, "error") BY <1>8 DEF CannotWrite
  <2>2. journal' = journal BY <2>1 DEF Raise, RollBack
  <2>3. JournalOK' BY <1>2, <2>2 DEF JournalOK
  <2>4. \/ files' = files
        \/ \E g, w : g # "receipts" /\ Fits(g, w) /\ files' = [files EXCEPT ![g] = w]
    BY <1>5
  <2>5. CASE Whole(p)
    <3>1. Base' = Base /\ Recorded' = Recorded
      BY <1>1, <1>2, <1>3, <1>5, <1>8, <2>2, <2>5, WritingKeepsBase
    <3>2. PICK n : n = Recorded OBVIOUS
    <3>3. RollsBack(p, "rollback", n, "error") /\ lock' = lock
      BY <2>1, <2>5, <3>2 DEF Raise, RollBack, RollsBack
    <3>4. n \in 0..Recorded' /\ Recorded' \in Nat /\ (n + 1)..Recorded' = {}
      BY <1>2, <3>1, <3>2
    <3>5. \A i \in (n + 1)..Recorded' : journal'.entries[i].file \in Files =>
                 files'[journal'.entries[i].file] = journal'.entries[i].before
      BY <3>4
    <3> QED BY <1>1, <2>3, <2>4, <2>5, <3>1, <3>3, <3>4, <3>5, RollingBackIsFine
  <2>6. CASE ~Whole(p)
    <3>1. Leaves(p, "left", "error") BY <2>1, <2>6 DEF Raise, Leave, Leaves
    <3>2. /\ OnlyTask(p) /\ task'[p].at = "left"
          /\ task'[p].op = task[p].op /\ task'[p].applied = task[p].applied
      BY <1>2, <3>1, TaskLeaves
    <3>3. ProcessOK(p)' BY <3>2 DEF ProcessOK, Busy
    <3>4. IInv' BY <1>2, <2>3, <2>4, <3>2, <3>3, StepKeepsIInv
    <3>5. PICK rest : rest = <<>> OBVIOUS
    <3>6. Rests(p, rest) BY <2>6, <3>2, <3>5 DEF Rests, OnlyTask, Answered, Remaining, Whole
    <3>7. StoreOK(files)' BY <3>4 DEF IInv
    <3>8. Simulated
      BY <1>1, <1>3, <1>4, <1>5, <2>2, <2>6, <3>5, <3>6, <3>7, PlainWriteIsSeen
    <3> QED BY <3>4, <3>8
  <2> QED BY <2>5, <2>6
<1> QED BY <1>6, <1>7, <1>8

LEMMA ReturnIsFine ==
    ASSUME Stepping, NEW p \in Processes, Return(p)
    PROVE  IInv' /\ Simulated
<1>1. /\ task[p].at = "write" /\ files' = files /\ journal' = journal /\ ~Whole(p)
      /\ Leaves(p, "left", "done")
  BY DEF Return, Leave, Leaves, At
<1>2. JournalOK /\ task[p].at \in Busy BY <1>1, WritesNext
<1>3. Base' = Base /\ JournalOK' BY <1>1, <1>2, SameBase DEF JournalOK
<1>4. Reports(p, "done") BY <1>1 DEF Reports
<1> QED BY <1>1, <1>2, <1>3, <1>4, LeavingIsFine

(* What an import found in its preflight decides whether it writes, and not  *)
(* what.                                                                     *)
LEMMA FrozenReadsDoNotMatter ==
    ASSUME NEW op, OpFits(op), NEW base, NEW plan \in AllPlans(op, base), IsSeq(plan),
           \A i \in 1..Len(plan) : plan[i].failing # "denied",
           NEW found, found = IF op.whole THEN [op EXCEPT !.seen = <<>>] ELSE op
    PROVE  plan \in AllPlans(found, base)
<1>a. CASE ~op.whole BY <1>a
<1>b. SUFFICES ASSUME op.whole, found = [op EXCEPT !.seen = <<>>]
              PROVE  plan \in AllPlans(found, base)
  BY <1>a DEF OpFits
<1>1. op = [kind |-> "import", whole |-> TRUE, pack |-> op.pack, over |-> op.over,
            guard |-> op.guard, fresh |-> op.fresh, seen |-> op.seen]
  BY <1>b DEF OpFits
<1>2. found = [kind |-> "import", whole |-> TRUE, pack |-> op.pack, over |-> op.over,
               guard |-> op.guard, fresh |-> op.fresh, seen |-> <<>>]
  <2>1. PICK none : none = <<>> OBVIOUS
  <2>2. PICK a, b, c, d, e :
           op = [kind |-> "import", whole |-> TRUE, pack |-> a, over |-> b,
                 guard |-> c, fresh |-> d, seen |-> e]
    BY <1>1
  <2>3. found = [kind |-> "import", whole |-> TRUE, pack |-> a, over |-> b,
                 guard |-> c, fresh |-> d, seen |-> none]
    BY <1>b, <2>1, <2>2
  <2> QED BY <2>1, <2>2, <2>3
<1>3. /\ found.kind = "import" /\ found.pack = op.pack /\ found.over = op.over
      /\ found.guard = op.guard /\ found.fresh = op.fresh /\ found.seen = <<>>
  BY <1>2
<1>4. op.kind = "import" BY <1>1
<1>5. plan \in ImportPlans(op, base) BY <1>4, Zenon DEF AllPlans
<1>7. Current(found, base) BY <1>3 DEF Current
<1>8. /\ CreateTarget(found, base) = CreateTarget(op, base)
      /\ PayloadWrites(found, base) = PayloadWrites(op, base)
      /\ ReceiptWrites(found, base) = ReceiptWrites(op, base)
      /\ WrongTarget(found, base) = WrongTarget(op, base)
  <2>1. Target(found, base) = Target(op, base) BY <1>3 DEF Target
  <2>2. Registered(found, base) = Registered(op, base) BY <2>1 DEF Registered
  <2>3. /\ Merged(found, base) = Merged(op, base)
        /\ CoreWrites(found, base) = CoreWrites(op, base)
        /\ TimelineWrites(found, base) = TimelineWrites(op, base)
        /\ TurnWrites(found, base) = TurnWrites(op, base)
        /\ TombstoneWrites(found, base) = TombstoneWrites(op, base)
    BY <1>3, <2>2 DEF Merged, CoreWrites, TimelineWrites, TurnWrites, TombstoneWrites
  <2>4. CreateTarget(found, base) = CreateTarget(op, base)
    <3>1. PICK t : t = Target(op, base) OBVIOUS
    <3>2. PICK pin : pin = op.pack.compilations.pin OBVIOUS
    <3>3. CreateTarget(op, base) = IF base["profile"].rel # Absent THEN <<>>
            ELSE <<Put("profile", [rel |-> t, manifest |-> pin]),
                   Put("registry", base["registry"] \cup {t})>>
      BY <3>1, <3>2, Zenon DEF CreateTarget
    <3>4. PICK other : other = found OBVIOUS
    <3>5. t = Target(other, base) BY <2>1, <3>1, <3>4
    <3>6. pin = other.pack.compilations.pin BY <1>3, <3>2, <3>4
    <3>7. CreateTarget(other, base) = IF base["profile"].rel # Absent THEN <<>>
            ELSE <<Put("profile", [rel |-> t, manifest |-> pin]),
                   Put("registry", base["registry"] \cup {t})>>
      BY <3>5, <3>6, Zenon DEF CreateTarget
    <3> QED BY <3>3, <3>4, <3>7
  <2>5. PayloadWrites(found, base) = PayloadWrites(op, base) BY <2>3 DEF PayloadWrites
  <2>6. ReceiptWrites(found, base) = ReceiptWrites(op, base) BY <1>3 DEF ReceiptWrites
  <2>7. WrongTarget(found, base) = WrongTarget(op, base) BY <1>3, <2>1 DEF WrongTarget
  <2> QED BY <2>4, <2>5, <2>6, <2>7
<1>9. plan # <<Deny("rejected")>>
  <2>1. PICK d : d = <<Deny("rejected")>> OBVIOUS
  <2>2. Len(d) = 1 /\ d[1] = Deny("rejected") BY <2>1, OneIsSeq
  <2>3. d[1].failing = "denied" BY <2>2 DEF Deny
  <2> QED BY <2>1, <2>2, <2>3
<1>6. Receipted(op.pack, op.over, base) \/ Current(op, base)
  BY <1>5, <1>9, Zenon DEF ImportPlans
<1>10. plan \in ImportPlans(found, base)
  BY <1>3, <1>5, <1>6, <1>7, <1>8, Zenon DEF ImportPlans
<1> QED BY <1>3, <1>10 DEF AllPlans

(* What an import wrote is one of its outcomes.                              *)
LEMMA WhatWasWrittenIsAnOutcome ==
    ASSUME Stepping, ~lost, NEW p \in Processes, Committing(p)
    PROVE  files \in Outcomes(task[p].op, Base)
<1>1. task[p].at = "write" /\ task[p].done = Len(task[p].plan) /\ Whole(p)
  BY DEF Committing, At
<1>2. /\ Tasks /\ WritingOK(p) /\ task[p].done \in Nat /\ PlanOK(task[p].plan, {"receipts"})
  BY <1>1, WritesNext
<1>3. PICK plan : plan = task[p].plan OBVIOUS
<1>4. PICK op : op = task[p].op OBVIOUS
<1>5. /\ IsSeq(plan) /\ Len(plan) \in Nat /\ plan \in AllPlans(op, Base)
      /\ \A i \in 1..Len(plan) : plan[i].failing # "denied"
  BY <1>1, <1>2, <1>3, <1>4 DEF WritingOK, PlanOK, IsSeq
<1>6. PICK skipped \in SUBSET Ignored(plan) : files = After(Without(plan, skipped), Len(plan), Base)
  <2>1. Progress(p) BY <1>1, <1>2 DEF WritingOK
  <2>2. ~(task[p].done < Len(task[p].plan)) BY <1>1, <1>2
  <2> QED BY <1>1, <1>3, <2>1, <2>2 DEF Progress
<1>7. files = Written(Without(plan, skipped), Base) BY <1>5, <1>6, WithoutIsSeq DEF Written
<1>8. ~Denied(plan) BY <1>5 DEF Denied, IsSeq
<1>9. /\ op.whole /\ OpFits(op) BY <1>1, <1>2, <1>4 DEF Whole, Tasks
<1>10. PICK found : found = IF op.whole THEN [op EXCEPT !.seen = <<>>] ELSE op OBVIOUS
<1>11. plan \in AllPlans(found, Base)
  <2>1. PICK base : base = Base OBVIOUS
  <2>2. plan \in AllPlans(op, base) BY <1>5, <2>1
  <2>3. plan \in AllPlans(found, base) BY <1>5, <1>9, <1>10, <2>2, FrozenReadsDoNotMatter
  <2> QED BY <2>1, <2>3
<1>12. Written(Without(plan, skipped), Base) \in Outcomes(op, Base)
  BY <1>8, <1>9, <1>10, <1>11 DEF Outcomes
<1> QED BY <1>4, <1>7, <1>12

(* The step that commits, whether its caller learns of it at once or not.    *)
LEMMA CommittingIsFine ==
    ASSUME Stepping, NEW p \in Processes, Committing(p),
           files' = files, journal' = Marked,
           OnlyTask(p), task'[p].op = task[p].op, task'[p].applied = TRUE,
           \/ task'[p].at = "clean" /\ lock' = lock
           \/ task'[p].at = "left" /\ task'[p].result = "error"
    PROVE  IInv' /\ Simulated
<1>1. task[p].at = "write" /\ Whole(p) BY DEF Committing, At
<1>2. /\ Tasks /\ WritingOK(p) /\ StoreOK(files) /\ Files = Documents /\ JournalOK
      /\ Setting /\ lock = p /\ ~task[p].applied
  BY <1>1, WritesNext
<1>3. Unfinished /\ journal # Nothing BY <1>1, <1>2 DEF WritingOK, Unfinished
<1>4. StoreOK(files)' BY <1>2 DEF StoreOK
<1>5. Base' = files /\ JournalOK' BY <1>2, <1>3, <1>4, BaseAfter
<1>6. journal' # Nothing /\ ~Unfinished'
  <2>1. journal' = [state |-> "committed", entries |-> journal.entries, saved |-> TRUE]
    BY <1>2, <1>3, MarkedIs
  <2>2. journal'.state = "committed" BY <2>1
  <2> QED BY <1>2, <2>1, <2>2 DEF Setting, Unfinished
<1>7. ProcessOK(p)' BY <1>1, <1>2, <1>6 DEF ProcessOK, Busy, Whole
<1>8. IInv' BY <1>2, <1>5, <1>7, StepKeepsIInv
<1>a. CASE lost' BY <1>8, <1>a DEF Simulated
<1>b. SUFFICES ASSUME ~lost' PROVE Simulated BY <1>8, <1>a
<1>9. Base' \in Outcomes(task[p].op, Base)
  <2>1. ~lost BY <1>b DEF Stepping, Recalls
  <2> QED BY <1>5, <2>1, WhatWasWrittenIsAnOutcome
<1>10. \/ Answered(task'[p]) = Answered(task[p])
       \/ Answered(task'[p]) \in {"done", "error"}
  BY <1>1 DEF Answered
<1>11. \A q \in Processes \ {p} : task'[q] = task[q] /\ Remaining(task[q]) = <<>>
  BY <1>2, OthersAreDone DEF OnlyTask, Stepping
<1>12. task'[p].applied /\ task'[p].applied \in BOOLEAN OBVIOUS
<1>13. task[p].op.whole /\ Remaining(task'[p]) = Remaining(task[p])
  BY <1>1 DEF Whole, Remaining
<1> QED BY <1>2, <1>9, <1>10, <1>11, <1>12, <1>13, SeenAsApply

LEMMA CommitIsFine ==
    ASSUME Stepping, NEW p \in Processes, Commit(p)
    PROVE  IInv' /\ Simulated
<1>1. /\ Committing(p) /\ files' = files /\ lock' = lock
      /\ journal' = Marked
      /\ Commits(p, "clean", TRUE)
  BY DEF Commit, Commits
<1>2. Tasks BY DEF Stepping, IInv
<1>3. PICK applied : applied = TRUE OBVIOUS
<1>4. applied \in BOOLEAN /\ Commits(p, "clean", applied) BY <1>1, <1>3
<1>5. /\ OnlyTask(p) /\ task'[p].at = "clean" /\ task'[p].op = task[p].op
      /\ task'[p].applied = applied
  BY <1>2, <1>4, TaskCommits
<1> QED BY <1>1, <1>3, <1>5, CommittingIsFine

LEMMA CannotCommitIsFine ==
    ASSUME Stepping, NEW p \in Processes, CannotCommit(p)
    PROVE  IInv' /\ Simulated
<1>1. Committing(p) /\ files' = files /\ task[p].at = "write" /\ Whole(p)
  BY DEF CannotCommit, Committing, At
<1>2. Tasks BY DEF Stepping, IInv
<1>3. CASE journal.saved /\ RollBack(p, "error")
  <2>1. Raise(p, "error") BY <1>1, <1>3 DEF Raise
  <2> QED BY <1>1, <2>1, RaiseIsFine
<1>4. CASE Leave(p, "error") /\ journal' = OnDisk
  <2>1. Leaves(p, "left", "error") BY <1>4 DEF Leave, Leaves
  <2>2. Reports(p, "error") /\ task[p].at \in Busy BY <1>1 DEF Reports, Busy
  <2>3. JournalOK' /\ (journal' = journal \/ Loses)
    BY <1>4, OnDiskIsJournal DEF Stepping, IInv
  <2>4. lost' \/ Base' = Base BY <1>1, <2>3, SameBase DEF Stepping, Recalls
  <2> QED BY <1>1, <2>1, <2>2, <2>3, <2>4, LeavingIsFine
<1>5. PICK applied : applied = TRUE OBVIOUS
<1>6. CASE /\ journal' = Marked
           /\ task' = [task EXCEPT ![p].at = "clean", ![p].applied = TRUE]
           /\ UNCHANGED lock
  <2>1. applied \in BOOLEAN /\ Commits(p, "clean", applied) BY <1>5, <1>6 DEF Commits
  <2>2. /\ OnlyTask(p) /\ task'[p].at = "clean" /\ task'[p].op = task[p].op
        /\ task'[p].applied = applied
    BY <1>2, <2>1, TaskCommits
  <2> QED BY <1>1, <1>5, <1>6, <2>2, CommittingIsFine
<1>7. CASE /\ journal' = Marked
           /\ task' = [task EXCEPT ![p].at = "left", ![p].applied = TRUE, ![p].result = "error"]
  <2>1. applied \in BOOLEAN /\ LeavesApplied(p, "left", applied, "error")
    BY <1>5, <1>7 DEF LeavesApplied
  <2>2. /\ OnlyTask(p) /\ task'[p].at = "left" /\ task'[p].op = task[p].op
        /\ task'[p].applied = applied /\ task'[p].result = "error"
    BY <1>2, <2>1, TaskLeavesApplied
  <2> QED BY <1>1, <1>5, <1>7, <2>2, CommittingIsFine
<1> QED BY <1>3, <1>4, <1>6, <1>7 DEF CannotCommit

LEMMA CleaningIsFine ==
    ASSUME Stepping, NEW p \in Processes, task[p].at = "clean", files' = files,
           journal' = journal \/ journal' = Nothing,
           NEW result \in {"done", "error"}, Leaves(p, "left", result)
    PROVE  IInv' /\ Simulated
<1>1. /\ ProcessOK(p) /\ StoreOK(files) /\ Files = Documents /\ JournalOK /\ Setting
  BY DEF Stepping, IInv, Setting
<1>2. Whole(p) /\ task[p].applied /\ ~Unfinished /\ task[p].at \in Busy
  BY <1>1 DEF ProcessOK, Busy
<1>3. Reports(p, result) BY <1>2 DEF Reports
<1>4. Images = {} BY <1>2 DEF Images
<1>5. Base = files BY <1>1, <1>4, BaseWithoutImages
<1>6. StoreOK(files)' BY <1>1 DEF StoreOK
<1>7. Base' = Base /\ JournalOK'
  <2>1. CASE journal' = journal BY <1>1, <2>1, SameBase DEF JournalOK
  <2>2. CASE journal' = Nothing BY <1>1, <1>5, <1>6, <2>2, BaseAfter
  <2> QED BY <2>1, <2>2
<1> QED BY <1>2, <1>3, <1>7, LeavingIsFine

LEMMA CleanIsFine ==
    ASSUME Stepping, NEW p \in Processes, Clean(p)
    PROVE  IInv' /\ Simulated
<1>1. /\ task[p].at = "clean" /\ files' = files /\ journal' = Nothing
      /\ Leaves(p, "left", "done")
  BY DEF Clean, Leave, Leaves, At
<1> QED BY <1>1, CleaningIsFine

LEMMA CannotCleanIsFine ==
    ASSUME Stepping, NEW p \in Processes, CannotClean(p)
    PROVE  IInv' /\ Simulated
<1>1. task[p].at = "clean" /\ files' = files /\ Leaves(p, "left", "error")
  BY DEF CannotClean, Leave, Leaves, At
<1>2. journal' = journal \/ journal' = Nothing BY DEF CannotClean
<1> QED BY <1>1, <1>2, CleaningIsFine

LEMMA StorageStepIsFine ==
    ASSUME Stepping, NEW p \in Processes, StorageStep(p)
    PROVE  IInv' /\ Simulated
<1>1. CASE Enter(p) BY <1>1, EnterIsFine
<1>2. CASE Restore(p) BY <1>2, RestoreIsFine
<1>3. CASE Restored(p)
  <2>1. task[p].at \in {"recover", "rollback"} BY <1>3 DEF Restored, At
  <2> QED BY <1>3, <2>1, RestoredIsFine
<1>4. CASE CannotRestore(p) BY <1>4, CannotRestoreIsFine
<1>5. CASE Begin(p) BY <1>5, BeginIsFine
<1>6. CASE CannotBegin(p) BY <1>6, CannotBeginIsFine
<1>7. CASE Plan(p) BY <1>7, PlanIsFine
<1>8. CASE Refuse(p) BY <1>8, RefuseIsFine
<1>9. CASE Record(p) BY <1>9, RecordIsFine
<1>10. CASE CannotRecord(p) BY <1>10, CannotRecordIsFine
<1>11. CASE Write(p) BY <1>11, WriteIsFine
<1>12. CASE CannotWrite(p) BY <1>12, CannotWriteIsFine
<1>13. CASE Return(p) BY <1>13, ReturnIsFine
<1>14. CASE Commit(p) BY <1>14, CommitIsFine
<1>15. CASE CannotCommit(p) BY <1>15, CannotCommitIsFine
<1>16. CASE Clean(p) BY <1>16, CleanIsFine
<1>17. CASE CannotClean(p) BY <1>17, CannotCleanIsFine
<1> QED
  BY <1>1, <1>2, <1>3, <1>4, <1>5, <1>6, <1>7, <1>8, <1>9, <1>10, <1>11, <1>12, <1>13,
     <1>14, <1>15, <1>16, <1>17 DEF StorageStep

-----------------------------------------------------------------------------
(* The other steps                                                           *)

LEMMA DatabasesLoseNothing ==
    ASSUME IInv, Recalls, Transactional, journal' = Nothing
    PROVE  lost' = FALSE
<1>1. /\ lost = FALSE /\ journal = Nothing
      /\ \A p \in Processes : task[p].at # "write"
  BY DEF IInv, DatabaseOK, Busy
<1>2. ~Unfinished' BY DEF Unfinished
<1>3. \A p \in Processes : ~Writing(p) BY <1>1 DEF Writing, At
<1>4. ~Loses BY <1>2, <1>3 DEF Loses
<1> QED BY <1>1, <1>4 DEF Recalls

(* SQLite: one transaction.                                                  *)
LEMMA TransactIsFine ==
    ASSUME IInv, Setting, Recalls, Transactional, engine' = engine,
           NEW p \in Processes, Transact(p)
    PROVE  IInv' /\ Simulated
<1>1. /\ task[p].at = "wait" /\ lock = Free /\ journal' = journal
  BY DEF Transact, At
<1>2. PICK plan \in Plans(task[p].op, files) :
         IF Denied(plan)
         THEN Leave(p, Reason(plan)) /\ UNCHANGED <<files, faults>>
         ELSE \/ /\ files' = After(plan, Len(plan), files)
                 /\ \/ task' = [task EXCEPT ![p].at = "left", ![p].applied = Whole(p),
                                            ![p].result = "done"]
                    \/ task' = [task EXCEPT ![p].at = "left", ![p].applied = Whole(p),
                                            ![p].result = "error"]
              \/ Leave(p, "error") /\ UNCHANGED files
  BY DEF Transact
<1>3. /\ Tasks /\ Engines /\ StoreOK(files) /\ ProcessOK(p) /\ Files = Documents
      /\ journal = Nothing /\ \A q \in Processes : task[q].at \notin Busy
  BY DEF IInv, DatabaseOK, Setting
<1>4. ~task[p].applied /\ OpFits(task[p].op) /\ OpOK(task[p].op)
  BY <1>1, <1>3 DEF ProcessOK, Tasks, OpFits
<1>5. plan \in AllPlans(task[p].op, files) BY <1>2 DEF Setting
<1>6. PlanOK(plan, Closed(files))
  <2>1. Nothing \notin Documents BY <1>3, StorageAssumption
  <2> QED BY <1>3, <1>4, <1>5, <2>1, AllPlansAreOK
<1>7. IsSeq(plan) /\ Len(plan) \in Nat /\ Len(plan) \in 0..Len(plan) BY <1>6 DEF PlanOK, IsSeq
<1>8. Base = files BY <1>3, NoJournal, BaseWithoutImages
<1>9. StoreOK(files)' => Base' = files' /\ JournalOK'
  BY <1>1, <1>3, BaseAfter
<1>10. ASSUME OnlyTask(p), task'[p].at = "left", StoreOK(files)' PROVE IInv'
  <2>1. \A q \in Processes \ {p} : task'[q] = task[q] BY <1>10 DEF OnlyTask
  <2>2. \A q \in Processes : task'[q].at \notin Busy BY <1>3, <1>10, <2>1 DEF Busy
  <2>3. ProcessOK(p)' BY <1>10 DEF ProcessOK, Busy
  <2>4. \A q \in Processes \ {p} : ProcessOK(q)' BY <1>1, <1>10, OthersAreOK
  <2>5. Engines' BY <1>3 DEF Engines
  <2>6. lost' = FALSE BY <1>1, <1>3, DatabasesLoseNothing
  <2>7. DatabaseOK' BY <1>1, <1>3, <2>2, <2>6 DEF DatabaseOK
  <2>8. Tasks' BY <1>10 DEF OnlyTask
  <2> QED BY <1>9, <1>10, <2>3, <2>4, <2>5, <2>6, <2>7, <2>8 DEF IInv
<1>11. ASSUME NEW result, Reports(p, result), Leaves(p, "left", result), files' = files
       PROVE  IInv' /\ Simulated
  <2>1. /\ OnlyTask(p) /\ task'[p].at = "left" /\ task'[p].result = result
        /\ task'[p].op = task[p].op /\ task'[p].applied = task[p].applied
    BY <1>3, <1>11, TaskLeaves
  <2>2. Base' = Base BY <1>1, <1>11, SameBase
  <2>3. IInv' BY <1>3, <1>10, <1>11, <2>1
  <2>4. task[p].at # "left" BY <1>1
  <2>5. Simulated BY <1>11, <2>1, <2>2, <2>4, LeavingIsSeen
  <2> QED BY <2>3, <2>5
<1>12. CASE Denied(plan)
  <2>1. PICK i \in 1..Len(plan) : i = CHOOSE j \in DOMAIN plan : plan[j].failing = "denied"
    BY <1>7, <1>12 DEF Denied, IsSeq
  <2>2. plan[i].failing = "denied"
    BY <1>7, <1>12, <2>1 DEF Denied, IsSeq
  <2>3. PICK result : result = Reason(plan) OBVIOUS
  <2>4. result \in {"rejected", "changed"} BY <1>6, <2>1, <2>2, <2>3 DEF Reason, PlanOK, WriteOK
  <2>5. Reports(p, result) BY <1>4, <2>4 DEF Reports
  <2>6. Leaves(p, "left", result) /\ files' = files BY <1>2, <1>12, <2>3 DEF Leave, Leaves
  <2> QED BY <1>11, <2>5, <2>6
<1>13. CASE ~Denied(plan) /\ Leave(p, "error") /\ files' = files
  <2>1. Reports(p, "error") BY DEF Reports
  <2>2. Leaves(p, "left", "error") BY <1>13 DEF Leave, Leaves
  <2> QED BY <1>11, <1>13, <2>1, <2>2
<1>14. ASSUME ~Denied(plan), files' = After(plan, Len(plan), files),
              NEW result \in {"done", "error"},
              task' = [task EXCEPT ![p].at = "left", ![p].applied = Whole(p),
                                   ![p].result = result]
       PROVE  IInv' /\ Simulated
  <2>1. PICK whole : whole = Whole(p) OBVIOUS
  <2>2. whole \in BOOLEAN BY <1>4, <2>1 DEF OpFits, Whole
  <2>3. LeavesApplied(p, "left", whole, result) BY <1>14, <2>1 DEF LeavesApplied
  <2>4. /\ OnlyTask(p) /\ task'[p].at = "left" /\ task'[p].op = task[p].op
        /\ task'[p].applied = whole /\ task'[p].result = result
    BY <1>3, <2>2, <2>3, TaskLeavesApplied
  <2>5. StoreOK(files)'
    <3>1. StoreOK(After(plan, Len(plan), files)) BY <1>3, <1>6, <1>7, AfterFits
    <3>2. PICK fs : fs = After(plan, Len(plan), files) OBVIOUS
    <3>3. files' = fs /\ StoreOK(fs) BY <1>14, <3>1, <3>2
    <3> QED BY <3>3 DEF StoreOK
  <2>6. Base' = files' BY <1>9, <2>5
  <2>7. IInv' BY <1>10, <2>4, <2>5
  <2>8. PICK op : op = task[p].op OBVIOUS
  <2>9. PICK found : found = IF op.whole THEN [op EXCEPT !.seen = <<>>] ELSE op OBVIOUS
  <2>10. PICK base : base = files OBVIOUS
  <2>a. \A i \in 1..Len(plan) : plan[i].failing # "denied" BY <1>7, <1>14 DEF Denied, IsSeq
  <2>11. plan \in AllPlans(found, base)
    <3>1. OpFits(op) /\ plan \in AllPlans(op, base) BY <1>4, <1>5, <2>8, <2>10
    <3> QED BY <1>7, <2>9, <2>a, <3>1, FrozenReadsDoNotMatter
  <2>12. Without(plan, {}) = plan /\ {} \in SUBSET Ignored(plan) BY <1>7, WithoutNone
  <2>13. Written(plan, base) \in Outcomes(op, base)
    BY <1>14, <2>9, <2>11, <2>12 DEF Outcomes
  <2>14. Base' \in Outcomes(task[p].op, Base)
    BY <1>8, <1>14, <2>6, <2>8, <2>10, <2>13 DEF Written
  <2>15. \A q \in Processes \ {p} : task'[q] = task[q] BY <2>4 DEF OnlyTask
  <2>16. CASE whole
    <3>1. Answered(task'[p]) \in {"done", "error"} BY <1>14, <2>1, <2>4, <2>16 DEF Answered, Whole
    <3>2. Remaining(task'[p]) = Remaining(task[p]) BY <1>1, <2>4 DEF Remaining
    <3>3. \A q \in Processes \ {p} : task'[q] = task[q] /\ Remaining(task[q]) = <<>>
      BY <2>15, OthersAreDone
    <3>4. task[p].op.whole BY <2>1, <2>16 DEF Whole
    <3>5. Simulated BY <1>4, <2>2, <2>4, <2>14, <2>16, <3>1, <3>2, <3>3, <3>4, SeenAsApply
    <3> QED BY <2>7, <3>5
  <2>17. CASE ~whole
    <3>1. task[p].applied = FALSE /\ task'[p].applied = FALSE
      BY <1>3, <1>4, <2>2, <2>4, <2>17 DEF Tasks
    <3>2. ASSUME NEW q \in Processes PROVE Looks(task[q], task'[q])
      BY <1>1, <2>1, <2>4, <2>15, <2>17, <3>1, <3>2 DEF Looks, Answered, Remaining, Whole
    <3>3. ~task[p].op.whole /\ Base["receipts"] # Absent
      BY <1>8, <2>1, <2>17 DEF Whole, Transactional
    <3>4. Simulated BY <2>14, <3>2, <3>3, SeenAsTransact
    <3> QED BY <2>7, <3>4
  <2> QED BY <2>16, <2>17
<1> QED BY <1>2, <1>12, <1>13, <1>14

Resting(at, op, result) ==
    [at |-> at, op |-> op, plan |-> <<>>, done |-> 0, again |-> FALSE, undo |-> 0,
     applied |-> FALSE, result |-> result]

LEMMA RestingTasks ==
    /\ Idle = Resting("idle", NoOp, "none")
    /\ [Idle EXCEPT !.at = "down"] = Resting("down", NoOp, "none")
    /\ \A op : [Idle EXCEPT !.at = "wait", !.op = op] = Resting("wait", op, "none")
    /\ \A op : [Idle EXCEPT !.at = "left", !.op = op, !.result = "done"]
                 = Resting("left", op, "done")
<1>1. Idle = Resting("idle", NoOp, "none") BY DEF Idle, Resting
<1>2. ASSUME NEW at, NEW op, NEW result, NEW x, NEW y, NEW z
      PROVE  /\ [Resting(at, op, result) EXCEPT !.at = x] = Resting(x, op, result)
             /\ [Resting(at, op, result) EXCEPT !.op = y] = Resting(at, y, result)
             /\ [Resting(at, op, result) EXCEPT !.result = z] = Resting(at, op, z)
  <2>1. PICK none, no : none = <<>> /\ no = FALSE OBVIOUS
  <2>2. \A a, b, c : Resting(a, b, c) =
           [at |-> a, op |-> b, plan |-> none, done |-> 0, again |-> no, undo |-> 0,
            applied |-> no, result |-> c]
    BY <2>1 DEF Resting
  <2>3. PICK r : r = [at |-> at, op |-> op, plan |-> none, done |-> 0, again |-> no,
                      undo |-> 0, applied |-> no, result |-> result]
    OBVIOUS
  <2>4. r = Resting(at, op, result) BY <2>2, <2>3
  <2>5. [r EXCEPT !.at = x] = Resting(x, op, result)
    <3>1. PICK u : u = [at |-> x, op |-> op, plan |-> none, done |-> 0, again |-> no,
                      undo |-> 0, applied |-> no, result |-> result]
      OBVIOUS
    <3>2. [r EXCEPT !.at = x] = u BY <2>3, <3>1
    <3> QED BY <2>2, <3>1, <3>2
  <2>6. [r EXCEPT !.op = y] = Resting(at, y, result)
    <3>1. PICK u : u = [at |-> at, op |-> y, plan |-> none, done |-> 0, again |-> no,
                      undo |-> 0, applied |-> no, result |-> result]
      OBVIOUS
    <3>2. [r EXCEPT !.op = y] = u BY <2>3, <3>1
    <3> QED BY <2>2, <3>1, <3>2
  <2>7. [r EXCEPT !.result = z] = Resting(at, op, z)
    <3>1. PICK u : u = [at |-> at, op |-> op, plan |-> none, done |-> 0, again |-> no,
                      undo |-> 0, applied |-> no, result |-> z]
      OBVIOUS
    <3>2. [r EXCEPT !.result = z] = u BY <2>3, <3>1
    <3> QED BY <2>2, <3>1, <3>2
  <2> QED BY <2>4, <2>5, <2>6, <2>7
<1>3. PICK idle, noop : idle = Idle /\ noop = NoOp OBVIOUS
<1>4. [Idle EXCEPT !.at = "down"] = Resting("down", NoOp, "none")
  BY <1>1, <1>2
<1>5. ASSUME NEW op PROVE [Idle EXCEPT !.at = "wait", !.op = op] = Resting("wait", op, "none")
  <2>1. PICK waiting : waiting = [idle EXCEPT !.at = "wait"] OBVIOUS
  <2>2. waiting = Resting("wait", noop, "none") BY <1>1, <1>2, <1>3, <2>1
  <2>3. [waiting EXCEPT !.op = op] = Resting("wait", op, "none") BY <1>2, <2>2
  <2>4. [idle EXCEPT !.at = "wait", !.op = op] = [[idle EXCEPT !.at = "wait"] EXCEPT !.op = op]
    OBVIOUS
  <2> QED BY <1>3, <2>1, <2>3, <2>4
<1>6. ASSUME NEW op
      PROVE  [Idle EXCEPT !.at = "left", !.op = op, !.result = "done"] = Resting("left", op, "done")
  <2>1. PICK there : there = [idle EXCEPT !.at = "left"] OBVIOUS
  <2>2. there = Resting("left", noop, "none") BY <1>1, <1>2, <1>3, <2>1
  <2>3. PICK asked : asked = [there EXCEPT !.op = op] OBVIOUS
  <2>4. asked = Resting("left", op, "none") BY <1>2, <2>2, <2>3
  <2>5. [asked EXCEPT !.result = "done"] = Resting("left", op, "done") BY <1>2, <2>4
  <2>6. [idle EXCEPT !.at = "left", !.op = op, !.result = "done"]
          = [[[idle EXCEPT !.at = "left"] EXCEPT !.op = op] EXCEPT !.result = "done"]
    OBVIOUS
  <2> QED BY <1>3, <2>1, <2>3, <2>5, <2>6
<1> QED BY <1>1, <1>4, <1>5, <1>6

(* A process that asks for something, dies or is told.                       *)
LEMMA AskingIsFine ==
    ASSUME IInv, Recalls, NEW p \in Processes, files' = files, Engines',
           \/ journal' = journal /\ lock' = lock
           \/ /\ lock = p /\ JournalOK'
              /\ journal' = journal \/ Loses
              /\ journal = Nothing => journal' = Nothing,
           NEW at \in {"idle", "down", "wait", "left"}, NEW op, NEW result, OpFits(op),
           at = "left" => ~op.whole,
           task' = [task EXCEPT ![p] = Resting(at, op, result)]
    PROVE  IInv' /\ Simulated
<1>1. /\ StoreOK(files) /\ Tasks /\ JournalOK /\ DatabaseOK BY DEF IInv
<1>2. PICK u : u = Resting(at, op, result) OBVIOUS
<1>3. u.at = at /\ u.op = op /\ u.result = result /\ u.applied = FALSE /\ u.done = 0
  BY <1>2 DEF Resting
<1>4. IsTask(u)
  BY <1>2 DEF IsTask, Resting
<1>5. task' = [task EXCEPT ![p] = u] BY <1>2
<1>6. OnlyTask(p) /\ task'[p] = u BY <1>1, <1>3, <1>4, <1>5, TaskReplaced
<1>7. \A q \in Processes \ {p} : ProcessOK(q)' BY <1>6, OthersAreOK
<1>8. ProcessOK(p)' BY <1>3, <1>6 DEF ProcessOK, Busy
<1>9. lost' \/ Base' = Base BY SameBase DEF Recalls
<1>10. StoreOK(files)' /\ JournalOK' BY <1>1 DEF StoreOK, JournalOK
<1>11. Tasks' BY <1>6 DEF OnlyTask
<1>12. DatabaseOK'
  <2>1. SUFFICES ASSUME Transactional PROVE DatabaseOK'
    BY DEF DatabaseOK, Transactional
  <2>2. journal = Nothing /\ \A q \in Processes : task[q].at \notin Busy
    BY <1>1, <2>1 DEF DatabaseOK
  <2>3. journal' = Nothing BY <2>2
  <2>4. lost' = FALSE BY <2>1, <2>3, DatabasesLoseNothing
  <2>5. task'[p].at \notin Busy BY <1>3, <1>6 DEF Busy
  <2>6. \A q \in Processes \ {p} : task'[q] = task[q] BY <1>6 DEF OnlyTask
  <2> QED BY <2>2, <2>3, <2>4, <2>5, <2>6 DEF DatabaseOK
<1>a. lost' \in BOOLEAN BY DEF Recalls
<1>13. IInv' BY <1>7, <1>8, <1>10, <1>11, <1>12, <1>a DEF IInv
<1>14. CASE Base' = Base
  <2>1. ~task'[p].applied /\ task'[p].applied \in BOOLEAN BY <1>3, <1>6
  <2>2. Answered(task'[p]) = "none" BY <1>3, <1>6 DEF Answered
  <2>3. Remaining(task'[p]) = <<>> BY <1>3, <1>6 DEF Remaining
  <2>4. \A q \in Processes \ {p} : task'[q] = task[q] BY <1>6 DEF OnlyTask
  <2>5. Simulated BY <1>14, <2>1, <2>2, <2>3, <2>4, SeenAsAsk
  <2> QED BY <1>13, <2>5
<1>15. CASE lost' BY <1>13, <1>15 DEF Simulated
<1> QED BY <1>9, <1>14, <1>15

(* A step of the engine alone.                                               *)
LEMMA EngineStepIsFine ==
    ASSUME IInv, Recalls, files' = files, journal' = journal, lock' = lock, task' = task,
           Engines'
    PROVE  IInv' /\ Simulated
<1>1. Base' = Base /\ Unfinished' = Unfinished /\ Recorded' = Recorded BY SameBase
<1>2. ASSUME NEW q \in Processes PROVE ProcessOK(q)'
  <2>1. ProcessOK(q) BY DEF IInv
  <2>2. WritingOK(q) => WritingOK(q)'
    <3>1. Progress(q)' = Progress(q) BY <1>1 DEF Progress, NextWrite
    <3> QED BY <1>1, <3>1 DEF WritingOK, Whole, Recalls
  <2>3. RestoringOK(q) => RestoringOK(q)' BY <1>1 DEF RestoringOK
  <2>4. task'[q] = task[q] /\ Whole(q)' = Whole(q) BY DEF Whole
  <2>5. UNCHANGED <<files, journal, lock>> OBVIOUS
  <2>6. task'[q] = task[q] /\ ProcessOK(q) BY <2>1
  <2> QED BY <1>1, <2>2, <2>3, <2>5, <2>6 DEF ProcessOK, Whole
<1>3. DatabaseOK'
  <2>1. SUFFICES ASSUME Transactional PROVE DatabaseOK'
    BY DEF DatabaseOK, Transactional
  <2>2. journal = Nothing /\ DatabaseOK BY <2>1 DEF IInv, DatabaseOK
  <2>3. lost' = FALSE BY <2>1, <2>2, DatabasesLoseNothing
  <2> QED BY <2>1, <2>2, <2>3 DEF DatabaseOK
<1>4. lost' \in BOOLEAN BY DEF Recalls
<1>5. IInv' BY <1>2, <1>3, <1>4 DEF IInv, StoreOK, Tasks, JournalOK
<1>6. \A q \in Processes : Looks(task[q], task'[q]) BY DEF Looks
<1>7. Simulated BY <1>1, <1>6, SeenAsNothing
<1> QED BY <1>5, <1>7

LEMMA EngineMoves ==
    ASSUME Engines, NEW p \in Processes, NEW e, IsEngine(e),
           engine' = [engine EXCEPT ![p] = e]
    PROVE  Engines'
<1>1. engine' = [q \in Processes |-> IF q = p THEN e ELSE engine[q]] BY DEF Engines
<1>2. \A q \in Processes : engine'[q] = IF q = p THEN e ELSE engine[q] BY <1>1
<1> QED BY <1>1, <1>2 DEF Engines

LEMMA AwayFromImport ==
    /\ IsEngine([at |-> "idle"]) /\ IsEngine([at |-> "waiting"]) /\ IsEngine([at |-> "opening"])
    /\ \A e : "at" \in DOMAIN e => IsEngine([e EXCEPT !.at = "export turns"])
    /\ \A a : IsEngine([at |-> "export", nodes |-> a])
    /\ \A a, b, c : IsEngine([at |-> "assemble", nodes |-> a, turns |-> b, ledger |-> c])
    /\ \A a, b : IsEngine([at |-> "export guard", nodes |-> a, rel |-> b])
    /\ \A a, b, c : IsEngine([at |-> "export ledger", nodes |-> a, rel |-> b, turns |-> c])
BY DEF IsEngine, Importing

LEMMA ImportMoves ==
    /\ \A pack \in Packs : \A over \in BOOLEAN : \A guard :
          IsEngine([at |-> "import", pack |-> pack, over |-> over, guard |-> guard, tries |-> 1])
    /\ \A e : \A at \in Importing :
          IsEngine(e) /\ e.at \in Importing => IsEngine([e EXCEPT !.at = at])
    /\ \A e, n, guard : IsEngine(e) /\ e.at \in Importing
          => IsEngine([e EXCEPT !.at = "import", !.tries = n, !.guard = guard])
<1>1. ASSUME NEW pack \in Packs, NEW over \in BOOLEAN, NEW guard
      PROVE  IsEngine([at |-> "import", pack |-> pack, over |-> over, guard |-> guard,
                       tries |-> 1])
  BY DEF IsEngine
<1>2. ASSUME NEW e, NEW at \in Importing, IsEngine(e), e.at \in Importing
      PROVE  IsEngine([e EXCEPT !.at = at])
  <2>1. PICK a, b, c, d, t : e = [at |-> a, pack |-> b, over |-> c, guard |-> d, tries |-> t]
    BY <1>2 DEF IsEngine
  <2>2. b \in Packs /\ c \in BOOLEAN BY <1>2, <2>1 DEF IsEngine
  <2>3. [e EXCEPT !.at = at] = [at |-> at, pack |-> b, over |-> c, guard |-> d, tries |-> t]
    BY <2>1
  <2> QED BY <2>2, <2>3 DEF IsEngine
<1>3. ASSUME NEW e, NEW n, NEW guard, IsEngine(e), e.at \in Importing
      PROVE  IsEngine([e EXCEPT !.at = "import", !.tries = n, !.guard = guard])
  <2>1. PICK a, b, c, d, t : e = [at |-> a, pack |-> b, over |-> c, guard |-> d, tries |-> t]
    BY <1>3 DEF IsEngine
  <2>2. b \in Packs /\ c \in BOOLEAN BY <1>3, <2>1 DEF IsEngine
  <2>3. [e EXCEPT !.at = "import", !.tries = n, !.guard = guard]
          = [at |-> "import", pack |-> b, over |-> c, guard |-> guard, tries |-> n]
    <3>1. PICK e1 : e1 = [at |-> "import", pack |-> b, over |-> c, guard |-> d, tries |-> t]
      OBVIOUS
    <3>2. PICK e2 : e2 = [at |-> "import", pack |-> b, over |-> c, guard |-> d, tries |-> n]
      OBVIOUS
    <3>3. [e EXCEPT !.at = "import"] = e1 BY <2>1, <3>1
    <3>4. [e1 EXCEPT !.tries = n] = e2 BY <3>1, <3>2
    <3>5. [e2 EXCEPT !.guard = guard]
            = [at |-> "import", pack |-> b, over |-> c, guard |-> guard, tries |-> n]
      BY <3>2
    <3>6. [e EXCEPT !.at = "import", !.tries = n, !.guard = guard]
            = [[[e EXCEPT !.at = "import"] EXCEPT !.tries = n] EXCEPT !.guard = guard]
      OBVIOUS
    <3> QED BY <3>3, <3>4, <3>5, <3>6
  <2> QED BY <2>2, <2>3 DEF IsEngine
<1> QED BY <1>1, <1>2, <1>3

LEMMA PlainOpFits ==
    ASSUME NEW op, op.kind # "import", op.whole = FALSE,
           op.kind \in {"create", "approve"} => op.rel # Absent,
           op.kind = "decide" => op.to = "revoked" \/ op.expected = "pending",
           op.kind = "approve" => op.rev \in Nat \ {0}
    PROVE  OpFits(op) /\ ~op.whole
BY DEF OpFits, OpOK

(* A call that is one storage call of a plain method.                        *)
LEMMA SubmitIsFine ==
    ASSUME IInv, Recalls, NEW p \in Processes, Submit(p), NEW op, op.kind # "import", op.whole = FALSE,
           op.kind \in {"create", "approve"} => op.rel # Absent,
           op.kind = "decide" => op.to = "revoked" \/ op.expected = "pending",
           op.kind = "approve" => op.rev \in Nat \ {0}, Call(p, op)
    PROVE  IInv' /\ Simulated
<1>1. /\ files' = files /\ journal' = journal /\ lock' = lock
      /\ engine' = [engine EXCEPT ![p] = [at |-> "waiting"]]
  BY DEF Submit, Start
<1>2. task' = [task EXCEPT ![p] = Resting("wait", op, "none")]
  BY RestingTasks DEF Call
<1>3. Engines' BY <1>1, AwayFromImport, EngineMoves DEF IInv
<1>4. OpFits(op) BY PlainOpFits
<1> QED BY <1>1, <1>2, <1>3, <1>4, AskingIsFine

LEMMA InitializeIsFine ==
    ASSUME IInv, Recalls, NEW p \in Processes, InitializeRelationship(p)
    PROVE  IInv' /\ Simulated
<1>1. PICK op : op = [kind |-> "create", whole |-> FALSE,
                      rel |-> IF files["profile"].rel = Absent THEN p
                              ELSE files["profile"].rel]
  OBVIOUS
<1>2. op.kind = "create" /\ op.whole = FALSE /\ op.rel # Absent
  BY <1>1, NamesAssumption DEF Relationships
<1>3. Submit(p) BY DEF InitializeRelationship
<1>4. CASE files["profile"].rel = Absent
  <2>1. Call(p, op) BY <1>1, <1>4 DEF InitializeRelationship
  <2> QED BY <1>2, <1>3, <2>1, SubmitIsFine
<1>5. CASE files["profile"].rel # Absent
  <2>1. task' = [task EXCEPT ![p] = [Idle EXCEPT !.at = "left", !.op = op, !.result = "done"]]
    BY <1>1, <1>5 DEF InitializeRelationship
  <2>2. task' = [task EXCEPT ![p] = Resting("left", op, "done")] BY <2>1, RestingTasks
  <2>3. /\ files' = files /\ journal' = journal /\ lock' = lock
        /\ engine' = [engine EXCEPT ![p] = [at |-> "waiting"]]
    BY <1>3 DEF Submit, Start
  <2>4. Engines' BY <2>3, AwayFromImport, EngineMoves DEF IInv
  <2>5. OpFits(op) /\ ~op.whole BY <1>2, PlainOpFits
  <2> QED BY <2>2, <2>3, <2>4, <2>5, AskingIsFine
<1> QED BY <1>4, <1>5

(* A process that is done with its call.                                     *)
LEMMA IdlingIsFine ==
    ASSUME IInv, Recalls, NEW p \in Processes, files' = files, Engines',
           \/ journal' = journal /\ lock' = lock
           \/ /\ lock = p /\ JournalOK'
              /\ journal' = journal \/ Loses
              /\ journal = Nothing => journal' = Nothing,
           NEW at \in {"idle", "down"},
           task' = [task EXCEPT ![p] = Resting(at, NoOp, "none")]
    PROVE  IInv' /\ Simulated
<1>1. OpFits(NoOp) BY DEF NoOp, OpFits, OpOK
<1>2. at \in {"idle", "down", "wait", "left"} /\ at # "left" OBVIOUS
<1>3. PICK noop : noop = NoOp OBVIOUS
<1>4. OpFits(noop) /\ task' = [task EXCEPT ![p] = Resting(at, noop, "none")] BY <1>1, <1>3
<1> QED BY <1>2, <1>4, AskingIsFine

LEMMA AgainMoves ==
    ASSUME Engines, NEW p \in Processes, Again(p), engine[p].at \in Importing
    PROVE  Engines'
<1>1. CASE engine[p].tries = 4
  <2>1. engine' = [engine EXCEPT ![p] = [at |-> "idle"]] BY <1>1 DEF Again, Step
  <2> QED BY <2>1, AwayFromImport, EngineMoves
<1>2. CASE engine[p].tries # 4
  <2>1. PICK old : old = engine[p] OBVIOUS
  <2>2. PICK n : n = engine[p].tries + 1 OBVIOUS
  <2>3. PICK guard : guard = GuardFor(engine[p].pack) OBVIOUS
  <2>4. engine' = [engine EXCEPT ![p] =
                     [old EXCEPT !.at = "import", !.tries = old.tries + 1, !.guard = guard]]
    BY <1>2, <2>1, <2>3 DEF Again, Step
  <2>5. PICK new : new = [old EXCEPT !.at = "import", !.tries = n, !.guard = guard] OBVIOUS
  <2>6. engine' = [engine EXCEPT ![p] = new] BY <2>1, <2>2, <2>4, <2>5
  <2>7. IsEngine(new) BY <2>1, <2>5, ImportMoves DEF Engines
  <2> QED BY <2>6, <2>7, EngineMoves
<1> QED BY <1>1, <1>2

LEMMA PreflightIsFine ==
    ASSUME IInv, Recalls, NEW p \in Processes, Preflight(p)
    PROVE  IInv' /\ Simulated
<1>1. /\ engine[p].at = "checked" /\ files' = files /\ journal' = journal /\ lock' = lock
      /\ Tasks /\ Engines
  BY DEF Preflight, IInv
<1>2. CASE engine' = [engine EXCEPT ![p] = [at |-> "idle"]] /\ task' = task
  <2>1. Engines' BY <1>1, <1>2, AwayFromImport, EngineMoves
  <2> QED BY <1>1, <1>2, <2>1, EngineStepIsFine
<1>3. PICK op : op = [kind |-> "import", whole |-> TRUE, pack |-> engine[p].pack,
                      over |-> engine[p].over, guard |-> engine[p].guard, fresh |-> p,
                      seen |-> [f \in Observed(engine[p].pack) |-> files[f]]]
  OBVIOUS
<1>4. CASE Call(p, op) /\ engine' = [engine EXCEPT ![p] = [engine[p] EXCEPT !.at = "importing"]]
  <2>1. task' = [task EXCEPT ![p] = Resting("wait", op, "none")]
    BY <1>4, RestingTasks DEF Call
  <2>2. PICK old : old = engine[p] OBVIOUS
  <2>3. PICK new : new = [old EXCEPT !.at = "importing"] OBVIOUS
  <2>4. IsEngine(old) /\ old.at \in Importing BY <1>1, <2>2 DEF Engines, Importing
  <2>a. "importing" \in Importing BY DEF Importing
  <2>5. IsEngine(new) BY <2>3, <2>4, <2>a, ImportMoves
  <2>6. engine' = [engine EXCEPT ![p] = new] BY <1>4, <2>2, <2>3
  <2>7. Engines' BY <1>1, <2>5, <2>6, EngineMoves
  <2>8. OpFits(op)
    <3>1. old.pack \in Packs /\ old.over \in BOOLEAN BY <2>4 DEF IsEngine
    <3>2. op.pack \in Packs /\ op.over \in BOOLEAN BY <1>3, <2>2, <3>1
    <3>3. op.whole = TRUE /\ op.kind = "import" /\ op.fresh = p
          /\ op = [kind |-> "import", whole |-> TRUE, pack |-> op.pack,
                                   over |-> op.over, guard |-> op.guard, fresh |-> op.fresh,
                                   seen |-> op.seen]
      BY <1>3
    <3> QED BY <3>2, <3>3 DEF OpFits, OpOK
  <2> QED BY <1>1, <2>1, <2>7, <2>8, AskingIsFine
<1> QED BY <1>2, <1>3, <1>4, Zenon DEF Preflight, Step

LEMMA MemoryStepIsFine ==
    ASSUME IInv, Recalls, NEW p \in Processes, MemoryStep(p)
    PROVE  IInv' /\ Simulated
<1> USE DEF EngineOnly
<1>0. Tasks /\ Engines BY DEF IInv
<1>a. ASSUME NEW e, IsEngine(e), engine' = [engine EXCEPT ![p] = e],
             files' = files, journal' = journal, lock' = lock, task' = task
      PROVE  IInv' /\ Simulated
  <2>1. Engines' BY <1>0, <1>a, EngineMoves
  <2> QED BY <1>a, <2>1, EngineStepIsFine
<1>1. CASE InitializeRelationship(p) BY <1>1, InitializeIsFine
<1>2. ASSUME NEW id \in TurnIds, NEW text \in Texts, BeginTurn(p, id, text)
      PROVE  IInv' /\ Simulated
  <2>1. PICK op : op = [kind |-> "turn", whole |-> FALSE, rel |-> files["profile"].rel,
                        turn |-> [id |-> id, text |-> text]]
    OBVIOUS
  <2>2. op.kind \notin {"import", "create", "approve", "decide"} /\ op.whole = FALSE BY <2>1
  <2>3. Submit(p) /\ Call(p, op) BY <1>2, <2>1 DEF BeginTurn
  <2> QED BY <2>2, <2>3, SubmitIsFine
<1>3. ASSUME NEW id \in TurnIds, Archive(p, id) PROVE IInv' /\ Simulated
  <2>1. PICK op : op = [kind |-> "archive", whole |-> FALSE, id |-> id] OBVIOUS
  <2>2. op.kind \notin {"import", "create", "approve", "decide"} /\ op.whole = FALSE BY <2>1
  <2>3. Submit(p) /\ Call(p, op) BY <1>3, <2>1 DEF Archive
  <2> QED BY <2>2, <2>3, SubmitIsFine
<1>4. CASE SetCore(p)
  <2>1. PICK op : op = [kind |-> "core", whole |-> FALSE, by |-> p] OBVIOUS
  <2>2. op.kind \notin {"import", "create", "approve", "decide"} /\ op.whole = FALSE BY <2>1
  <2>3. Submit(p) /\ Call(p, op) BY <1>4, <2>1 DEF SetCore
  <2> QED BY <2>2, <2>3, SubmitIsFine
<1>5. CASE Returned(p)
  <2>1. /\ files' = files /\ journal' = journal /\ lock' = lock
        /\ engine' = [engine EXCEPT ![p] = [at |-> "idle"]]
        /\ task' = [task EXCEPT ![p] = Resting("idle", NoOp, "none")]
    BY <1>5, RestingTasks DEF Returned
  <2>2. Engines' BY <1>0, <2>1, AwayFromImport, EngineMoves
  <2> QED BY <2>1, <2>2, IdlingIsFine
<1>6. ASSUME NEW pack \in Packs, NEW over \in BOOLEAN, Import(p, pack, over)
      PROVE  IInv' /\ Simulated
  <2>1. PICK guard : guard = GuardFor(pack) OBVIOUS
  <2>2. PICK e : e = [at |-> "import", pack |-> pack, over |-> over, guard |-> guard,
                      tries |-> 1]
    OBVIOUS
  <2>3. IsEngine(e) BY <2>2, ImportMoves
  <2>4. engine' = [engine EXCEPT ![p] = e] BY <1>6, <2>1, <2>2 DEF Import, Start
  <2> QED BY <1>6, <1>a, <2>3, <2>4 DEF Import
<1>b. ASSUME engine[p].at \in Importing, NEW at \in Importing,
             engine' = [engine EXCEPT ![p] = [engine[p] EXCEPT !.at = at]],
             files' = files, journal' = journal, lock' = lock, task' = task
      PROVE  IInv' /\ Simulated
  <2>1. PICK old : old = engine[p] OBVIOUS
  <2>2. PICK new : new = [old EXCEPT !.at = at] OBVIOUS
  <2>3. IsEngine(old) /\ old.at \in Importing BY <1>0, <1>b, <2>1 DEF Engines
  <2>4. IsEngine(new) BY <1>b, <2>2, <2>3, ImportMoves
  <2>5. engine' = [engine EXCEPT ![p] = new] BY <1>b, <2>1, <2>2
  <2> QED BY <1>a, <1>b, <2>4, <2>5
<1>7. CASE ImportGuard(p)
  <2>1. "import" \in Importing /\ "guarded" \in Importing BY DEF Importing
  <2> QED BY <1>7, <1>b, <2>1 DEF ImportGuard, Step
<1>8. CASE GuardIsStale(p)
  <2>1. engine[p].at \in Importing BY <1>8 DEF GuardIsStale, Importing
  <2>2. Engines' BY <1>0, <1>8, <2>1, AgainMoves DEF GuardIsStale
  <2> QED BY <1>8, <2>2, EngineStepIsFine DEF GuardIsStale
<1>9. CASE GuardHolds(p)
  <2>1. "checked" \in Importing /\ "guarded" \in Importing BY DEF Importing
  <2> QED BY <1>9, <1>b, <2>1 DEF GuardHolds, Step
<1>10. CASE Preflight(p) BY <1>10, PreflightIsFine
<1>11. CASE Imported(p)
  <2>1. /\ files' = files /\ journal' = journal /\ lock' = lock
        /\ task' = [task EXCEPT ![p] = Resting("idle", NoOp, "none")]
        /\ engine[p].at \in Importing
    BY <1>11, RestingTasks DEF Imported, Importing
  <2>2. Engines'
    <3>1. CASE Again(p) BY <1>0, <2>1, <3>1, AgainMoves
    <3>2. CASE Step(p, [at |-> "idle"])
      BY <1>0, <3>2, AwayFromImport, EngineMoves DEF Step
    <3> QED BY <1>11, <3>1, <3>2 DEF Imported
  <2> QED BY <2>1, <2>2, IdlingIsFine
<1>12. CASE Export(p)
  <2>1. PICK nodes : nodes = files["nodes"] \cup files["ledger"].artifacts OBVIOUS
  <2>2. PICK e : e = [at |-> "export", nodes |-> nodes] OBVIOUS
  <2>3. IsEngine(e) BY <2>2, AwayFromImport
  <2>4. engine' = [engine EXCEPT ![p] = e] BY <1>12, <2>1, <2>2 DEF Export, Start
  <2> QED BY <1>12, <1>a, <2>3, <2>4 DEF Export
<1>13. CASE ExportProfile(p)
  <2>1. PICK nodes : nodes = engine[p].nodes OBVIOUS
  <2>2. PICK rel : rel = files["profile"].rel OBVIOUS
  <2>3. PICK none : none = {} OBVIOUS
  <2>4. PICK e : e = [at |-> "assemble", nodes |-> nodes, turns |-> none, ledger |-> none]
    OBVIOUS
  <2>5. PICK d : d = [at |-> "export guard", nodes |-> nodes, rel |-> rel] OBVIOUS
  <2>6. IsEngine(e) /\ IsEngine(d) BY <2>4, <2>5, AwayFromImport
  <2>7. engine' = [engine EXCEPT ![p] = e] \/ engine' = [engine EXCEPT ![p] = d]
    BY <1>13, <2>1, <2>2, <2>3, <2>4, <2>5 DEF ExportProfile, Step
  <2> QED BY <1>13, <1>a, <2>6, <2>7 DEF ExportProfile
<1>14. CASE ExportGuard(p)
  <2>1. PICK old : old = engine[p] OBVIOUS
  <2>2. PICK new : new = [old EXCEPT !.at = "export turns"] OBVIOUS
  <2>3. "at" \in DOMAIN old BY <1>0, <2>1 DEF Engines, IsEngine
  <2>4. IsEngine(new) BY <2>2, <2>3, AwayFromImport
  <2>5. engine' = [engine EXCEPT ![p] = new] BY <1>14, <2>1, <2>2 DEF ExportGuard, Step
  <2> QED BY <1>14, <1>a, <2>4, <2>5 DEF ExportGuard
<1>15. CASE ExportTurns(p)
  <2>1. PICK nodes : nodes = engine[p].nodes OBVIOUS
  <2>2. PICK rel : rel = engine[p].rel OBVIOUS
  <2>3. PICK turns : turns = {t.id : t \in files["turns"]} OBVIOUS
  <2>4. PICK e : e = [at |-> "export ledger", nodes |-> nodes, rel |-> rel, turns |-> turns]
    OBVIOUS
  <2>5. IsEngine(e) BY <2>4, AwayFromImport
  <2>6. engine' = [engine EXCEPT ![p] = e]
    BY <1>15, <2>1, <2>2, <2>3, <2>4 DEF ExportTurns, Step
  <2> QED BY <1>15, <1>a, <2>5, <2>6 DEF ExportTurns
<1>16. CASE ExportLedger(p)
  <2>1. PICK nodes : nodes = engine[p].nodes OBVIOUS
  <2>2. PICK turns : turns = engine[p].turns OBVIOUS
  <2>3. PICK ledger : ledger = files["ledger"].tombstones OBVIOUS
  <2>4. PICK e : e = [at |-> "assemble", nodes |-> nodes, turns |-> turns, ledger |-> ledger]
    OBVIOUS
  <2>5. IsEngine(e) BY <2>4, AwayFromImport
  <2>6. engine' = [engine EXCEPT ![p] = e]
    BY <1>16, <2>1, <2>2, <2>3, <2>4 DEF ExportLedger, Step
  <2> QED BY <1>16, <1>a, <2>5, <2>6 DEF ExportLedger
<1>17. CASE Assemble(p)
  <2>1. PICK e : e = [at |-> "idle"] OBVIOUS
  <2>2. IsEngine(e) BY <2>1, AwayFromImport
  <2>3. engine' = [engine EXCEPT ![p] = e] BY <1>17, <2>1 DEF Assemble, Step
  <2> QED BY <1>17, <1>a, <2>2, <2>3 DEF Assemble
<1> QED
  BY <1>1, <1>2, <1>3, <1>4, <1>5, <1>6, <1>7, <1>8, <1>9, <1>10, <1>11, <1>12, <1>13,
     <1>14, <1>15, <1>16, <1>17 DEF MemoryStep

LEMMA PersonaStepIsFine ==
    ASSUME IInv, Recalls, NEW p \in Processes, PersonaStep(p)
    PROVE  IInv' /\ Simulated
<1>0. Tasks /\ Engines BY DEF IInv
<1>1. ASSUME NEW rev, Submit(p), Call(p, [kind |-> "save", whole |-> FALSE, rev |-> rev, by |-> p])
      PROVE  IInv' /\ Simulated
  <2>1. PICK op : op = [kind |-> "save", whole |-> FALSE, rev |-> rev, by |-> p] OBVIOUS
  <2>2. op.kind \notin {"import", "create", "approve", "decide"} /\ op.whole = FALSE BY <2>1
  <2>3. Submit(p) /\ Call(p, op) BY <1>1, <2>1
  <2> QED BY <2>2, <2>3, SubmitIsFine
<1>2. CASE ProposePersona(p) BY <1>1, <1>2 DEF ProposePersona
<1>3. CASE RevisePersona(p)
  <2>1. PICK rev : rev = Latest(files) + 1 OBVIOUS
  <2>2. Submit(p) /\ Call(p, [kind |-> "save", whole |-> FALSE, rev |-> rev, by |-> p])
    BY <1>3, <2>1 DEF RevisePersona
  <2> QED BY <1>1, <2>2
<1>4. CASE ApprovePersona(p)
  <2>1. PICK op : op = [kind |-> "approve", whole |-> FALSE, rel |-> files["profile"].rel,
                        rev |-> Latest(files), expected |-> Status(files, Latest(files)),
                        by |-> IF Status(files, Latest(files)) = "pending" THEN p
                               ELSE Revisions(files)[Latest(files)].decider]
    OBVIOUS
  <2>2. op.kind = "approve" /\ op.whole = FALSE /\ op.rel # Absent /\ op.rev \in Nat \ {0}
    <3>1. StoreOK(files) /\ Latest(files) \in Nat BY StoreHasCompilations DEF IInv
    <3> QED BY <1>4, <2>1, <3>1 DEF ApprovePersona, Reviews
  <2>3. Submit(p) /\ Call(p, op) BY <1>4, <2>1 DEF ApprovePersona
  <2> QED BY <2>2, <2>3, SubmitIsFine
<1>5. ASSUME NEW to \in {"rejected", "revoked"}, DecidePersona(p, to)
      PROVE  IInv' /\ Simulated
  <2>1. PICK op : op = [kind |-> "decide", whole |-> FALSE, rev |-> Latest(files), to |-> to,
                        by |-> p, expected |-> Status(files, Latest(files))]
    OBVIOUS
  <2>2. /\ op.kind = "decide" /\ op.whole = FALSE
        /\ op.to = "revoked" \/ op.expected = "pending"
    BY <1>5, <2>1 DEF DecidePersona
  <2>3. Submit(p) /\ Call(p, op) BY <1>5, <2>1 DEF DecidePersona
  <2> QED BY <2>2, <2>3, SubmitIsFine
<1>6. CASE Reopen(p)
  <2>1. PICK op : op = [kind |-> "open", whole |-> FALSE] OBVIOUS
  <2>2. OpFits(op) /\ ~op.whole BY <2>1, PlainOpFits
  <2>3. task' = [task EXCEPT ![p] = Resting("wait", op, "none")]
    BY <1>6, <2>1, RestingTasks DEF Reopen, Call
  <2>4. /\ files' = files /\ journal' = journal /\ lock' = lock
        /\ engine' = [engine EXCEPT ![p] = [at |-> "opening"]]
    BY <1>6 DEF Reopen, Step
  <2>5. Engines' BY <1>0, <2>4, AwayFromImport, EngineMoves
  <2> QED BY <2>2, <2>3, <2>4, <2>5, AskingIsFine
<1>7. CASE Reopened(p)
  <2>1. /\ files' = files /\ journal' = journal /\ lock' = lock
        /\ engine' = [engine EXCEPT ![p] = [at |-> "idle"]]
        /\ task' = [task EXCEPT ![p] = IF task[p].result = "error"
                                       THEN [Idle EXCEPT !.at = "down"] ELSE Idle]
    BY <1>0, <1>7 DEF Reopened, Step, Tasks
  <2>2. Engines' BY <1>0, <2>1, AwayFromImport, EngineMoves
  <2>3. \/ task' = [task EXCEPT ![p] = Resting("down", NoOp, "none")]
        \/ task' = [task EXCEPT ![p] = Resting("idle", NoOp, "none")]
    BY <2>1, RestingTasks
  <2> QED BY <2>1, <2>2, <2>3, IdlingIsFine
<1> QED BY <1>2, <1>3, <1>4, <1>5, <1>6, <1>7 DEF PersonaStep

LEMMA DieIsFine ==
    ASSUME IInv, Setting, Recalls, NEW p \in Processes, Die(p)
    PROVE  IInv' /\ Simulated
<1>1. /\ files' = files
      /\ engine' = [engine EXCEPT ![p] = [at |-> "idle"]]
      /\ task' = [task EXCEPT ![p] = Resting("down", NoOp, "none")]
  BY RestingTasks DEF Die, Crash
<1>2. Engines' BY <1>1, AwayFromImport, EngineMoves DEF IInv
<1>3. CASE lock = p
  <2>1. journal' = OnDisk BY <1>3 DEF Die, Crash
  <2>2. JournalOK' /\ (journal' = journal \/ Loses) BY <2>1, OnDiskIsJournal DEF IInv
  <2>3. journal = Nothing => journal' = Nothing BY <2>1 DEF OnDisk, Unfinished
  <2> QED BY <1>1, <1>2, <1>3, <2>2, <2>3, IdlingIsFine
<1>4. CASE lock # p
  <2>1. journal' = journal /\ lock' = lock BY <1>4 DEF Die, Crash
  <2> QED BY <1>1, <1>2, <2>1, IdlingIsFine
<1> QED BY <1>3, <1>4

-----------------------------------------------------------------------------
(* Erasure of a store without journals, and the new store                    *)

LEMMA EmptyStoreIsOK ==
    ASSUME Files = Documents, NEW receipts
    PROVE  /\ StoreOK(EmptyStore(receipts))
           /\ EmptyStore(receipts)["receipts"] = receipts
           /\ \A f \in Approvals : EmptyStore(receipts)[f] = Absent
<1> DEFINE store == EmptyStore(receipts)
<1>1. store = [f \in Documents |-> store[f]] BY DEF EmptyStore
<1>2. store["receipts"] = receipts BY DEF EmptyStore, Documents
<1>3. \A f \in Approvals : store[f] = Absent BY DEF EmptyStore, Documents, Approvals
<1>4. store["compilations"] = NoCompilations BY DEF EmptyStore, Documents
<1>5. IsCompilations(NoCompilations)
  <2>1. IsSeq(<<>>) BY EmptyIsSeq
  <2>2. PICK none : none = <<>> OBVIOUS
  <2>3. NoCompilations = [revisions |-> none, manifests |-> {}] BY <2>2 DEF NoCompilations
  <2>4. NoCompilations.revisions = none BY <2>3
  <2> QED BY <2>1, <2>2, <2>3, <2>4 DEF IsCompilations
<1> HIDE DEF store
<1>6. \A f \in Documents : Fits(f, store[f]) BY <1>3, <1>4, <1>5 DEF Fits
<1> QED BY <1>1, <1>2, <1>3, <1>6 DEF StoreOK, store

(* What is erased fits, holds no approval's journal, and is the same whether *)
(* the relationship or the complete user was asked for.                      *)
LEMMA ErasedIsOK ==
    ASSUME StoreOK(files), Files = Documents, Leftovers = {}
    PROVE  /\ StoreOK(Erased(files))
           /\ \A f \in Approvals : Erased(files)[f] = Absent
           /\ ErasedUser(files) = Erased(files)
           /\ files["receipts"] = Absent => Erased(files)["receipts"] = Absent
<1>0. \A f \in Approvals : files[f] = Absent
  <2>0. /\ 1 \in 1..2 /\ 2 \in 1..2
        /\ ApprovalJournal(1) = "approval of 1" /\ ApprovalJournal(2) = "approval of 2"
    BY DEF ApprovalJournal
  <2>1. files["approval of 1"] = Absent BY <2>0 DEF Leftovers
  <2>2. files["approval of 2"] = Absent BY <2>0 DEF Leftovers
  <2> QED BY <2>1, <2>2 DEF Approvals
<1>1. CASE files["receipts"] = Absent
  <2> DEFINE erased == ErasedFiles(files)
             empty == EmptyStore(Absent)
  <2>1. /\ StoreOK(empty) /\ \A f \in Approvals : empty[f] = Absent
    BY EmptyStoreIsOK
  <2>2. erased = [f \in Documents |-> erased[f]] BY DEF ErasedFiles
  <2>3. \A f \in Documents : erased[f] = empty[f] \/ erased[f] = files[f] BY DEF ErasedFiles
  <2>4. \A f \in Approvals : erased[f] = Absent
    BY <1>0 DEF ErasedFiles, PairDocuments, Aggregates, Shared, Approvals, Documents
  <2>5. erased["receipts"] = Absent
    BY <1>1 DEF ErasedFiles, PairDocuments, Aggregates, Shared, Documents
  <2> HIDE DEF erased, empty
  <2>6. StoreOK(erased) BY <2>1, <2>2, <2>3 DEF StoreOK
  <2>7. Erased(files) = erased BY <1>1 DEF Erased, erased
  <2>8. ErasedUser(files) = [erased EXCEPT !["receipts"] = Absent]
    BY <1>1, <2>7 DEF ErasedUser, RevokedReceipts
  <2>9. [erased EXCEPT !["receipts"] = Absent] = erased BY <2>2, <2>5
  <2> QED BY <2>4, <2>5, <2>6, <2>7, <2>8, <2>9
<1>2. CASE files["receipts"] # Absent
  <2> DEFINE erased == EmptyStore({})
  <2>1. /\ StoreOK(erased) /\ erased["receipts"] = {}
        /\ \A f \in Approvals : erased[f] = Absent
    BY EmptyStoreIsOK
  <2>2. Erased(files) = erased BY <1>2 DEF Erased, ErasedRows, RevokedReceipts
  <2> HIDE DEF erased
  <2>3. ErasedUser(files) = [erased EXCEPT !["receipts"] = {}]
    BY <1>2, <2>2 DEF ErasedUser, RevokedReceipts
  <2>4. [erased EXCEPT !["receipts"] = {}] = erased BY <2>1 DEF StoreOK
  <2> QED BY <1>2, <2>1, <2>2, <2>3, <2>4
<1> QED BY <1>1, <1>2

(* Opening what holds no journal changes nothing.                            *)
LEMMA OpeningIsNothing ==
    ASSUME NEW fs, StoreOK(fs), Files = Documents, Images = {},
           \A f \in Approvals : fs[f] = Absent
    PROVE  Opened(fs) = fs
<1>1. Restoring(fs) = fs BY DEF Restoring, StoreOK
<1>2. Leftover(1, fs) = <<>> /\ Leftover(2, fs) = <<>>
  BY DEF Leftover, ApprovalJournal, Approvals
<1>3. Replays(fs) = <<>> BY <1>2 DEF Replays
<1>4. Written(<<>>, fs) = fs
  <2>1. fs = [f \in DOMAIN fs |-> fs[f]] BY DEF StoreOK
  <2>2. PICK none : none = <<>> OBVIOUS
  <2>3. Len(none) = 0 BY <2>2, EmptyIsSeq
  <2>4. After(none, 0, fs) = fs BY <2>1, AfterNone
  <2> QED BY <2>2, <2>3, <2>4 DEF Written
<1> QED BY <1>1, <1>3, <1>4 DEF Opened

LEMMA EraseIsFine ==
    ASSUME IInv, Setting, Recalls,
           NEW scope \in {"relationship", "complete user"}, Erase(scope)
    PROVE  IInv' /\ Simulated
<1>1. /\ Stopped /\ journal = Nothing /\ Leftovers = {} /\ engine' = engine
      /\ files' = Published(scope) /\ journal' = Nothing
  BY DEF Erase, Setting
<1>2. task' = [p \in Processes |-> Resting("down", NoOp, "none")]
  BY RestingTasks DEF Erase
<1>3. StoreOK(files) /\ Engines /\ Files = Documents BY DEF IInv, Setting
<1>4. Images = {} /\ Base = files BY <1>1, <1>3, NoJournal, BaseWithoutImages
<1>5. /\ StoreOK(Erased(files)) /\ ErasedUser(files) = Erased(files)
      /\ \A f \in Approvals : Erased(files)[f] = Absent
      /\ files["receipts"] = Absent => Erased(files)["receipts"] = Absent
  BY <1>1, <1>3, ErasedIsOK
<1>6. PICK erased : erased = Erased(files) OBVIOUS
<1>7. files' = erased
  <2>1. Opened(erased) = erased BY <1>3, <1>4, <1>5, <1>6, OpeningIsNothing
  <2> QED BY <1>1, <1>5, <1>6, <2>1 DEF Published
<1>8. StoreOK(files)' BY <1>5, <1>6, <1>7 DEF StoreOK
<1>9. Base' = erased /\ JournalOK'
  <2>1. Setting /\ Files = Documents BY <1>3
  <2> QED BY <1>1, <1>7, <1>8, <2>1, BaseAfter
<1>10. \A p \in Processes : /\ task'[p].at = "down" /\ task'[p].applied = FALSE
                            /\ task'[p].op = NoOp /\ task'[p] = Resting("down", NoOp, "none")
  BY <1>2 DEF Resting
<1>11. Tasks'
  <2>1. OpFits(NoOp) BY DEF NoOp, OpFits, OpOK
  <2>2. IsTask(Resting("down", NoOp, "none")) BY DEF IsTask, Resting
  <2>3. task' = [p \in Processes |-> task'[p]] BY <1>2
  <2> QED BY <1>10, <2>1, <2>2, <2>3 DEF Tasks
<1>12. \A p \in Processes : ProcessOK(p)' BY <1>10 DEF ProcessOK, Busy
<1>13. DatabaseOK'
  <2>1. SUFFICES ASSUME Transactional' PROVE DatabaseOK' BY DEF DatabaseOK
  <2>2. Transactional BY <1>5, <1>6, <1>7, <2>1 DEF Transactional
  <2>3. lost' = FALSE BY <1>1, <2>2, DatabasesLoseNothing
  <2> QED BY <1>1, <1>10, <2>3 DEF DatabaseOK, Busy
<1>14. Engines' BY <1>1, <1>3 DEF Engines
<1>b. lost' \in BOOLEAN BY DEF Recalls
<1>15. IInv' BY <1>8, <1>9, <1>11, <1>12, <1>13, <1>14, <1>b DEF IInv
<1>16. Base' = Erased(Base) BY <1>4, <1>6, <1>9
<1>17. \A p \in Processes : /\ task'[p].applied = FALSE /\ Answered(task'[p]) = "none"
                            /\ Remaining(task[p]) = <<>> /\ Remaining(task'[p]) = <<>>
  BY <1>1, <1>10 DEF Stopped, Answered, Remaining
<1>a. \A f \in Approvals : Base'[f] = Absent BY <1>5, <1>6, <1>9
<1>18. Simulated BY <1>16, <1>17, <1>a, SeenAsReset
<1> QED BY <1>15, <1>18

LEMMA InitIsFine ==
    ASSUME Init, Setting
    PROVE  IInv /\ Atomic!Init
<1>1. /\ journal = Nothing /\ task = [p \in Processes |-> Idle]
      /\ engine = [p \in Processes |-> [at |-> "idle"]]
      /\ Files = Documents /\ lost = FALSE
  BY DEF Init, StorageInit, MemoryInit, Setting
<1>2. StoreOK(files)
  <2>1. PICK receipts \in {Absent, {}}, old \in {<<>>} \cup {Started(r) : r \in Known} :
          files = [f \in Files |-> IF f \in DOMAIN old THEN old[f] ELSE EmptyStore(receipts)[f]]
    BY DEF Init, MemoryInit
  <2>2. PICK empty : empty = EmptyStore(receipts) OBVIOUS
  <2>3. StoreOK(empty) BY <1>1, <2>2, EmptyStoreIsOK
  <2>4. \A f \in Documents : files[f] = IF f \in DOMAIN old THEN old[f] ELSE empty[f]
    BY <1>1, <2>1, <2>2
  <2>5. files = [f \in Documents |-> files[f]] BY <1>1, <2>1
  <2>6. ASSUME NEW f \in Documents, f \in DOMAIN old PROVE Fits(f, old[f])
    <3>1. CASE old = <<>>
      <4>1. DOMAIN old = {} BY <3>1
      <4> QED BY <2>6, <4>1
    <3>2. CASE old # <<>>
      <4>1. PICK r \in Known : old = Started(r) BY <2>1, <3>2
      <4>2. DOMAIN old = {"profile", "registry", "turns", "compilations"}
        BY <4>1 DEF Started
      <4>3. f \notin Approvals BY <2>6, <4>2 DEF Approvals
      <4>4. ASSUME f = "compilations" PROVE IsCompilations(old[f])
        <5>1. old["compilations"] = [NoCompilations EXCEPT !.revisions = <<Proposed("host")>>]
          BY <4>1 DEF Started
        <5>2. PICK one : one = <<Proposed("host")>> OBVIOUS
        <5>3. IsSeq(one) BY <5>2, OneIsSeq
        <5>4. PICK none, unmade : none = <<>> /\ unmade = {} OBVIOUS
        <5>5. NoCompilations = [revisions |-> none, manifests |-> unmade]
          BY <5>4 DEF NoCompilations
        <5>6. PICK blank : blank = NoCompilations OBVIOUS
        <5>7. blank = [revisions |-> none, manifests |-> unmade] BY <5>5, <5>6
        <5>8. [blank EXCEPT !.revisions = one] = [revisions |-> one, manifests |-> unmade]
          BY <5>7
        <5>9. old["compilations"] = [revisions |-> one, manifests |-> unmade]
          BY <5>1, <5>2, <5>6, <5>8
        <5> QED BY <4>4, <5>3, <5>9 DEF IsCompilations
      <4> QED BY <4>3, <4>4 DEF Fits
    <3> QED BY <3>1, <3>2
  <2> QED BY <2>3, <2>4, <2>5, <2>6 DEF StoreOK
<1>3. JournalOK BY <1>1, NoJournal
<1>4. \A p \in Processes : /\ task[p] = Idle /\ task[p].at = "idle" /\ task[p].op = NoOp
                           /\ task[p].applied = FALSE
  BY <1>1 DEF Idle
<1>5. Tasks
  <2>1. OpFits(NoOp) BY DEF NoOp, OpFits, OpOK
  <2>2. IsTask(Idle) BY DEF IsTask, Idle
  <2> QED BY <1>1, <1>4, <2>1, <2>2 DEF Tasks
<1>6. Engines BY <1>1, AwayFromImport DEF Engines
<1>7. \A p \in Processes : ProcessOK(p) BY <1>4 DEF ProcessOK, Busy
<1>8. DatabaseOK BY <1>1, <1>4 DEF DatabaseOK, Busy
<1>9. IInv BY <1>1, <1>2, <1>3, <1>5, <1>6, <1>7, <1>8 DEF IInv
<1>10. Atomic!Init
  BY <1>1, <1>4 DEF Atomic!Init, Left, Applied, Answer, Remaining, Answered
<1> QED BY <1>9, <1>10

-----------------------------------------------------------------------------
(* The invariant, and the refinement                                         *)

LEMMA NextIsFine ==
    ASSUME IInv, Setting, [Next]_evars
    PROVE  IInv' /\ Simulated /\ Recalls
<1>1. Recalls
  <2>1. CASE Next
    <3>1. lost' = (lost \/ Loses) BY <2>1, Zenon DEF Next
    <3> QED BY <3>1 DEF Recalls
  <2>2. CASE UNCHANGED evars
    <3>1. files' = files /\ journal' = journal /\ lost' = lost BY <2>2 DEF evars, pvars
    <3>2. JournalOK /\ lost \in BOOLEAN BY DEF IInv
    <3>3. ~Loses BY <3>1, <3>2, NothingIsLost
    <3> QED BY <3>1, <3>2, <3>3 DEF Recalls
  <2> QED BY <2>1, <2>2
<1>2. SUFFICES IInv' /\ Simulated BY <1>1
<1>3. CASE UNCHANGED pvars
  <2>1. /\ files' = files /\ journal' = journal /\ lock' = lock /\ task' = task
        /\ engine' = engine
    BY <1>3 DEF pvars
  <2>2. Engines' BY <2>1 DEF IInv, Engines
  <2> QED BY <1>1, <2>1, <2>2, EngineStepIsFine
<1>4. ASSUME NEW p \in Processes, MemoryStep(p) PROVE IInv' /\ Simulated
  BY <1>1, <1>4, MemoryStepIsFine
<1>5. ASSUME NEW p \in Processes, PersonaStep(p) PROVE IInv' /\ Simulated
  BY <1>1, <1>5, PersonaStepIsFine
<1>6. ASSUME NEW p \in Processes, Store(p) PROVE IInv' /\ Simulated
  <2>1. CASE Transactional
    <3>1. Transact(p) /\ engine' = engine BY <1>6, <2>1 DEF Store
    <3> QED BY <1>1, <2>1, <3>1, TransactIsFine
  <2>2. CASE ~Transactional
    <3>1. StorageStep(p) /\ engine' = engine BY <1>6, <2>2 DEF Store
    <3>2. Stepping BY <1>1, <2>2, <3>1 DEF Stepping
    <3> QED BY <3>1, <3>2, StorageStepIsFine
  <2> QED BY <2>1, <2>2
<1>7. ASSUME NEW p \in Processes, Die(p) PROVE IInv' /\ Simulated
  BY <1>1, <1>7, DieIsFine
<1>8. ASSUME NEW scope \in {"relationship", "complete user"}, Erase(scope)
      PROVE  IInv' /\ Simulated
  BY <1>1, <1>8, EraseIsFine
<1>9. Done \/ UNCHANGED evars => UNCHANGED pvars BY DEF Done, evars
<1> QED BY <1>3, <1>4, <1>5, <1>6, <1>7, <1>8, <1>9 DEF Next

(* Nothing that may happen to the storage breaks the invariant: documents    *)
(* hold what they can hold, one process is inside the storage, the journal   *)
(* is one that recovery can use, though an image in it may be in memory only,*)
(* and unless one was lost, what the process has written is its plan so far  *)
(* and everything it replaced can be put back.                               *)
THEOREM StorageIsKept == Setting => (Spec => []IInv)
<1> SUFFICES ASSUME Setting PROVE Spec => []IInv OBVIOUS
<1>1. Init => IInv BY InitIsFine
<1>2. IInv /\ [Next]_evars => IInv' BY NextIsFine
<1> QED BY <1>1, <1>2, PTL DEF Spec

(* What execute_memory_pack_write promises holds for any number of processes,*)
(* packs, crashes and failed calls, until a before-image is lost: an import  *)
(* takes effect at one instant or not at all and its caller is told nothing  *)
(* else; a plain method replaces the documents it decided on, one after the  *)
(* other; and nothing else ever changes one, so no rollback and no recovery  *)
(* undoes a write (file_storage.py:392-733).                                 *)
THEOREM ImportsAreAtomic == Setting => (Spec => ImplementsAtomicStore)
<1> SUFFICES ASSUME Setting PROVE Spec => ImplementsAtomicStore OBVIOUS
<1>1. Init => IInv /\ Atomic!Init BY InitIsFine
<1>2. IInv /\ [Next]_evars => IInv' BY NextIsFine
<1>3. IInv /\ [Next]_evars => [Atomic!Next]_Atomic!vars
  <2>1. SUFFICES ASSUME IInv, [Next]_evars PROVE [Atomic!Next]_Atomic!vars OBVIOUS
  <2>2. Simulated /\ Recalls /\ lost \in BOOLEAN BY <2>1, NextIsFine DEF IInv
  <2>3. CASE lost'
    <3>1. lost' = TRUE BY <2>2, <2>3 DEF Recalls
    <3> QED BY <3>1 DEF Atomic!Next
  <2>4. CASE ~lost'
    <3>1. ~lost /\ lost' = lost BY <2>2, <2>4 DEF Recalls
    <3>2. CASE Unseen
      <4>1. Asked' = Asked /\ Left' = Left /\ Applied' = Applied /\ Answer' = Answer
        <5>1. Asked' = Asked BY <3>2 DEF Unseen, Looks, Asked
        <5>2. Left' = Left BY <3>2 DEF Unseen, Looks, Left
        <5>3. Applied' = Applied BY <3>2 DEF Unseen, Looks, Applied
        <5>4. Answer' = Answer BY <3>2 DEF Unseen, Looks, Answer
        <5> QED BY <5>1, <5>2, <5>3, <5>4
      <4> QED BY <3>1, <3>2, <4>1 DEF Unseen, Atomic!vars
    <3>3. CASE Atomic!Reset \/ \E p \in Processes : Atomic!Operates(p)
      BY <3>1, <3>3 DEF Atomic!Next
    <3> QED BY <2>2, <2>4, <3>2, <3>3 DEF Simulated
  <2> QED BY <2>3, <2>4
<1> QED BY <1>1, <1>2, <1>3, PTL DEF Spec, ImplementsAtomicStore, Atomic!Spec
-----------------------------------------------------------------------------
(* One relationship                                                          *)

Owner(fs) == fs["profile"].rel
IsProfile(v) == v = [rel |-> v.rel, manifest |-> v.manifest]

(* A store of one relationship: what is registered, what was said and what   *)
(* an approval's journal is about to install is of the one in the profile.   *)
Owned(fs) ==
    /\ IsProfile(fs["profile"])
    /\ fs["registry"] \subseteq {Owner(fs)} /\ Absent \notin fs["registry"]
    /\ fs["turns"] # {} => Owner(fs) \in fs["registry"]
    /\ \A f \in Approvals : fs[f] # Absent =>
          /\ Owner(fs) # Absent
          /\ IsProfile(fs[f].profile) /\ fs[f].profile.rel = Owner(fs)

(* When a plan reaches its i-th write with its first n done in fs, the       *)
(* profile, the registry names t.                                            *)
Named(file, plan, n, i) == \E j \in (n + 1)..(i - 1) : plan[j].file = file
HasOwner(plan, n, i, t, fs) == Owner(fs) = t \/ Named("profile", plan, n, i)
HasEntry(plan, n, i, t, fs) == t \in fs["registry"] \/ Named("registry", plan, n, i)

(* What may be written to a store of t.                                      *)
IsOf(t, w, owned, registered) ==
    /\ w.file = "profile" => IsProfile(w.to) /\ w.to.rel = t
    /\ w.file = "registry" => w.to = {t} /\ owned
    /\ w.file = "turns" => registered
    /\ w.file \in Approvals => w.to = Absent \/ (/\ owned
                                                 /\ IsProfile(w.to.profile)
                                                 /\ w.to.profile.rel = t)
    /\ w.failing = "ignore" => w.file \in Approvals

(* What is left of a plan after its first n writes is about t alone.         *)
Belongs(plan, n, t, fs) ==
    /\ Owner(fs) \in {Absent, t}
    /\ \A i \in (n + 1)..Len(plan) :
          IsOf(t, plan[i], HasOwner(plan, n, i, t, fs), HasEntry(plan, n, i, t, fs))

(* Whatever is certain of later writes stays certain.                        *)
NoLess(plan, n, t, fs, m, gs) ==
    \A i \in (m + 1)..(Len(plan) + 1) :
        /\ HasOwner(plan, n, i, t, fs) => HasOwner(plan, m, i, t, gs)
        /\ HasEntry(plan, n, i, t, fs) => HasEntry(plan, m, i, t, gs)

LEMMA OneWriteKeepsOwner ==
    ASSUME NEW plan, NEW n \in Nat, NEW t, NEW fs, StoreOK(fs), t # Absent,
           Len(plan) \in Nat, n + 1 <= Len(plan),
           Owned(fs), Belongs(plan, n, t, fs), NEW gs,
           gs = [fs EXCEPT ![plan[n + 1].file] = plan[n + 1].to]
    PROVE  /\ Owned(gs)
           /\ NoLess(plan, n, t, fs, n + 1, gs) /\ Belongs(plan, n + 1, t, gs)
           /\ NoLess(plan, n, t, fs, n, gs) /\ Belongs(plan, n, t, gs)
<1>1. PICK w : w = plan[n + 1] OBVIOUS
<1>2. DOMAIN fs = Documents BY DEF StoreOK
<1>3. \A f \in Documents : gs[f] = IF f = w.file THEN w.to ELSE fs[f] BY <1>1, <1>2
<1>4. /\ "profile" \in Documents /\ "registry" \in Documents /\ "turns" \in Documents
      /\ Approvals \subseteq Documents
      /\ "profile" \notin Approvals /\ "registry" \notin Approvals /\ "turns" \notin Approvals
  BY DEF Documents, Approvals
<1>5. n + 1 \in (n + 1)..Len(plan) /\ (n + 1)..((n + 1) - 1) = {} OBVIOUS
<1>6. HasOwner(plan, n, n + 1, t, fs) => Owner(fs) = t BY <1>5 DEF HasOwner, Named
<1>7. HasEntry(plan, n, n + 1, t, fs) => t \in fs["registry"] BY <1>5 DEF HasEntry, Named
<1>8. /\ w.file = "profile" => IsProfile(w.to) /\ w.to.rel = t
      /\ w.file = "registry" => w.to = {t} /\ Owner(fs) = t
      /\ w.file = "turns" => t \in fs["registry"]
      /\ w.file \in Approvals => w.to = Absent \/ (/\ Owner(fs) = t
                                                   /\ IsProfile(w.to.profile)
                                                   /\ w.to.profile.rel = t)
  BY <1>1, <1>5, <1>6, <1>7 DEF Belongs, IsOf
<1>9. Owner(fs) \in {Absent, t} BY DEF Belongs
<1>10. Owner(gs) = IF w.file = "profile" THEN t ELSE Owner(fs)
  BY <1>3, <1>4, <1>8 DEF Owner
<1>11. gs["registry"] = IF w.file = "registry" THEN {t} ELSE fs["registry"]
  BY <1>3, <1>4, <1>8
<1>12. Owned(gs)
  <2>1. IsProfile(gs["profile"]) BY <1>3, <1>4, <1>8 DEF Owned
  <2>2. gs["registry"] \subseteq {Owner(gs)} /\ Absent \notin gs["registry"]
    BY <1>4, <1>8, <1>9, <1>10, <1>11 DEF Owned
  <2>3. gs["turns"] # {} => Owner(gs) \in gs["registry"]
    <3>1. CASE w.file = "turns" BY <1>4, <1>8, <1>10, <1>11, <3>1 DEF Owned
    <3>2. CASE w.file # "turns"
      <4>1. gs["turns"] = fs["turns"] BY <1>3, <1>4, <3>2
      <4> QED BY <1>8, <1>9, <1>10, <1>11, <4>1 DEF Owned
    <3> QED BY <3>1, <3>2
  <2>4. ASSUME NEW f \in Approvals, gs[f] # Absent
        PROVE  /\ Owner(gs) # Absent
               /\ IsProfile(gs[f].profile) /\ gs[f].profile.rel = Owner(gs)
    <3>1. CASE w.file = f BY <1>3, <1>4, <1>8, <1>10, <2>4, <3>1
    <3>2. CASE w.file # f
      <4>1. gs[f] = fs[f] BY <1>3, <1>4, <3>2
      <4> QED BY <1>9, <1>10, <2>4, <4>1 DEF Owned
    <3> QED BY <3>1, <3>2
  <2> QED BY <2>1, <2>2, <2>3, <2>4 DEF Owned
<1>13. NoLess(plan, n, t, fs, n + 1, gs)
  <2>1. ASSUME NEW i \in ((n + 1) + 1)..(Len(plan) + 1), NEW file,
               Named(file, plan, n, i)
        PROVE  Named(file, plan, n + 1, i) \/ w.file = file
    BY <1>1, <2>1 DEF Named
  <2>2. Owner(fs) = t => Owner(gs) = t BY <1>10
  <2>3. t \in fs["registry"] => t \in gs["registry"] BY <1>11
  <2> QED BY <1>10, <1>11, <2>1, <2>2, <2>3 DEF NoLess, HasOwner, HasEntry
<1>14. NoLess(plan, n, t, fs, n, gs)
  BY <1>10, <1>11 DEF NoLess, HasOwner, HasEntry
<1>15. Owner(gs) \in {Absent, t} BY <1>9, <1>10
<1>16. ASSUME NEW m \in {n, n + 1}, NoLess(plan, n, t, fs, m, gs)
       PROVE  Belongs(plan, m, t, gs)
  <2>1. ASSUME NEW i \in (m + 1)..Len(plan)
        PROVE  IsOf(t, plan[i], HasOwner(plan, m, i, t, gs), HasEntry(plan, m, i, t, gs))
    <3>1. i \in (n + 1)..Len(plan) /\ i \in (m + 1)..(Len(plan) + 1) BY <2>1
    <3>2. IsOf(t, plan[i], HasOwner(plan, n, i, t, fs), HasEntry(plan, n, i, t, fs))
      BY <3>1 DEF Belongs
    <3>3. /\ HasOwner(plan, n, i, t, fs) => HasOwner(plan, m, i, t, gs)
          /\ HasEntry(plan, n, i, t, fs) => HasEntry(plan, m, i, t, gs)
      BY <1>16, <3>1 DEF NoLess
    <3> QED BY <3>2, <3>3 DEF IsOf
  <2> QED BY <1>15, <2>1 DEF Belongs
<1> QED BY <1>12, <1>13, <1>14, <1>16

LEMMA OneLostKeepsOwner ==
    ASSUME NEW plan, NEW n \in Nat, NEW t, NEW fs, Len(plan) \in Nat, n + 1 <= Len(plan),
           Belongs(plan, n, t, fs), plan[n + 1].failing = "ignore"
    PROVE  NoLess(plan, n, t, fs, n + 1, fs) /\ Belongs(plan, n + 1, t, fs)
<1>1. n + 1 \in (n + 1)..Len(plan) OBVIOUS
<1>2. plan[n + 1].file \notin {"profile", "registry"}
  BY <1>1 DEF Belongs, IsOf, Approvals
<1>3. ASSUME NEW i \in ((n + 1) + 1)..(Len(plan) + 1), NEW file \in {"profile", "registry"},
             Named(file, plan, n, i)
      PROVE  Named(file, plan, n + 1, i)
  BY <1>2, <1>3 DEF Named
<1>4. NoLess(plan, n, t, fs, n + 1, fs) BY <1>3 DEF NoLess, HasOwner, HasEntry
<1>5. ASSUME NEW i \in ((n + 1) + 1)..Len(plan)
      PROVE  IsOf(t, plan[i], HasOwner(plan, n + 1, i, t, fs), HasEntry(plan, n + 1, i, t, fs))
  <2>1. i \in (n + 1)..Len(plan) /\ i \in ((n + 1) + 1)..(Len(plan) + 1) BY <1>5
  <2>2. IsOf(t, plan[i], HasOwner(plan, n, i, t, fs), HasEntry(plan, n, i, t, fs))
    BY <2>1 DEF Belongs
  <2>3. /\ HasOwner(plan, n, i, t, fs) => HasOwner(plan, n + 1, i, t, fs)
        /\ HasEntry(plan, n, i, t, fs) => HasEntry(plan, n + 1, i, t, fs)
    BY <1>4, <2>1 DEF NoLess
  <2> QED BY <2>2, <2>3 DEF IsOf
<1> QED BY <1>4, <1>5 DEF Belongs

LEMMA OneWriteFits ==
    ASSUME NEW fs, StoreOK(fs), NEW f, NEW v, Fits(f, v)
    PROVE  StoreOK([fs EXCEPT ![f] = v])
<1>1. PICK gs : gs = [fs EXCEPT ![f] = v] OBVIOUS
<1>2. DOMAIN fs = Documents BY DEF StoreOK
<1>3. gs = [g \in Documents |-> gs[g]] BY <1>1, <1>2
<1>4. \A g \in Documents : gs[g] = IF g = f THEN v ELSE fs[g] BY <1>1, <1>2
<1>5. \A g \in Documents : Fits(g, gs[g]) BY <1>4 DEF StoreOK
<1> QED BY <1>1, <1>3, <1>5 DEF StoreOK

(* A plan that belongs to t leaves a store of t, whichever of the writes that*)
(* may be lost were lost.                                                    *)
LEMMA PlanKeepsOwner ==
    ASSUME NEW plan, NEW closed, PlanOK(plan, closed), NEW fs, StoreOK(fs), Owned(fs),
           NEW t, t # Absent, Belongs(plan, 0, t, fs),
           NEW skipped, skipped \subseteq Ignored(plan), NEW gs, gs = Written(Without(plan, skipped), fs)
    PROVE  /\ StoreOK(gs) /\ Owned(gs) /\ Owner(gs) \in {Absent, t}
           /\ HasOwner(plan, 0, Len(plan) + 1, t, fs) => Owner(gs) = t
           /\ HasEntry(plan, 0, Len(plan) + 1, t, fs) => t \in gs["registry"]
<1> DEFINE L == Len(plan)
           Good(n, hs) == /\ StoreOK(hs) /\ Owned(hs)
                          /\ Belongs(plan, n, t, hs) /\ NoLess(plan, 0, t, fs, n, hs)
           S == {n \in Nat : n <= L =>
                    \A losing \in SUBSET (Ignored(plan) \cap 1..n) :
                        Good(n, After(Without(plan, losing), n, fs))}
<1>1. IsSeq(plan) /\ L \in Nat /\ Ignored(plan) \subseteq 1..L
  BY DEF PlanOK, IsSeq, Ignored
<1>2. 0 \in S
  <2>1. fs = [f \in DOMAIN fs |-> fs[f]] BY DEF StoreOK
  <2>2. NoLess(plan, 0, t, fs, 0, fs) BY DEF NoLess
  <2>3. \A losing : After(Without(plan, losing), 0, fs) = fs BY <2>1, AfterNone
  <2> QED BY <2>2, <2>3
<1>3. ASSUME NEW n \in Nat, n \in S PROVE n + 1 \in S
  <2>1. SUFFICES ASSUME n + 1 <= L, NEW losing \in SUBSET (Ignored(plan) \cap 1..(n + 1))
                 PROVE  Good(n + 1, After(Without(plan, losing), n + 1, fs))
    OBVIOUS
  <2>2. \A less \in SUBSET (Ignored(plan) \cap 1..n) :
           Good(n, After(Without(plan, less), n, fs))
    BY <1>1, <1>3, <2>1
  <2>a. L \in Nat BY <1>1
  <2> HIDE DEF S
  <2>3. ASSUME NEW hs, NEW ks, NoLess(plan, 0, t, fs, n, hs), NoLess(plan, n, t, hs, n + 1, ks)
        PROVE  NoLess(plan, 0, t, fs, n + 1, ks)
    BY <2>1, <2>a, <2>3 DEF NoLess
  <2>4. CASE n + 1 \in losing
    <3>1. PICK less : less = losing \ {n + 1} OBVIOUS
    <3>2. less \in SUBSET (Ignored(plan) \cap 1..n) /\ losing = less \cup {n + 1}
      BY <2>4, <3>1
    <3>3. plan[n + 1].failing = "ignore" BY <2>4 DEF Ignored
    <3>4. After(Without(plan, losing), n + 1, fs) = After(Without(plan, less), n, fs)
      BY <2>1, <3>2, <3>3, NextWriteLost
    <3>5. PICK hs : hs = After(Without(plan, less), n, fs) OBVIOUS
    <3>6. Good(n, hs) BY <2>2, <3>2, <3>5
    <3>7. NoLess(plan, n, t, hs, n + 1, hs) /\ Belongs(plan, n + 1, t, hs)
      BY <2>1, <2>a, <3>3, <3>6, OneLostKeepsOwner
    <3> QED BY <2>3, <3>4, <3>5, <3>6, <3>7
  <2>5. CASE n + 1 \notin losing
    <3>1. losing \in SUBSET (Ignored(plan) \cap 1..n) BY <2>5
    <3>2. PICK w : w = Without(plan, losing) OBVIOUS
    <3>3. n + 1 \in 1..L BY <2>1, <2>a
    <3>4. w[n + 1] = plan[n + 1] BY <1>1, <2>5, <3>2, <3>3, WithoutIsSeq
    <3>5. PICK hs : hs = After(w, n, fs) OBVIOUS
    <3>6. Good(n, hs) BY <2>2, <3>1, <3>2, <3>5
    <3>7. PICK ks : ks = After(w, n + 1, fs) OBVIOUS
    <3>8. ks = [hs EXCEPT ![plan[n + 1].file] = plan[n + 1].to]
      BY <3>4, <3>5, <3>7, AfterOneMore
    <3>9. /\ Owned(ks) /\ NoLess(plan, n, t, hs, n + 1, ks) /\ Belongs(plan, n + 1, t, ks)
      BY <2>1, <2>a, <3>6, <3>8, OneWriteKeepsOwner
    <3>10. StoreOK(ks)
      <4>1. Fits(plan[n + 1].file, plan[n + 1].to) BY <3>3 DEF PlanOK, WriteOK
      <4> QED BY <3>6, <3>8, <4>1, OneWriteFits
    <3> QED BY <2>3, <3>2, <3>6, <3>7, <3>9, <3>10
  <2> QED BY <2>4, <2>5
<1>4. L \in S
  <2> HIDE DEF S, L
  <2> QED BY <1>1, <1>2, <1>3, Induction
<1>5. Good(L, gs)
  <2>1. skipped \in SUBSET (Ignored(plan) \cap 1..L) BY <1>1
  <2>2. Len(Without(plan, skipped)) = L BY <1>1, WithoutIsSeq
  <2> QED BY <1>1, <1>4, <2>1, <2>2 DEF Written
<1>6. L + 1 \in (L + 1)..(L + 1) /\ (L + 1)..((L + 1) - 1) = {} BY <1>1
<1>7. /\ HasOwner(plan, L, L + 1, t, gs) => Owner(gs) = t
      /\ HasEntry(plan, L, L + 1, t, gs) => t \in gs["registry"]
  BY <1>6 DEF HasOwner, HasEntry, Named
<1> QED BY <1>5, <1>6, <1>7 DEF NoLess, Belongs

LEMMA ConcatBelongs ==
    ASSUME NEW s, NEW r, NEW closed, PlanOK(s, closed), PlanOK(r, closed),
           NEW fs, StoreOK(fs), NEW t, Belongs(s, 0, t, fs), Belongs(r, 0, t, Written(s, fs))
    PROVE  Belongs(s \o r, 0, t, fs)
<1>1. IsSeq(s) /\ IsSeq(r) BY DEF PlanOK
<1>2. PICK u : u = s \o r OBVIOUS
<1>3. /\ Len(u) = Len(s) + Len(r)
      /\ \A i \in 1..Len(s) : u[i] = s[i]
      /\ \A i \in 1..Len(r) : u[Len(s) + i] = r[i]
  BY <1>1, <1>2, ConcatIsSeq
<1>4. Len(s) \in Nat /\ Len(r) \in Nat BY <1>1 DEF IsSeq
<1>5. PICK store : store = Written(s, fs) OBVIOUS
<1>6. ASSUME NEW file \in {"profile", "registry"}, store[file] # fs[file]
      PROVE  \E j \in 1..Len(s) : s[j].file = file
  <2>1. file \in DOMAIN fs BY DEF StoreOK, Documents
  <2> QED BY <1>4, <1>5, <1>6, <2>1, AfterIsOldOrWritten DEF Written
<1>7. ASSUME NEW i \in 1..Len(s) PROVE \A file : Named(file, s, 0, i) => Named(file, u, 0, i)
  BY <1>3, <1>4, <1>7 DEF Named
<1>8. ASSUME NEW k \in 1..Len(r), NEW file, Named(file, r, 0, k)
      PROVE  Named(file, u, 0, Len(s) + k)
  <2>1. PICK j \in 1..(k - 1) : r[j].file = file BY <1>8 DEF Named
  <2>2. j \in 1..Len(r) /\ Len(s) + j \in 1..((Len(s) + k) - 1) BY <1>4
  <2>3. u[Len(s) + j].file = file BY <1>3, <2>1, <2>2
  <2>4. Len(s) + j \in (0 + 1)..((Len(s) + k) - 1) BY <2>2
  <2> QED BY <2>3, <2>4 DEF Named
<1>9. ASSUME NEW k \in 1..Len(r), NEW file, \E j \in 1..Len(s) : s[j].file = file
      PROVE  Named(file, u, 0, Len(s) + k)
  <2>1. PICK j \in 1..Len(s) : s[j].file = file BY <1>9
  <2>2. j \in (0 + 1)..((Len(s) + k) - 1) BY <1>4
  <2> QED BY <1>3, <2>1, <2>2 DEF Named
<1>10. ASSUME NEW i \in 1..Len(u)
       PROVE  IsOf(t, u[i], HasOwner(u, 0, i, t, fs), HasEntry(u, 0, i, t, fs))
  <2>1. CASE i \in 1..Len(s)
    <3>1. /\ HasOwner(s, 0, i, t, fs) => HasOwner(u, 0, i, t, fs)
          /\ HasEntry(s, 0, i, t, fs) => HasEntry(u, 0, i, t, fs)
      BY <1>7, <2>1 DEF HasOwner, HasEntry
    <3>2. IsOf(t, s[i], HasOwner(s, 0, i, t, fs), HasEntry(s, 0, i, t, fs))
      BY <2>1 DEF Belongs
    <3>3. u[i] = s[i] BY <1>3, <2>1
    <3> QED BY <3>1, <3>2, <3>3 DEF IsOf
  <2>2. CASE i \notin 1..Len(s)
    <3>1. PICK k \in 1..Len(r) : i = Len(s) + k
      <4>1. i - Len(s) \in 1..Len(r) /\ i = Len(s) + (i - Len(s)) BY <1>3, <1>4, <2>2
      <4> QED BY <4>1
    <3>2. /\ HasOwner(r, 0, k, t, store) => HasOwner(u, 0, i, t, fs)
          /\ HasEntry(r, 0, k, t, store) => HasEntry(u, 0, i, t, fs)
      BY <1>6, <1>8, <1>9, <3>1 DEF HasOwner, HasEntry, Owner
    <3>3. IsOf(t, r[k], HasOwner(r, 0, k, t, store), HasEntry(r, 0, k, t, store))
      BY <1>5 DEF Belongs
    <3>4. u[i] = r[k] BY <1>3, <3>1
    <3> QED BY <3>2, <3>3, <3>4 DEF IsOf
  <2> QED BY <2>1, <2>2
<1>11. Belongs(u, 0, t, fs) BY <1>10 DEF Belongs
<1> QED BY <1>2, <1>11

(* A plan that does not touch what is kept: the profile, the registry and the*)
(* approvals' journals, and the Turns unless the relationship is registered. *)
Personal == {"profile", "registry", "approval of 1", "approval of 2"}

Quiet(plan, kept) == \A i \in 1..Len(plan) : plan[i].file \notin kept /\ plan[i].failing # "ignore"

LEMMA QuietBelongs ==
    ASSUME NEW plan, NEW kept, Quiet(plan, kept), Personal \subseteq kept, NEW t, NEW fs,
           Owner(fs) \in {Absent, t}, "turns" \in kept \/ t \in fs["registry"]
    PROVE  Belongs(plan, 0, t, fs)
<1>1. ASSUME NEW i \in 1..Len(plan)
      PROVE  IsOf(t, plan[i], HasOwner(plan, 0, i, t, fs), HasEntry(plan, 0, i, t, fs))
  BY <1>1 DEF Quiet, Personal, Approvals, IsOf, HasEntry
<1> QED BY <1>1 DEF Belongs

LEMMA QuietNone == ASSUME NEW kept PROVE Quiet(<<>>, kept)
BY EmptyIsSeq DEF Quiet

LEMMA QuietOne ==
    ASSUME NEW w, NEW kept, w.file \notin kept, w.failing # "ignore"
    PROVE  Quiet(<<w>>, kept)
<1>1. PICK plan : plan = <<w>> OBVIOUS
<1>2. Len(plan) = 1 /\ plan[1] = w BY <1>1, OneIsSeq
<1>3. Quiet(plan, kept) BY <1>2 DEF Quiet
<1> QED BY <1>1, <1>3

LEMMA PutSays == \A f, v : Put(f, v).file = f /\ Put(f, v).to = v /\ Put(f, v).failing = "raise"
BY DEF Put

LEMMA QuietPut ==
    ASSUME NEW f, NEW v, NEW kept, f \notin kept
    PROVE  Quiet(<<Put(f, v)>>, kept)
<1>1. Put(f, v).file = f /\ Put(f, v).failing = "raise" BY DEF Put
<1> QED BY <1>1, QuietOne

LEMMA QuietDeny ==
    ASSUME NEW why, NEW kept, kept \subseteq Personal \cup {"turns"}, Nothing \notin Documents
    PROVE  Quiet(<<Deny(why)>>, kept)
<1>1. Deny(why).file = Nothing /\ Deny(why).failing = "denied" BY DEF Deny
<1>2. Nothing \notin kept BY DEF Documents, Personal
<1> QED BY <1>1, <1>2, QuietOne

LEMMA QuietConcat ==
    ASSUME NEW s, NEW r, NEW kept, IsSeq(s), IsSeq(r),
           Quiet(s, kept), Quiet(r, kept)
    PROVE  Quiet(s \o r, kept)
<1>1. PICK u : u = s \o r OBVIOUS
<1>2. /\ Len(u) = Len(s) + Len(r)
      /\ \A i \in 1..Len(s) : u[i] = s[i]
      /\ \A i \in 1..Len(r) : u[Len(s) + i] = r[i]
  BY <1>1, ConcatIsSeq
<1>3. Len(s) \in Nat /\ Len(r) \in Nat BY DEF IsSeq
<1>4. ASSUME NEW i \in 1..Len(u)
      PROVE  (\E j \in 1..Len(s) : u[i] = s[j]) \/ (\E j \in 1..Len(r) : u[i] = r[j])
  <2>1. CASE i \in 1..Len(s) BY <1>2, <2>1
  <2>2. CASE i \notin 1..Len(s)
    <3>1. i - Len(s) \in 1..Len(r) /\ i = Len(s) + (i - Len(s)) BY <1>2, <1>3, <2>2
    <3> QED BY <1>2, <3>1
  <2> QED BY <2>1, <2>2
<1>5. Quiet(u, kept) BY <1>4 DEF Quiet
<1> QED BY <1>1, <1>5

LEMMA ReviewIsQuiet ==
    ASSUME NEW rev, NEW proposal, NEW to, NEW who, NEW expected, NEW fs,
           NEW kept, kept \subseteq Personal \cup {"turns"}, Nothing \notin Documents
    PROVE  /\ Quiet(SaveWrites(rev, proposal, fs), kept)
           /\ Quiet(DecideWrites(rev, to, who, expected, fs), kept)
           /\ Quiet(ApproveWrites(rev, who, expected, fs), kept)
<1>a. "compilations" \notin kept BY DEF Personal
<1>b. ASSUME NEW v PROVE Quiet(<<Put("compilations", v)>>, kept) BY <1>a, QuietPut
<1>1. /\ Quiet(<<>>, kept) /\ Quiet(<<Deny("rejected")>>, kept)
      /\ \A v : Quiet(<<Put("compilations", v)>>, kept)
  BY <1>b, QuietNone, QuietDeny
<1>2. Quiet(SaveWrites(rev, proposal, fs), kept) BY <1>1, Zenon DEF SaveWrites
<1>3. Quiet(DecideWrites(rev, to, who, expected, fs), kept)
  BY <1>1, Zenon DEF DecideWrites
<1>4. Quiet(ApproveWrites(rev, who, expected, fs), kept)
  BY <1>1, Zenon DEF ApproveWrites
<1> QED BY <1>2, <1>3, <1>4

LEMMA MissingIsQuiet ==
    ASSUME NEW pack, NEW fs, PackOK(pack), StoreOK(fs), NEW kept, kept \subseteq Personal \cup {"turns"}
    PROVE  Quiet(MissingRevisions(pack, fs), kept)
<1> DEFINE revs == pack.compilations.revisions
           k == Len(revs) - Latest(fs)
           all == Revisions(fs) \o [i \in 1..k |-> Proposed(revs[Latest(fs) + i].by)]
           made(i) == WithRevisions(fs, SubSeq(all, 1, Latest(fs) + i))
           plan == [i \in 1..k |-> Put("compilations", made(i))]
<1>1. plan = MissingRevisions(pack, fs) BY Zenon DEF MissingRevisions
<1>2. PlanOK(MissingRevisions(pack, fs), {}) BY MissingIsPlan
<1> HIDE DEF made, all, k
<1>3. DOMAIN plan = 1..k /\ \A i \in 1..k : plan[i] = Put("compilations", made(i)) OBVIOUS
<1> HIDE DEF plan
<1>4. DOMAIN plan = 1..Len(plan) BY <1>1, <1>2 DEF PlanOK, IsSeq
<1>5. \A i \in 1..Len(plan) : plan[i] = Put("compilations", made(i)) BY <1>3, <1>4
<1>a. "compilations" \notin kept /\ "timeline" \notin kept BY DEF Personal
<1>b. \A i \in 1..Len(plan) :
         plan[i].file \in {"compilations", "timeline"} /\ plan[i].failing = "raise"
  BY <1>5, PutSays
<1>6. Quiet(plan, kept) BY <1>a, <1>b DEF Quiet
<1> QED BY <1>1, <1>6

LEMMA TimelineIsQuiet ==
    ASSUME NEW op, NEW fs, PackOK(op.pack), NEW kept, kept \subseteq Personal \cup {"turns"}
    PROVE  Quiet(TimelineWrites(op, fs), kept)
<1> DEFINE k == Len(op.pack.timeline)
           grown(i) == fs["timeline"] \o SubSeq(op.pack.timeline, 1, i)
           plan == [i \in 1..k |-> Put("timeline", grown(i))]
<1>1. plan = TimelineWrites(op, fs) BY Zenon DEF TimelineWrites
<1>2. PlanOK(TimelineWrites(op, fs), {}) BY TimelineIsPlan
<1> HIDE DEF grown, k
<1>3. DOMAIN plan = 1..k /\ \A i \in 1..k : plan[i] = Put("timeline", grown(i)) OBVIOUS
<1> HIDE DEF plan
<1>4. DOMAIN plan = 1..Len(plan) BY <1>1, <1>2 DEF PlanOK, IsSeq
<1>5. \A i \in 1..Len(plan) : plan[i] = Put("timeline", grown(i)) BY <1>3, <1>4
<1>a. "compilations" \notin kept /\ "timeline" \notin kept BY DEF Personal
<1>b. \A i \in 1..Len(plan) :
         plan[i].file \in {"compilations", "timeline"} /\ plan[i].failing = "raise"
  BY <1>5, PutSays
<1>6. Quiet(plan, kept) BY <1>a, <1>b DEF Quiet
<1> QED BY <1>1, <1>6

(* The batches touch the Turns only when the relationship is registered, or  *)
(* is made before them.                                                      *)
LEMMA PayloadIsQuiet ==
    ASSUME NEW op, NEW fs, PackOK(op.pack), Nothing \notin Documents,
           NEW kept, kept \subseteq Personal \cup {"turns"},
           Registered(op, fs) => "turns" \notin kept
    PROVE  Quiet(PayloadWrites(op, fs), kept)
<1>c. PICK none : none = {} OBVIOUS
<1>0. PlanOK(<<>>, none) /\ Quiet(<<>>, kept) BY EmptyPlan, QuietNone
<1>a. ASSUME NEW f \in {"nodes", "core", "ledger"}, NEW v
      PROVE  PlanOK(<<Put(f, v)>>, none) /\ Quiet(<<Put(f, v)>>, kept)
  <2>1. f \in Plain /\ f \notin kept BY DEF Plain, Personal
  <2>2. PlanOK(<<Put(f, v)>>, none) BY <1>c, <2>1, PlainPlan
  <2>3. Quiet(<<Put(f, v)>>, kept) BY <2>1, QuietPut
  <2> QED BY <2>2, <2>3
<1>1. PICK a : a = <<Put("nodes", Merged(op, fs))>> OBVIOUS
<1>2. PlanOK(a, none) /\ Quiet(a, kept) BY <1>1, <1>a
<1>3. PICK b : b = CoreWrites(op, fs) OBVIOUS
<1>4. PlanOK(b, none) /\ Quiet(b, kept)
  <2>1. /\ PlanOK(<<Put("core", op.pack.core)>>, none)
        /\ Quiet(<<Put("core", op.pack.core)>>, kept)
    BY <1>a
  <2> QED BY <1>0, <1>3, <2>1, Zenon DEF CoreWrites
<1>5. PICK c : c = TimelineWrites(op, fs) OBVIOUS
<1>6. PlanOK(c, none) /\ Quiet(c, kept) BY <1>5, <1>c, TimelineIsPlan, TimelineIsQuiet
<1>7. PICK d : d = TurnWrites(op, fs) OBVIOUS
<1>8. PlanOK(d, none) /\ Quiet(d, kept)
  <2>1. PICK turns : turns = op.pack.turns OBVIOUS
  <2>2. PICK new : new = NewTurns(turns, fs)[Len(turns)] OBVIOUS
  <2>3. IsSeq(turns) /\ Len(turns) \in Nat /\ Len(turns) \in 0..Len(turns)
    BY <2>1 DEF PackOK, IsSeq
  <2>4. PlanOK(new, none) /\ WritesTurns(new) BY <1>c, <2>2, <2>3, NewTurnsArePlans
  <2>5. PlanOK(<<Deny("rejected")>>, none) /\ Quiet(<<Deny("rejected")>>, kept)
    BY <1>c, DenyPlan, QuietDeny
  <2>6. d = IF turns # <<>> /\ ~Registered(op, fs) THEN <<Deny("rejected")>> ELSE new
    BY <1>7, <2>1, <2>2, Zenon DEF TurnWrites
  <2>7. CASE "turns" \notin kept
    <3>1. Quiet(new, kept) BY <2>4, <2>7 DEF Quiet, WritesTurns, Personal
    <3> QED BY <2>4, <2>5, <2>6, <3>1
  <2>8. CASE "turns" \in kept /\ turns # <<>> BY <2>5, <2>6, <2>8
  <2>9. CASE "turns" \in kept /\ turns = <<>>
    <3>1. Len(turns) = 0 BY <2>9, EmptyIsSeq
    <3>2. NewTurns(turns, fs) = [n \in 0..Len(turns) |->
                                    TurnStep(turns, fs, n, NewTurns(turns, fs)[n - 1])]
      BY <2>3, NewTurnsRecursion
    <3>3. PICK w : w = NewTurns(turns, fs) OBVIOUS
    <3>4. w[0] = TurnStep(turns, fs, 0, w[0 - 1]) BY <3>1, <3>2, <3>3
    <3>5. new = <<>> BY <2>2, <3>1, <3>3, <3>4, Zenon DEF TurnStep
    <3> QED BY <1>0, <2>6, <2>9, <3>5
  <2> QED BY <2>7, <2>8, <2>9
<1>9. PICK e : e = TombstoneWrites(op, fs) OBVIOUS
<1>10. PlanOK(e, none) /\ Quiet(e, kept)
  <2>1. \A v : PlanOK(<<Put("ledger", v)>>, none) /\ Quiet(<<Put("ledger", v)>>, kept)
    BY <1>a
  <2> QED BY <1>0, <1>9, <2>1, Zenon DEF TombstoneWrites
<1>11. ASSUME NEW s, NEW r, PlanOK(s, none) /\ Quiet(s, kept),
              PlanOK(r, none) /\ Quiet(r, kept)
       PROVE  PlanOK(s \o r, none) /\ Quiet(s \o r, kept)
  <2>1. PlanOK(s \o r, none) BY <1>11, ConcatPlan
  <2>2. IsSeq(s) /\ IsSeq(r) BY <1>11 DEF PlanOK
  <2> QED BY <1>11, <2>1, <2>2, QuietConcat
<1>12. PICK ab : ab = a \o b OBVIOUS
<1>13. PlanOK(ab, none) /\ Quiet(ab, kept) BY <1>2, <1>4, <1>11, <1>12
<1>14. PICK abc : abc = ab \o c OBVIOUS
<1>15. PlanOK(abc, none) /\ Quiet(abc, kept) BY <1>6, <1>11, <1>13, <1>14
<1>16. PICK abcd : abcd = abc \o d OBVIOUS
<1>17. PlanOK(abcd, none) /\ Quiet(abcd, kept) BY <1>8, <1>11, <1>15, <1>16
<1>18. Quiet(abcd \o e, kept) BY <1>10, <1>11, <1>17
<1> QED BY <1>1, <1>3, <1>5, <1>7, <1>9, <1>12, <1>14, <1>16, <1>18, Zenon DEF PayloadWrites

LEMMA WrittenKeepsOwner ==
    ASSUME NEW plan, NEW closed, PlanOK(plan, closed), NEW fs, StoreOK(fs), Owned(fs),
           NEW t, t # Absent, Belongs(plan, 0, t, fs), NEW gs, gs = Written(plan, fs)
    PROVE  /\ StoreOK(gs) /\ Owned(gs) /\ Owner(gs) \in {Absent, t}
           /\ HasOwner(plan, 0, Len(plan) + 1, t, fs) => Owner(gs) = t
           /\ HasEntry(plan, 0, Len(plan) + 1, t, fs) => t \in gs["registry"]
<1>1. PICK skipped : skipped = {} OBVIOUS
<1>2. IsSeq(plan) BY DEF PlanOK
<1>3. Without(plan, skipped) = plan /\ skipped \subseteq Ignored(plan) BY <1>1, <1>2, WithoutNone
<1>4. gs = Written(Without(plan, skipped), fs) BY <1>3
<1> QED BY <1>3, <1>4, PlanKeepsOwner

LEMMA EachBelongs ==
    ASSUME NEW plan, NEW t, NEW fs, Owner(fs) \in {Absent, t},
           \A i \in 1..Len(plan) : IsOf(t, plan[i], Owner(fs) = t, t \in fs["registry"])
    PROVE  Belongs(plan, 0, t, fs)
<1>1. ASSUME NEW i \in 1..Len(plan)
      PROVE  IsOf(t, plan[i], HasOwner(plan, 0, i, t, fs), HasEntry(plan, 0, i, t, fs))
  <2>1. IsOf(t, plan[i], Owner(fs) = t, t \in fs["registry"]) OBVIOUS
  <2> QED BY <2>1 DEF IsOf, HasOwner, HasEntry
<1> QED BY <1>1 DEF Belongs

LEMMA InstallBelongs ==
    ASSUME NEW image, NEW file \in Approvals, NEW failing \in {"raise", "again"}, NEW t, NEW fs,
           Owner(fs) \in {Absent, t}, IsProfile(image.profile), image.profile.rel = t
    PROVE  Belongs(Install(image, file, failing), 0, t, fs)
<1> DEFINE a == [Put("compilations", image.compilations) EXCEPT !.failing = failing]
           b == [Put("profile", image.profile) EXCEPT !.failing = failing]
           c == [Put(file, Absent) EXCEPT !.failing = "ignore"]
<1>1. /\ a.file = "compilations" /\ a.failing = failing
      /\ b.file = "profile" /\ b.to = image.profile /\ b.failing = failing
      /\ c.file = file /\ c.to = Absent
  BY DEF Put
<1> HIDE DEF a, b, c
<1>2. \A owned, registered \in BOOLEAN :
         /\ IsOf(t, a, owned, registered) /\ IsOf(t, b, owned, registered)
         /\ IsOf(t, c, owned, registered)
  BY <1>1 DEF IsOf, Approvals
<1>3. PICK plan : plan = <<a, b, c>> OBVIOUS
<1>4. Len(plan) = 3 /\ plan[1] = a /\ plan[2] = b /\ plan[3] = c BY <1>3
<1>5. \A i \in 1..Len(plan) : plan[i] \in {a, b, c}
  <2>1. \A i \in 1..Len(plan) : i = 1 \/ i = 2 \/ i = 3 BY <1>4
  <2> QED BY <1>4, <2>1
<1>6. (Owner(fs) = t) \in BOOLEAN /\ (t \in fs["registry"]) \in BOOLEAN OBVIOUS
<1>7. \A i \in 1..Len(plan) : IsOf(t, plan[i], Owner(fs) = t, t \in fs["registry"])
  BY <1>2, <1>5, <1>6
<1>8. Belongs(plan, 0, t, fs) BY <1>7, EachBelongs
<1> QED BY <1>3, <1>8, Zenon DEF Install, a, b, c

LEMMA LeftoverBelongs ==
    ASSUME NEW rev, NEW fs, Owned(fs), NEW t, Owner(fs) \in {Absent, t}
    PROVE  Belongs(Leftover(rev, fs), 0, t, fs)
<1>1. PICK file : file = ApprovalJournal(rev) OBVIOUS
<1>2. file \in Approvals BY <1>1, JournalIsApproval
<1>3. CASE fs[file] = Absent
  <2>1. Leftover(rev, fs) = <<>> BY <1>1, <1>3, Zenon DEF Leftover
  <2>2. Quiet(<<>>, Personal \cup {"turns"}) BY QuietNone
  <2>3. Belongs(<<>>, 0, t, fs) BY <2>2, QuietBelongs
  <2> QED BY <2>1, <2>3
<1>4. CASE fs[file] # Absent
  <2>1. PICK image : image = fs[file] OBVIOUS
  <2>2. IsProfile(image.profile) /\ image.profile.rel = t BY <1>2, <1>4, <2>1 DEF Owned
  <2>3. Belongs(Install(image, file, "raise"), 0, t, fs) BY <1>2, <2>2, InstallBelongs
  <2>4. Leftover(rev, fs) = Install(image, file, "raise")
    BY <1>1, <1>4, <2>1, Zenon DEF Leftover
  <2> QED BY <2>3, <2>4
<1> QED BY <1>3, <1>4

LEMMA JournalledBelongs ==
    ASSUME NEW image, NEW rev, IsCompilations(image.compilations), NEW fs, StoreOK(fs),
           NEW t, Owner(fs) = t, IsProfile(image.profile), image.profile.rel = t
    PROVE  Belongs(Journalled(image, rev), 0, t, fs)
<1>1. PICK none : none = {} OBVIOUS
<1>2. PICK file : file = ApprovalJournal(rev) OBVIOUS
<1>3. file \in Approvals BY <1>2, JournalIsApproval
<1>4. PICK s : s = <<Put(file, image)>> OBVIOUS
<1>5. PlanOK(s, none)
  <2>1. Fits(file, image) /\ file \notin none BY <1>1, <1>3 DEF Fits, Approvals
  <2> QED BY <1>4, <2>1, PutPlan, SMTT(30)
<1>6. Len(s) = 1 /\ s[1] = Put(file, image) BY <1>4, OneIsSeq
<1>7. Belongs(s, 0, t, fs)
  <2>1. IsOf(t, Put(file, image), Owner(fs) = t, t \in fs["registry"])
    <3>1. PICK w : w = Put(file, image) OBVIOUS
    <3>2. w.file = file /\ w.to = image /\ w.failing = "raise" BY <3>1, PutSays
    <3>3. file \notin {"profile", "registry", "turns"} BY <1>3 DEF Approvals
    <3>4. IsOf(t, w, Owner(fs) = t, t \in fs["registry"]) BY <3>2, <3>3 DEF IsOf
    <3> QED BY <3>1, <3>4
  <2>2. \A i \in 1..Len(s) : IsOf(t, s[i], Owner(fs) = t, t \in fs["registry"])
    BY <1>6, <2>1
  <2> QED BY <2>2, EachBelongs
<1>8. PICK store : store = Written(s, fs) OBVIOUS
<1>9. Owner(store) = t
  <2>1. "profile" \in DOMAIN fs BY DEF StoreOK, Documents
  <2>2. store["profile"] = fs["profile"]
    <3>1. file # "profile" BY <1>3 DEF Approvals
    <3>2. s[1].file # "profile" BY <1>6, <3>1, PutSays
    <3>3. \A i \in 1..1 : s[i].file # "profile" BY <3>2
    <3> QED BY <1>6, <1>8, <2>1, <3>3, AfterIsOldOrWritten DEF Written
  <2> QED BY <2>2 DEF Owner
<1>10. PICK r : r = Install(image, file, "again") OBVIOUS
<1>11. PlanOK(r, none) BY <1>1, <1>3, <1>10, InstallIsPlan
<1>12. Belongs(r, 0, t, store) BY <1>3, <1>9, <1>10, InstallBelongs
<1>13. Belongs(s \o r, 0, t, fs) BY <1>5, <1>7, <1>8, <1>11, <1>12, ConcatBelongs
<1> QED BY <1>2, <1>4, <1>10, <1>13, Zenon DEF Journalled

LEMMA RebindingBelongs ==
    ASSUME NEW v, IsProfile(v), NEW rev
    PROVE  IsProfile([v EXCEPT !.manifest = rev]) /\ [v EXCEPT !.manifest = rev].rel = v.rel
BY DEF IsProfile

LEMMA ApprovalBelongs ==
    ASSUME NEW rev, NEW rel, NEW who, NEW expected, NEW fs, StoreOK(fs), Owned(fs),
           Nothing \notin Documents, rel # Absent, NEW t, Owner(fs) \in {Absent, t}
    PROVE  Belongs(Approval(rev, rel, who, expected, fs), 0, t, fs)
<1> DEFINE kept == Personal \cup {"turns"}
<1>1. Belongs(<<>>, 0, t, fs) /\ Belongs(<<Deny("rejected")>>, 0, t, fs)
  <2>1. Quiet(<<>>, kept) /\ Quiet(<<Deny("rejected")>>, kept) BY QuietNone, QuietDeny
  <2> QED BY <2>1, QuietBelongs
<1>2. PICK image : image = ApprovalImage(rev, who, fs) OBVIOUS
<1>3. IsCompilations(image.compilations) BY <1>2, ApprovedFits DEF ApprovalImage
<1>4. IsProfile(image.profile) /\ image.profile.rel = Owner(fs)
  <2>1. image.profile = [fs["profile"] EXCEPT !.manifest = rev] BY <1>2 DEF ApprovalImage
  <2>2. PICK v : v = fs["profile"] OBVIOUS
  <2>3. IsProfile(v) BY <2>2 DEF Owned
  <2> QED BY <2>1, <2>2, <2>3, RebindingBelongs DEF Owner
<1>5. ASSUME Owner(fs) = t
      PROVE  /\ Belongs(Journalled(image, rev), 0, t, fs)
             /\ Belongs(<<Put("compilations", image.compilations),
                          Put("profile", image.profile)>>, 0, t, fs)
  <2>1. Belongs(Journalled(image, rev), 0, t, fs) BY <1>3, <1>4, <1>5, JournalledBelongs
  <2>2. PICK a : a = Put("compilations", image.compilations) OBVIOUS
  <2>3. PICK b : b = Put("profile", image.profile) OBVIOUS
  <2>4. PICK plan : plan = <<a, b>> OBVIOUS
  <2>5. Len(plan) = 2 /\ plan[1] = a /\ plan[2] = b BY <2>4
  <2>a. a.file = "compilations" /\ a.failing = "raise" BY <2>2, PutSays
  <2>b. b.file = "profile" /\ b.failing = "raise" /\ b.to = image.profile
    BY <2>3, PutSays
  <2>c. IsOf(t, a, Owner(fs) = t, t \in fs["registry"]) BY <2>a DEF IsOf, Approvals
  <2>d. IsProfile(b.to) /\ b.to.rel = t BY <1>4, <1>5, <2>b
  <2>e. IsOf(t, b, Owner(fs) = t, t \in fs["registry"])
    BY <2>b, <2>d DEF IsOf, Approvals
  <2>6. /\ IsOf(t, a, Owner(fs) = t, t \in fs["registry"])
        /\ IsOf(t, b, Owner(fs) = t, t \in fs["registry"])
    BY <2>c, <2>e
  <2>7. \A i \in 1..Len(plan) : plan[i] = a \/ plan[i] = b BY <2>5
  <2>8. Belongs(plan, 0, t, fs) BY <2>6, <2>7, EachBelongs
  <2> QED BY <2>1, <2>2, <2>3, <2>4, <2>8
<1>6. ApprovalRefused(rev, rel, who, expected, fs) \/ Owner(fs) = t
  BY DEF ApprovalRefused, Owner
<1> QED BY <1>1, <1>2, <1>5, <1>6, Zenon DEF Approval

LEMMA ApproveAndBindBelongs ==
    ASSUME NEW rev, NEW rel, NEW who, NEW expected, NEW fs, StoreOK(fs), Owned(fs),
           Nothing \notin Documents, rel # Absent, NEW t, Owner(fs) \in {Absent, t}, t # Absent
    PROVE  Belongs(ApproveAndBind(rev, rel, who, expected, fs), 0, t, fs)
<1>0. PICK none : none = {} OBVIOUS
<1>1. none \subseteq {"receipts"} BY <1>0
<1>2. PICK left : left = Leftover(rev, fs) OBVIOUS
<1>3. PlanOK(left, none) BY <1>1, <1>2, LeftoverIsPlan
<1>4. Belongs(left, 0, t, fs) BY <1>2, LeftoverBelongs
<1>5. PICK store : store = Written(left, fs) OBVIOUS
<1>6. StoreOK(store) /\ Owned(store) /\ Owner(store) \in {Absent, t}
  BY <1>3, <1>4, <1>5, WrittenKeepsOwner
<1>7. PICK r : r = Approval(rev, rel, who, expected, store) OBVIOUS
<1>8. PlanOK(r, none) BY <1>1, <1>6, <1>7, ApprovalIsPlan
<1>9. Belongs(r, 0, t, store) BY <1>6, <1>7, ApprovalBelongs
<1>10. Belongs(left \o r, 0, t, fs) BY <1>3, <1>4, <1>5, <1>8, <1>9, ConcatBelongs
<1> QED BY <1>2, <1>5, <1>7, <1>10, Zenon DEF ApproveAndBind

LEMMA ReplaysBelong ==
    ASSUME NEW fs, StoreOK(fs), Owned(fs), NEW t, Owner(fs) \in {Absent, t}, t # Absent
    PROVE  Belongs(Replays(fs), 0, t, fs)
<1>0. PICK none : none = {} OBVIOUS
<1>1. none \subseteq {"receipts"} BY <1>0
<1>2. PICK a : a = Leftover(1, fs) OBVIOUS
<1>3. PICK b : b = Leftover(2, fs) OBVIOUS
<1>4. PlanOK(a, none) /\ PlanOK(b, none) BY <1>1, <1>2, <1>3, LeftoverIsPlan
<1>5. Belongs(a, 0, t, fs) /\ Belongs(b, 0, t, fs) BY <1>2, <1>3, LeftoverBelongs
<1>6. PICK store : store = Written(a, fs) OBVIOUS
<1>7. StoreOK(store) /\ Owned(store) /\ Owner(store) \in {Absent, t}
  BY <1>4, <1>5, <1>6, WrittenKeepsOwner
<1>8. Belongs(b, 0, t, store)
  <2>1. PICK file : file = ApprovalJournal(2) OBVIOUS
  <2>2. file \in Approvals BY <2>1, JournalIsApproval
  <2>3. CASE fs[file] = Absent
    <3>1. b = <<>> BY <1>3, <2>1, <2>3, Zenon DEF Leftover
    <3>2. Quiet(b, Personal \cup {"turns"}) BY <3>1, QuietNone
    <3> QED BY <1>7, <3>2, QuietBelongs
  <2>4. CASE fs[file] # Absent
    <3>1. PICK image : image = fs[file] OBVIOUS
    <3>2. IsProfile(image.profile) /\ image.profile.rel = t
      BY <2>2, <2>4, <3>1 DEF Owned
    <3>3. Belongs(Install(image, file, "raise"), 0, t, store)
      BY <1>7, <2>2, <3>2, InstallBelongs
    <3>4. b = Install(image, file, "raise") BY <1>3, <2>1, <2>4, <3>1, Zenon DEF Leftover
    <3> QED BY <3>3, <3>4
  <2> QED BY <2>3, <2>4
<1>9. Belongs(a \o b, 0, t, fs) BY <1>4, <1>5, <1>6, <1>8, ConcatBelongs
<1> QED BY <1>2, <1>3, <1>9, Zenon DEF Replays

LEMMA WrittenStays ==
    ASSUME NEW plan, NEW closed, PlanOK(plan, closed), NEW fs, StoreOK(fs), Owned(fs),
           NEW t, t # Absent, Belongs(plan, 0, t, fs), NEW gs, gs = Written(plan, fs),
           Owner(fs) = t
    PROVE  StoreOK(gs) /\ Owned(gs) /\ Owner(gs) = t
<1>1. HasOwner(plan, 0, Len(plan) + 1, t, fs) BY DEF HasOwner
<1> QED BY <1>1, WrittenKeepsOwner

LEMMA BindBelongs ==
    ASSUME NEW rev, NEW fs, Owned(fs), Nothing \notin Documents, NEW t, Owner(fs) = t
    PROVE  Belongs(BindWrites(rev, fs), 0, t, fs)
<1>1. PICK v : v = [fs["profile"] EXCEPT !.manifest = rev] OBVIOUS
<1>2. IsProfile(v) /\ v.rel = t
  <2>1. PICK u : u = fs["profile"] OBVIOUS
  <2>2. IsProfile(u) /\ u.rel = t BY <2>1 DEF Owned, Owner
  <2> QED BY <1>1, <2>1, <2>2, RebindingBelongs
<1>3. PICK w : w = Put("profile", v) OBVIOUS
<1>4. w.file = "profile" /\ w.to = v /\ w.failing = "raise" BY <1>3, PutSays
<1>5. IsOf(t, w, Owner(fs) = t, t \in fs["registry"]) BY <1>2, <1>4 DEF IsOf, Approvals
<1>6. PICK s : s = <<w>> OBVIOUS
<1>7. Len(s) = 1 /\ s[1] = w BY <1>6, OneIsSeq
<1>8. \A i \in 1..Len(s) : s[i] = w BY <1>7
<1>9. Belongs(s, 0, t, fs) BY <1>5, <1>8, EachBelongs
<1>10. Belongs(<<>>, 0, t, fs) /\ Belongs(<<Deny("rejected")>>, 0, t, fs)
  <2> DEFINE kept == Personal \cup {"turns"}
  <2>1. Quiet(<<>>, kept) /\ Quiet(<<Deny("rejected")>>, kept) BY QuietNone, QuietDeny
  <2> QED BY <2>1, QuietBelongs
<1>11. Belongs(<<Put("profile", v)>>, 0, t, fs) BY <1>3, <1>6, <1>9
<1> QED BY <1>1, <1>10, <1>11, Zenon DEF BindWrites

LEMMA ImportDecisionBelongs ==
    ASSUME NEW pack, NEW rev, NEW fs, StoreOK(fs), Owned(fs), Nothing \notin Documents,
           NEW t, Owner(fs) = t, t # Absent
    PROVE  Belongs(ImportDecision(pack, rev, fs), 0, t, fs)
<1> DEFINE kept == Personal \cup {"turns"}
<1>0. ASSUME NEW s, Quiet(s, kept) PROVE Belongs(s, 0, t, fs) BY <1>0, QuietBelongs
<1>a. PICK none : none = {} OBVIOUS
<1>b. none \subseteq {"receipts"} BY <1>a
<1>1. PICK new : new = pack.compilations.revisions[rev] OBVIOUS
<1>2. PICK now : now = Status(fs, rev) OBVIOUS
<1>3. PICK who : who = Approver(pack, rev) OBVIOUS
<1>4. PICK bound : bound = ApproveAndBind(rev, fs["profile"].rel, who, now, fs) OBVIOUS
<1>5. PICK approved : approved = IF now = "pending"
                                 THEN ApproveWrites(rev, who, "pending", fs) ELSE <<>>
  OBVIOUS
<1>6. PICK store : store = Written(approved, fs) OBVIOUS
<1>7. PICK revoked : revoked = IF now = "revoked" THEN <<>>
                               ELSE DecideWrites(rev, "revoked", new.decider, "approved", store)
  OBVIOUS
<1>8. PICK rejected : rejected = DecideWrites(rev, "rejected", new.decider, "pending", fs)
  OBVIOUS
<1>9. Belongs(bound, 0, t, fs)
  <2>1. fs["profile"].rel = t BY DEF Owner
  <2>2. Belongs(ApproveAndBind(rev, t, who, now, fs), 0, t, fs)
    BY ApproveAndBindBelongs
  <2> QED BY <1>4, <2>1, <2>2
<1>10. PlanOK(approved, none) /\ Quiet(approved, kept)
  <2>1. PlanOK(approved, none) BY <1>b, <1>5, ApproveIsPlan, EmptyPlan
  <2>2. Quiet(approved, kept) BY <1>b, <1>5, ReviewIsQuiet, QuietNone
  <2> QED BY <2>1, <2>2
<1>11. PlanOK(revoked, none) /\ Quiet(revoked, kept)
  <2>1. StoreOK(store) BY <1>6, <1>10, WrittenFits
  <2>2. PlanOK(revoked, none) BY <1>b, <1>7, <2>1, DecideIsPlan, EmptyPlan, ZenonT(30)
  <2>3. Quiet(revoked, kept) BY <1>b, <1>7, <2>1, ReviewIsQuiet, QuietNone
  <2> QED BY <2>2, <2>3
<1>12. Quiet(approved \o revoked, kept)
  <2>1. IsSeq(approved) /\ IsSeq(revoked) BY <1>10, <1>11 DEF PlanOK
  <2> QED BY <1>10, <1>11, <2>1, QuietConcat
<1>13. Quiet(rejected, kept) /\ Quiet(<<>>, kept) BY <1>8, ReviewIsQuiet, QuietNone
<1>14. /\ Belongs(approved, 0, t, fs) /\ Belongs(approved \o revoked, 0, t, fs)
       /\ Belongs(rejected, 0, t, fs) /\ Belongs(<<>>, 0, t, fs)
  BY <1>0, <1>10, <1>12, <1>13
<1>15. ImportDecision(pack, rev, fs) =
         CASE new.status = "approved" /\ pack.compilations.pin = rev -> bound
           [] new.status = "approved" /\ pack.compilations.pin # rev -> approved
           [] new.status = "revoked"  -> approved \o revoked
           [] new.status = "rejected" /\ now = "pending" -> rejected
           [] OTHER -> <<>>
  BY <1>1, <1>2, <1>3, <1>4, <1>5, <1>6, <1>7, <1>8 DEF ImportDecision
<1> QED BY <1>9, <1>14, <1>15

LEMMA DecisionWritesBelong ==
    ASSUME NEW pack, NEW fs, PackOK(pack), StoreOK(fs), Owned(fs), Nothing \notin Documents,
           NEW t, Owner(fs) = t, t # Absent
    PROVE  Belongs(DecisionWrites(pack, fs)[Len(pack.compilations.revisions)], 0, t, fs)
<1> DEFINE L == Len(pack.compilations.revisions)
           writes == DecisionWrites(pack, fs)
<1>a. PICK none : none = {} OBVIOUS
<1>b. none \subseteq {"receipts"} BY <1>a
<1> DEFINE S == {n \in Nat : n <= L => PlanOK(writes[n], none) /\ Belongs(writes[n], 0, t, fs)}
<1>1. L \in Nat BY DEF PackOK, IsSeq
<1>2. \A n \in 0..L : writes[n] = DecisionStep(pack, fs, n, writes[n - 1])
  <2>1. PICK w : w = writes OBVIOUS
  <2>2. w = [n \in 0..L |-> DecisionStep(pack, fs, n, w[n - 1])]
    BY <2>1, DecisionWritesRecursion
  <2>3. \A n \in 0..L : w[n] = DecisionStep(pack, fs, n, w[n - 1]) BY <2>2
  <2> QED BY <2>1, <2>3
<1> HIDE DEF writes, L
<1>3. 0 \in S
  <2>1. PICK first : first = MissingRevisions(pack, fs) OBVIOUS
  <2>2. writes[0] = first BY <1>1, <1>2, <2>1 DEF DecisionStep
  <2>3. PlanOK(first, none) BY <1>b, <2>1, MissingIsPlan
  <2>4. Quiet(first, Personal \cup {"turns"}) BY <2>1, MissingIsQuiet
  <2>5. Belongs(first, 0, t, fs) BY <2>4, QuietBelongs
  <2> QED BY <2>2, <2>3, <2>5
<1>4. ASSUME NEW n \in Nat, n \in S PROVE n + 1 \in S
  <2>1. SUFFICES ASSUME n + 1 <= L
                 PROVE  PlanOK(writes[n + 1], none) /\ Belongs(writes[n + 1], 0, t, fs)
    OBVIOUS
  <2>2. PICK before : before = writes[n] OBVIOUS
  <2>3. PlanOK(before, none) /\ Belongs(before, 0, t, fs) BY <1>1, <1>4, <2>1, <2>2
  <2>4. n + 1 \in 0..L /\ (n + 1) - 1 = n /\ n + 1 # 0 BY <1>1, <2>1
  <2>5. writes[n + 1] = before \o ImportDecision(pack, n + 1, Written(before, fs))
    BY <1>2, <2>2, <2>4 DEF DecisionStep
  <2>6. PICK store : store = Written(before, fs) OBVIOUS
  <2>7. StoreOK(store) /\ Owned(store) /\ Owner(store) = t BY <2>3, <2>6, WrittenStays
  <2>8. PICK next : next = ImportDecision(pack, n + 1, store) OBVIOUS
  <2>9. PlanOK(next, none) BY <1>b, <2>7, <2>8, ImportDecisionIsPlan
  <2>10. Belongs(next, 0, t, store) BY <2>7, <2>8, ImportDecisionBelongs
  <2>11. PlanOK(before \o next, none) BY <2>3, <2>9, ConcatPlan
  <2>12. Belongs(before \o next, 0, t, fs) BY <2>3, <2>6, <2>9, <2>10, ConcatBelongs
  <2> QED BY <2>5, <2>6, <2>8, <2>11, <2>12
<1>5. L \in S
  <2> HIDE DEF S
  <2> QED BY <1>1, <1>3, <1>4, Induction
<1>6. Belongs(writes[L], 0, t, fs) BY <1>1, <1>5
<1> QED BY <1>6 DEF writes, L

LEMMA CompilationBelongs ==
    ASSUME NEW pack, NEW fs, PackOK(pack), StoreOK(fs), Owned(fs), Nothing \notin Documents,
           NEW t, Owner(fs) = t, t # Absent
    PROVE  Belongs(CompilationWrites(pack, fs), 0, t, fs)
<1>a. PICK none : none = {} OBVIOUS
<1>b. none \subseteq {"receipts"} BY <1>a
<1>1. PICK decided : decided = DecisionWrites(pack, fs)[Len(pack.compilations.revisions)]
  OBVIOUS
<1>2. PlanOK(decided, none) BY <1>b, <1>1, DecisionWritesArePlans
<1>3. Belongs(decided, 0, t, fs) BY <1>1, DecisionWritesBelong
<1>4. PICK store : store = Written(decided, fs) OBVIOUS
<1>5. StoreOK(store) /\ Owned(store) /\ Owner(store) = t BY <1>2, <1>3, <1>4, WrittenStays
<1>6. PICK rest : rest = IF pack.compilations.pin = 0 THEN <<>>
                         ELSE BindWrites(pack.compilations.pin, store)
  OBVIOUS
<1>7. PlanOK(rest, none) BY <1>b, <1>6, BindIsPlan, EmptyPlan
<1>8. Belongs(rest, 0, t, store)
  <2>1. Belongs(BindWrites(pack.compilations.pin, store), 0, t, store)
    BY <1>5, BindBelongs
  <2>2. Quiet(<<>>, Personal \cup {"turns"}) BY QuietNone
  <2>3. Belongs(<<>>, 0, t, store) BY <1>5, <2>2, QuietBelongs
  <2> QED BY <1>6, <2>1, <2>3
<1>9. Belongs(decided \o rest, 0, t, fs) BY <1>2, <1>3, <1>4, <1>7, <1>8, ConcatBelongs
<1>10. CompilationWrites(pack, fs) = decided \o rest
  BY <1>1, <1>4, <1>6, Zenon DEF CompilationWrites
<1> QED BY <1>9, <1>10

(* What is certain when a plan ends.                                         *)
Sure(plan, t, fs) ==
    /\ HasOwner(plan, 0, Len(plan) + 1, t, fs)
    /\ HasEntry(plan, 0, Len(plan) + 1, t, fs)

LEMMA ConcatKeepsSaying ==
    ASSUME NEW s, NEW r, IsSeq(s), IsSeq(r), NEW t, NEW fs
    PROVE  /\ HasOwner(s, 0, Len(s) + 1, t, fs)
                => HasOwner(s \o r, 0, Len(s \o r) + 1, t, fs)
           /\ HasEntry(s, 0, Len(s) + 1, t, fs)
                => HasEntry(s \o r, 0, Len(s \o r) + 1, t, fs)
<1>1. PICK u : u = s \o r OBVIOUS
<1>2. Len(u) = Len(s) + Len(r) /\ \A i \in 1..Len(s) : u[i] = s[i]
  BY <1>1, ConcatIsSeq
<1>3. Len(s) \in Nat /\ Len(r) \in Nat BY DEF IsSeq
<1>4. ASSUME NEW file, Named(file, s, 0, Len(s) + 1)
      PROVE  Named(file, u, 0, Len(u) + 1)
  <2>1. PICK j \in 1..Len(s) : s[j].file = file BY <1>3, <1>4 DEF Named
  <2>2. j \in (0 + 1)..((Len(u) + 1) - 1) /\ u[j].file = file BY <1>2, <1>3, <2>1
  <2> QED BY <2>2 DEF Named
<1>5. /\ HasOwner(s, 0, Len(s) + 1, t, fs) => HasOwner(u, 0, Len(u) + 1, t, fs)
      /\ HasEntry(s, 0, Len(s) + 1, t, fs) => HasEntry(u, 0, Len(u) + 1, t, fs)
  BY <1>4 DEF HasOwner, HasEntry
<1> QED BY <1>1, <1>5

(* A relationship is made by its profile and then by its entry.              *)
LEMMA FoundingBelongs ==
    ASSUME NEW fs, Owned(fs), Owner(fs) = Absent, NEW t, NEW pin,
           NEW plan, plan = <<Put("profile", [rel |-> t, manifest |-> pin]),
                              Put("registry", fs["registry"] \cup {t})>>
    PROVE  Belongs(plan, 0, t, fs) /\ Sure(plan, t, fs)
<1>1. fs["registry"] \cup {t} = {t} BY DEF Owned
<1>2. PICK v : v = [rel |-> t, manifest |-> pin] OBVIOUS
<1>3. PICK entries : entries = fs["registry"] \cup {t} OBVIOUS
<1>4. PICK a : a = Put("profile", v) OBVIOUS
<1>5. PICK b : b = Put("registry", entries) OBVIOUS
<1>6. a.file = "profile" /\ a.to = v /\ a.failing = "raise" BY <1>4, PutSays
<1>7. b.file = "registry" /\ b.to = {t} /\ b.failing = "raise" BY <1>1, <1>3, <1>5, PutSays
<1>8. plan = <<a, b>> BY <1>2, <1>3, <1>4, <1>5
<1>9. Len(plan) = 2 /\ plan[1] = a /\ plan[2] = b BY <1>8
<1>10. IsProfile(v) /\ v.rel = t BY <1>2 DEF IsProfile
<1>11. \A owned, registered \in BOOLEAN : IsOf(t, a, owned, registered)
  BY <1>6, <1>10 DEF IsOf, Approvals
<1>12. \A owned, registered \in BOOLEAN : owned => IsOf(t, b, owned, registered)
  BY <1>7 DEF IsOf, Approvals
<1>13. ASSUME NEW i \in 2..3 PROVE HasOwner(plan, 0, i, t, fs)
  <2>1. 1 \in (0 + 1)..(i - 1) OBVIOUS
  <2> QED BY <1>6, <1>9, <2>1 DEF HasOwner, Named
<1>14. HasEntry(plan, 0, 3, t, fs)
  <2>1. 2 \in (0 + 1)..(3 - 1) OBVIOUS
  <2> QED BY <1>7, <1>9, <2>1 DEF HasEntry, Named
<1>15. ASSUME NEW i \in 1..2
       PROVE  IsOf(t, plan[i], HasOwner(plan, 0, i, t, fs), HasEntry(plan, 0, i, t, fs))
  <2>1. /\ HasOwner(plan, 0, i, t, fs) \in BOOLEAN
        /\ HasEntry(plan, 0, i, t, fs) \in BOOLEAN
    BY DEF HasOwner, HasEntry, Named
  <2>2. CASE i = 1 BY <1>9, <1>11, <2>1, <2>2
  <2>3. CASE i = 2
    <3>1. HasOwner(plan, 0, 2, t, fs) BY <1>13
    <3> QED BY <1>9, <1>12, <2>1, <2>3, <3>1
  <2> QED BY <2>2, <2>3
<1>16. Belongs(plan, 0, t, fs) BY <1>9, <1>15 DEF Belongs
<1>17. Sure(plan, t, fs)
  <2>1. HasOwner(plan, 0, 3, t, fs) BY <1>13
  <2> QED BY <1>9, <1>14, <2>1 DEF Sure
<1> QED BY <1>16, <1>17

LEMMA ImportBelongs ==
    ASSUME NEW op, NEW fs, PackOK(op.pack), StoreOK(fs), Owned(fs), Nothing \notin Documents,
           NEW plan \in ImportPlans(op, fs), NEW t, t = Target(op, fs), t # Absent
    PROVE  Belongs(plan, 0, t, fs)
<1>a. PICK none : none = {} OBVIOUS
<1>b. none \subseteq {"receipts"} BY <1>a
<1>z. PICK all : all = Closed(fs) OBVIOUS
<1>y. all \subseteq {"receipts"} BY <1>z, ClosedIsReceipts
<1>c. Owner(fs) \in {Absent, t} /\ (Owner(fs) # Absent => Owner(fs) = t) BY DEF Target, Owner
<1>1. PICK target : target = CreateTarget(op, fs) OBVIOUS
<1>2. PlanOK(target, all) BY <1>y, <1>1, CreateTargetIsPlan
<1>3. /\ Belongs(target, 0, t, fs)
      /\ HasOwner(target, 0, Len(target) + 1, t, fs)
      /\ Registered(op, fs) => HasEntry(target, 0, Len(target) + 1, t, fs)
  <2>1. CASE Owner(fs) = Absent
    <3>1. target = <<Put("profile", [rel |-> t, manifest |-> op.pack.compilations.pin]),
                     Put("registry", fs["registry"] \cup {t})>>
      BY <1>1, <2>1, Zenon DEF CreateTarget, Owner
    <3>2. Belongs(target, 0, t, fs) /\ Sure(target, t, fs)
      BY <2>1, <3>1, FoundingBelongs
    <3> QED BY <3>2 DEF Sure
  <2>2. CASE Owner(fs) # Absent
    <3>1. target = <<>> BY <1>1, <2>2, Zenon DEF CreateTarget, Owner
    <3>2. Quiet(target, Personal \cup {"turns"}) BY <3>1, QuietNone
    <3>3. Belongs(target, 0, t, fs) BY <1>c, <3>2, QuietBelongs
    <3>4. Registered(op, fs) => t \in fs["registry"] BY <2>2 DEF Registered, Owner
    <3> QED BY <1>c, <2>2, <3>3, <3>4 DEF HasOwner, HasEntry
  <2> QED BY <2>1, <2>2
<1>4. PICK store : store = Written(target, fs) OBVIOUS
<1>5. StoreOK(store) /\ Owned(store) /\ Owner(store) = t
  BY <1>2, <1>3, <1>4, WrittenKeepsOwner
<1>6. PICK a : a = IF Compiled(op.pack) THEN CompilationWrites(op.pack, store) ELSE <<>>
  OBVIOUS
<1>7. PlanOK(a, all) BY <1>y, <1>5, <1>6, CompilationIsPlan, EmptyPlan
<1>8. Belongs(a, 0, t, store)
  <2>1. Belongs(CompilationWrites(op.pack, store), 0, t, store) BY <1>5, CompilationBelongs
  <2>2. Quiet(<<>>, Personal \cup {"turns"}) BY QuietNone
  <2>3. Belongs(<<>>, 0, t, store) BY <1>5, <2>2, QuietBelongs
  <2> QED BY <1>6, <2>1, <2>3
<1>9. PICK ta : ta = target \o a OBVIOUS
<1>10. PlanOK(ta, all) /\ Belongs(ta, 0, t, fs)
  BY <1>2, <1>3, <1>4, <1>7, <1>8, <1>9, ConcatPlan, ConcatBelongs
<1>11. /\ HasOwner(ta, 0, Len(ta) + 1, t, fs)
       /\ Registered(op, fs) => HasEntry(ta, 0, Len(ta) + 1, t, fs)
  <2>1. IsSeq(target) /\ IsSeq(a) BY <1>2, <1>7 DEF PlanOK
  <2> QED BY <1>3, <1>9, <2>1, ConcatKeepsSaying
<1>12. PICK made : made = Written(ta, fs) OBVIOUS
<1>13. /\ StoreOK(made) /\ Owner(made) = t
       /\ Registered(op, fs) => t \in made["registry"]
  BY <1>10, <1>11, <1>12, WrittenKeepsOwner
<1>14. PICK b : b = PayloadWrites(op, fs) OBVIOUS
<1>15. PlanOK(b, all) BY <1>y, <1>14, PayloadIsPlan
<1>16. Belongs(b, 0, t, made)
  <2>1. PICK kept : kept = IF Registered(op, fs) THEN Personal ELSE Personal \cup {"turns"}
    OBVIOUS
  <2>2. /\ kept \subseteq Personal \cup {"turns"} /\ Personal \subseteq kept
        /\ Registered(op, fs) => "turns" \notin kept
        /\ "turns" \in kept \/ Registered(op, fs)
    BY <2>1 DEF Personal
  <2>3. Quiet(b, kept) BY <1>14, <2>2, PayloadIsQuiet
  <2> QED BY <1>13, <2>2, <2>3, QuietBelongs
<1>17. PICK tab : tab = ta \o b OBVIOUS
<1>18. PlanOK(tab, all) /\ Belongs(tab, 0, t, fs)
  BY <1>10, <1>12, <1>15, <1>16, <1>17, ConcatPlan, ConcatBelongs
<1>19. HasOwner(tab, 0, Len(tab) + 1, t, fs)
  <2>1. IsSeq(ta) /\ IsSeq(b) BY <1>10, <1>15 DEF PlanOK
  <2> QED BY <1>11, <1>17, <2>1, ConcatKeepsSaying
<1>20. PICK filled : filled = Written(tab, fs) OBVIOUS
<1>21. StoreOK(filled) /\ Owner(filled) = t BY <1>18, <1>19, <1>20, WrittenKeepsOwner
<1>22. PICK c : c = ReceiptWrites(op, fs) OBVIOUS
<1>23. PlanOK(c, all) BY <1>z, <1>22, ReceiptIsPlan
<1>24. Belongs(c, 0, t, filled)
  <2> DEFINE kept == Personal \cup {"turns"}
  <2>1. PICK v : v = fs["receipts"] \cup {Receipt(op.pack, op.over)} OBVIOUS
  <2>2. "receipts" \notin kept BY DEF Personal
  <2>3. Quiet(<<Put("receipts", v)>>, kept) /\ Quiet(<<>>, kept) BY <2>2, QuietPut, QuietNone
  <2>4. c = <<>> \/ c = <<Put("receipts", v)>> BY <1>22, <2>1, Zenon DEF ReceiptWrites
  <2>5. Quiet(c, kept) BY <2>3, <2>4
  <2> QED BY <1>21, <2>5, QuietBelongs
<1>25. Belongs(tab \o c, 0, t, fs) BY <1>18, <1>20, <1>23, <1>24, ConcatBelongs
<1>26. Belongs(target \o a \o b \o c, 0, t, fs) BY <1>9, <1>17, <1>25
<1>27. /\ Belongs(<<>>, 0, t, fs) /\ Belongs(<<Deny("rejected")>>, 0, t, fs)
       /\ Belongs(<<Deny("changed")>>, 0, t, fs)
  <2> DEFINE kept == Personal \cup {"turns"}
  <2>1. /\ Quiet(<<>>, kept) /\ Quiet(<<Deny("rejected")>>, kept)
        /\ Quiet(<<Deny("changed")>>, kept)
    BY QuietNone, QuietDeny
  <2> QED BY <1>c, <2>1, QuietBelongs
<1>28. \/ plan = <<>> \/ plan = <<Deny("rejected")>> \/ plan = <<Deny("changed")>>
       \/ plan = target \o a \o b \o c
  BY <1>1, <1>4, <1>6, <1>14, <1>22, Zenon DEF ImportPlans
<1> QED BY <1>26, <1>27, <1>28

(* Every plan of every method is about one relationship: the one there is,   *)
(* or the one it makes.                                                      *)
LEMMA OwnedPlan ==
    ASSUME NEW op, OpFits(op), NEW fs, StoreOK(fs), Owned(fs), Nothing \notin Documents,
           NEW plan \in AllPlans(op, fs), NEW some, some # Absent
    PROVE  \E t : t # Absent /\ Belongs(plan, 0, t, fs)
<1>1. PICK t : t = IF Owner(fs) # Absent THEN Owner(fs)
                   ELSE IF op.kind = "create" THEN op.rel
                   ELSE IF op.kind = "import" THEN Target(op, fs)
                   ELSE some
  OBVIOUS
<1>2. op.kind = "import" => Target(op, fs) # Absent
  <2>1. SUFFICES ASSUME op.kind = "import" PROVE Target(op, fs) # Absent OBVIOUS
  <2>2. op.pack \in Packs /\ op.fresh \in Processes BY <2>1 DEF OpFits, OpOK
  <2>3. op.fresh # Absent /\ (op.pack.home => op.pack.rel # Absent)
    BY <2>2, NamesAssumption DEF Relationships, Known
  <2> QED BY <2>3 DEF Target
<1>3. t # Absent /\ Owner(fs) \in {Absent, t} BY <1>1, <1>2 DEF OpFits
<1> DEFINE kept == Personal \cup {"turns"}
<1>4. /\ Quiet(<<>>, kept) /\ Quiet(<<Deny("rejected")>>, kept)
      /\ \A f \in {"nodes", "core", "ledger"} : \A v : Quiet(<<Put(f, v)>>, kept)
  <2>1. ASSUME NEW f \in {"nodes", "core", "ledger"}, NEW v PROVE Quiet(<<Put(f, v)>>, kept)
    <3>1. f \notin kept BY DEF Personal
    <3> QED BY <3>1, QuietPut
  <2> QED BY <2>1, QuietNone, QuietDeny
<1>5. ASSUME Quiet(plan, kept) PROVE Belongs(plan, 0, t, fs) BY <1>3, <1>5, QuietBelongs
<1>6. CASE op.kind = "create"
  <2>1. AllPlans(op, fs) = CreatePlans(op, fs) BY <1>6, Zenon DEF AllPlans
  <2>2. CASE Owner(fs) = Absent
    <3>1. plan = <<Put("profile", [rel |-> op.rel, manifest |-> 0]),
                   Put("registry", fs["registry"] \cup {op.rel})>>
      BY <2>1, <2>2, Zenon DEF CreatePlans, Owner
    <3>2. t = op.rel BY <1>1, <1>6, <2>2
    <3>3. Belongs(plan, 0, op.rel, fs) BY <2>2, <3>1, FoundingBelongs
    <3> QED BY <1>3, <3>2, <3>3
  <2>3. CASE Owner(fs) # Absent
    <3>1. plan = <<>> \/ plan = <<Deny("rejected")>>
      BY <2>1, <2>3, Zenon DEF CreatePlans, Owner
    <3> QED BY <1>3, <1>4, <1>5, <3>1
  <2> QED BY <2>2, <2>3
<1>7. CASE op.kind = "turn"
  <2>1. plan \in TurnPlans(op, fs) BY <1>7 DEF AllPlans
  <2>2. \/ plan = <<>> \/ plan = <<Deny("rejected")>>
        \/ op.rel \in fs["registry"] /\ plan = <<Put("turns", fs["turns"] \cup {op.turn})>>
    BY <2>1, Zenon DEF TurnPlans
  <2>3. CASE op.rel \in fs["registry"] /\ plan = <<Put("turns", fs["turns"] \cup {op.turn})>>
    <3>1. Owner(fs) \in fs["registry"] /\ Owner(fs) # Absent BY <2>3 DEF Owned
    <3>2. t \in fs["registry"] BY <1>1, <3>1
    <3>3. "turns" \notin Personal BY DEF Personal
    <3>4. PICK v : v = fs["turns"] \cup {op.turn} OBVIOUS
    <3>5. Quiet(plan, Personal) BY <2>3, <3>3, <3>4, QuietPut
    <3> QED BY <1>3, <3>2, <3>5, QuietBelongs
  <2> QED BY <1>3, <1>4, <1>5, <2>2, <2>3
<1>8. CASE op.kind = "archive"
  <2>1. plan \in ArchivePlans(op, fs) BY <1>8 DEF AllPlans
  <2>2. PICK v : plan = <<Put("ledger", v)>> BY <2>1, Zenon DEF ArchivePlans
  <2> QED BY <1>3, <1>4, <1>5, <2>2
<1>9. CASE op.kind = "core"
  <2>1. plan \in CorePlans(op, fs) BY <1>9 DEF AllPlans
  <2>2. PICK v : plan = <<Put("core", v)>> BY <2>1, Zenon DEF CorePlans
  <2> QED BY <1>3, <1>4, <1>5, <2>2
<1>10. CASE op.kind = "import"
  <2>1. plan \in ImportPlans(op, fs) BY <1>10 DEF AllPlans
  <2>2. PackOK(op.pack) BY <1>10, PacksAreOK DEF OpFits, OpOK
  <2>3. t = Target(op, fs) BY <1>1, <1>10 DEF Target, Owner
  <2>4. Belongs(plan, 0, t, fs) BY <1>3, <2>1, <2>2, <2>3, ImportBelongs
  <2> QED BY <1>3, <2>4
<1>11. CASE op.kind = "save"
  <2>1. plan \in SavePlans(op, fs) BY <1>11 DEF AllPlans
  <2>2. Quiet(SaveWrites(op.rev, Proposed(op.by), fs), kept) BY ReviewIsQuiet
  <2> QED BY <1>3, <1>5, <2>1, <2>2 DEF SavePlans
<1>12. CASE op.kind = "decide"
  <2>1. plan \in DecidePlans(op, fs) BY <1>12 DEF AllPlans
  <2>2. Quiet(DecideWrites(op.rev, op.to, op.by, op.expected, fs), kept) BY ReviewIsQuiet
  <2> QED BY <1>3, <1>5, <2>1, <2>2 DEF DecidePlans
<1>13. CASE op.kind = "approve"
  <2>1. plan \in ApprovePlans(op, fs) BY <1>13 DEF AllPlans
  <2>2. op.rel # Absent BY <1>13 DEF OpFits
  <2>3. Belongs(ApproveAndBind(op.rev, op.rel, op.by, op.expected, fs), 0, t, fs)
    BY <1>3, <2>2, ApproveAndBindBelongs
  <2> QED BY <1>3, <2>1, <2>3 DEF ApprovePlans
<1>14. CASE op.kind = "open"
  <2>1. plan \in OpenPlans(op, fs) BY <1>14 DEF AllPlans
  <2>2. Belongs(Replays(fs), 0, t, fs) BY <1>3, ReplaysBelong
  <2> QED BY <1>3, <2>1, <2>2 DEF OpenPlans
<1>15. \/ op.kind = "create" \/ op.kind = "turn" \/ op.kind = "archive" \/ op.kind = "core"
       \/ op.kind = "import" \/ op.kind = "save" \/ op.kind = "decide"
       \/ op.kind = "approve" \/ op.kind = "open"
  BY DEF AllPlans
<1> QED
  BY <1>6, <1>7, <1>8, <1>9, <1>10, <1>11, <1>12, <1>13, <1>14, <1>15

LEMMA OutcomesAreOwned ==
    ASSUME NEW op, OpFits(op), NEW fs, StoreOK(fs), Owned(fs), Nothing \notin Documents,
           NEW gs \in Outcomes(op, fs)
    PROVE  Owned(gs)
<1>1. PICK found : found = IF op.whole THEN [op EXCEPT !.seen = <<>>] ELSE op OBVIOUS
<1>2. PICK plan \in AllPlans(found, fs) :
          \E skipped \in SUBSET Ignored(plan) : gs = Written(Without(plan, skipped), fs)
  BY <1>1, Zenon DEF Outcomes
<1>3. PICK skipped \in SUBSET Ignored(plan) : gs = Written(Without(plan, skipped), fs) BY <1>2
<1>4. OpFits(found)
  <2>1. CASE ~op.whole BY <1>1, <2>1
  <2>2. CASE op.whole
    <3>1. op = [kind |-> "import", whole |-> TRUE, pack |-> op.pack, over |-> op.over,
                guard |-> op.guard, fresh |-> op.fresh, seen |-> op.seen]
      BY <2>2 DEF OpFits
    <3>2. PICK none, yes : none = <<>> /\ yes = op.whole OBVIOUS
    <3>3. PICK a, b, c, d, e :
             /\ op = [kind |-> "import", whole |-> yes, pack |-> a, over |-> b,
                      guard |-> c, fresh |-> d, seen |-> e]
      BY <2>2, <3>1, <3>2
    <3>a. PICK clear : clear = [kind |-> "import", whole |-> yes, pack |-> a, over |-> b,
                                guard |-> c, fresh |-> d, seen |-> none]
      OBVIOUS
    <3>b. [op EXCEPT !.seen = none] = clear BY <3>3, <3>a
    <3>4. found = clear BY <1>1, <2>2, <3>2, <3>b
    <3>5. /\ found.kind = "import" /\ found.pack = op.pack /\ found.fresh = op.fresh
          /\ found.whole = op.whole /\ op.kind = "import" /\ found.over = op.over
      BY <3>3, <3>4, <3>a
    <3>6. found = [kind |-> "import", whole |-> TRUE, pack |-> found.pack,
                   over |-> found.over, guard |-> found.guard, fresh |-> found.fresh,
                   seen |-> found.seen]
      <4>1. found = [kind |-> "import", whole |-> yes, pack |-> found.pack,
                     over |-> found.over, guard |-> found.guard, fresh |-> found.fresh,
                     seen |-> found.seen]
        BY <3>4, <3>a
      <4>2. yes = TRUE BY <3>1, <3>2
      <4> QED BY <4>1, <4>2
    <3> QED BY <3>5, <3>6 DEF OpFits, OpOK
  <2> QED BY <2>1, <2>2
<1>5. PlanOK(plan, Closed(fs)) BY <1>4, AllPlansAreOK DEF OpFits
<1>6. PICK some : some # Absent
  <2>1. Absent # 0 \/ Absent # 1 OBVIOUS
  <2> QED BY <2>1
<1>7. PICK t : t # Absent /\ Belongs(plan, 0, t, fs) BY <1>4, <1>6, OwnedPlan
<1> QED BY <1>3, <1>5, <1>7, PlanKeepsOwner

LEMMA EmptyIsOwned ==
    ASSUME Files = Documents, NEW receipts
    PROVE  Owned(EmptyStore(receipts))
<1> DEFINE store == EmptyStore(receipts)
<1>1. store["profile"] = NoRelationship BY DEF EmptyStore, Documents
<1>2. store["registry"] = {} /\ store["turns"] = {} BY DEF EmptyStore, Documents
<1>3. \A f \in Approvals : store[f] = Absent BY DEF EmptyStore, Documents, Approvals
<1> HIDE DEF store
<1>4. IsProfile(store["profile"])
  BY <1>1 DEF NoRelationship, IsProfile
<1> QED BY <1>2, <1>3, <1>4 DEF Owned, store

LEMMA ErasedIsOwned ==
    ASSUME StoreOK(Base), Files = Documents, \A f \in Approvals : Erased(Base)[f] = Absent
    PROVE  Owned(Erased(Base))
<1>1. PICK fs : fs = Base OBVIOUS
<1>2. CASE fs["receipts"] = Absent
  <2> DEFINE erased == ErasedFiles(fs)
             empty == EmptyStore(Absent)
  <2>1. Owned(empty) BY EmptyIsOwned
  <2>2. /\ erased["profile"] = empty["profile"] /\ erased["registry"] = empty["registry"]
        /\ erased["turns"] = empty["turns"]
    BY DEF ErasedFiles, PairDocuments, Aggregates, Shared, Documents
  <2>3. Erased(fs) = erased BY <1>2 DEF Erased
  <2>4. \A f \in Approvals : erased[f] = Absent BY <1>1, <2>3
  <2> HIDE DEF erased, empty
  <2>5. Owned(erased) BY <2>1, <2>2, <2>4 DEF Owned, Owner
  <2> QED BY <1>1, <2>3, <2>5
<1>3. CASE fs["receipts"] # Absent
  <2>1. Erased(fs) = EmptyStore({}) BY <1>3 DEF Erased, ErasedRows, RevokedReceipts
  <2>2. Owned(EmptyStore({})) BY EmptyIsOwned
  <2> QED BY <1>1, <2>1, <2>2
<1> QED BY <1>2, <1>3

LEMMA NewStoreIsOwned ==
    ASSUME Init, Setting
    PROVE  Owned(files)
<1>1. journal = Nothing /\ Files = Documents
  BY DEF Init, StorageInit, MemoryInit, Setting
<1>2. PICK receipts \in {Absent, {}}, old \in {<<>>} \cup {Started(r) : r \in Known} :
          files = [f \in Files |-> IF f \in DOMAIN old THEN old[f] ELSE EmptyStore(receipts)[f]]
  BY DEF Init, MemoryInit
<1>3. PICK empty : empty = EmptyStore(receipts) OBVIOUS
<1>4. Owned(empty) BY <1>1, <1>3, EmptyIsOwned
<1>5. files = [f \in Documents |-> IF f \in DOMAIN old THEN old[f] ELSE empty[f]]
  BY <1>1, <1>2, <1>3
<1>6. CASE old = <<>>
  <2>1. DOMAIN old = {} BY <1>6
  <2>2. files = [f \in Documents |-> empty[f]] BY <1>5, <2>1
  <2>3. empty = [f \in Documents |-> empty[f]] BY <1>1, <1>3 DEF EmptyStore
  <2> QED BY <1>4, <2>2, <2>3
<1>7. CASE old # <<>>
  <2>1. PICK r \in Known : old = Started(r) BY <1>2, <1>7
  <2>2. DOMAIN old = {"profile", "registry", "turns", "compilations"} BY <2>1 DEF Started
  <2>3. files["profile"] = old["profile"] /\ files["registry"] = old["registry"]
    BY <1>5, <2>2 DEF Documents
  <2>4. PICK v : v = [rel |-> r, manifest |-> 0] OBVIOUS
  <2>5. old["profile"] = v /\ old["registry"] = {r} BY <2>1, <2>4 DEF Started
  <2>6. IsProfile(v) /\ v.rel = r BY <2>4 DEF IsProfile
  <2>7. r # Absent BY NamesAssumption DEF Relationships
  <2>8. \A f \in Approvals : files[f] = Absent
    <3>1. \A f \in Approvals : files[f] = empty[f] BY <1>5, <2>2 DEF Approvals, Documents
    <3>2. \A f \in Approvals : empty[f] = Absent
      BY <1>1, <1>3 DEF EmptyStore, Documents, Approvals
    <3> QED BY <3>1, <3>2
  <2>9. files["profile"] = v /\ files["registry"] = {r} /\ Owner(files) = r
    BY <2>3, <2>5, <2>6 DEF Owner
  <2>10. Owned(files) BY <2>6, <2>7, <2>8, <2>9 DEF Owned
  <2> QED BY <2>10
<1> QED BY <1>6, <1>7

(* A step outside the storage: nobody comes to write by it.                  *)
Away ==
    /\ files' = files /\ journal' = journal
    /\ \A q \in Processes : task'[q] = task[q] \/ task'[q].at # "write"

LEMMA RestingIsAway ==
    ASSUME Tasks, NEW p \in Processes, files' = files, journal' = journal,
           NEW at \in {"idle", "down", "wait", "left"}, NEW op, NEW result,
           task' = [task EXCEPT ![p] = Resting(at, op, result)]
    PROVE  Away
<1>1. PICK u : u = Resting(at, op, result) OBVIOUS
<1>2. u.at = at BY <1>1 DEF Resting
<1>3. task' = [task EXCEPT ![p] = u] BY <1>1
<1>4. \A q \in Processes : task'[q] = IF q = p THEN u ELSE task[q] BY <1>3 DEF Tasks
<1> QED BY <1>2, <1>4 DEF Away

LEMMA SubmittingIsAway ==
    ASSUME Tasks, NEW p \in Processes, Submit(p), NEW op, Call(p, op)
    PROVE  Away
<1>1. task' = [task EXCEPT ![p] = Resting("wait", op, "none")] BY RestingTasks DEF Call
<1> QED BY <1>1, RestingIsAway DEF Submit

LEMMA MemoryStepIsAway ==
    ASSUME Tasks, NEW p \in Processes, MemoryStep(p)
    PROVE  Away
<1>a. ASSUME files' = files, journal' = journal, task' = task PROVE Away BY <1>a DEF Away
<1>b. ASSUME files' = files, journal' = journal, task' = [task EXCEPT ![p] = Idle] PROVE Away
  <2>1. PICK noop : noop = NoOp OBVIOUS
  <2>2. task' = [task EXCEPT ![p] = Resting("idle", noop, "none")]
    BY <1>b, <2>1, RestingTasks
  <2> QED BY <1>b, <2>2, RestingIsAway, ZenonT(30)
<1>1. CASE InitializeRelationship(p)
  <2>1. PICK op : op = [kind |-> "create", whole |-> FALSE,
                        rel |-> IF files["profile"].rel = Absent THEN p
                                ELSE files["profile"].rel]
    OBVIOUS
  <2>2. Submit(p) BY <1>1 DEF InitializeRelationship
  <2>3. \/ Call(p, op)
        \/ task' = [task EXCEPT ![p] = [Idle EXCEPT !.at = "left", !.op = op, !.result = "done"]]
    BY <1>1, <2>1, Zenon DEF InitializeRelationship
  <2>4. CASE task' = [task EXCEPT ![p] =
                        [Idle EXCEPT !.at = "left", !.op = op, !.result = "done"]]
    <3>1. task' = [task EXCEPT ![p] = Resting("left", op, "done")] BY <2>4, RestingTasks
    <3> QED BY <2>2, <3>1, RestingIsAway DEF Submit
  <2> QED BY <2>2, <2>3, <2>4, SubmittingIsAway
<1>2. ASSUME NEW id \in TurnIds, NEW text \in Texts, BeginTurn(p, id, text) PROVE Away
  BY <1>2, SubmittingIsAway DEF BeginTurn
<1>3. ASSUME NEW id \in TurnIds, Archive(p, id) PROVE Away
  BY <1>3, SubmittingIsAway DEF Archive
<1>4. CASE SetCore(p) BY <1>4, SubmittingIsAway DEF SetCore
<1>5. CASE Returned(p) BY <1>5, <1>b DEF Returned
<1>6. ASSUME NEW pack \in Packs, NEW over \in BOOLEAN, Import(p, pack, over) PROVE Away
  BY <1>6, <1>a DEF Import
<1>7. CASE ImportGuard(p) BY <1>7, <1>a DEF ImportGuard, EngineOnly
<1>8. CASE GuardIsStale(p) BY <1>8, <1>a DEF GuardIsStale, EngineOnly
<1>9. CASE GuardHolds(p) BY <1>9, <1>a DEF GuardHolds, EngineOnly
<1>10. CASE Preflight(p)
  <2>1. PICK op : op = [kind |-> "import", whole |-> TRUE, pack |-> engine[p].pack,
                        over |-> engine[p].over, guard |-> engine[p].guard, fresh |-> p,
                        seen |-> [f \in Observed(engine[p].pack) |-> files[f]]]
    OBVIOUS
  <2>2. files' = files /\ journal' = journal BY <1>10 DEF Preflight
  <2>3. task' = task \/ Call(p, op) BY <1>10, <2>1, Zenon DEF Preflight
  <2>4. Call(p, op) => task' = [task EXCEPT ![p] = Resting("wait", op, "none")]
    BY RestingTasks DEF Call
  <2> QED BY <1>a, <2>2, <2>3, <2>4, RestingIsAway
<1>11. CASE Imported(p) BY <1>11, <1>b DEF Imported
<1>12. CASE Export(p) BY <1>12, <1>a DEF Export
<1>13. CASE ExportProfile(p) BY <1>13, <1>a DEF ExportProfile, EngineOnly
<1>14. CASE ExportGuard(p) BY <1>14, <1>a DEF ExportGuard, EngineOnly
<1>15. CASE ExportTurns(p) BY <1>15, <1>a DEF ExportTurns, EngineOnly
<1>16. CASE ExportLedger(p) BY <1>16, <1>a DEF ExportLedger, EngineOnly
<1>17. CASE Assemble(p) BY <1>17, <1>a DEF Assemble, EngineOnly
<1> QED
  BY <1>1, <1>2, <1>3, <1>4, <1>5, <1>6, <1>7, <1>8, <1>9, <1>10, <1>11, <1>12, <1>13,
     <1>14, <1>15, <1>16, <1>17 DEF MemoryStep

LEMMA PersonaStepIsAway ==
    ASSUME Tasks, NEW p \in Processes, PersonaStep(p)
    PROVE  Away
<1>1. CASE ProposePersona(p) BY <1>1, SubmittingIsAway DEF ProposePersona
<1>2. CASE RevisePersona(p) BY <1>2, SubmittingIsAway DEF RevisePersona
<1>3. CASE ApprovePersona(p) BY <1>3, SubmittingIsAway DEF ApprovePersona
<1>4. ASSUME NEW to \in {"rejected", "revoked"}, DecidePersona(p, to) PROVE Away
  BY <1>4, SubmittingIsAway DEF DecidePersona
<1>5. CASE Reopen(p)
  <2>1. PICK op : op = [kind |-> "open", whole |-> FALSE] OBVIOUS
  <2>2. task' = [task EXCEPT ![p] = Resting("wait", op, "none")]
    BY <1>5, <2>1, RestingTasks DEF Reopen, Call
  <2> QED BY <1>5, <2>2, RestingIsAway DEF Reopen
<1>6. CASE Reopened(p)
  <2>1. PICK noop : noop = NoOp OBVIOUS
  <2>2. task' = [task EXCEPT ![p] = IF task[p].result = "error"
                                    THEN [Idle EXCEPT !.at = "down"] ELSE Idle]
    BY <1>6 DEF Reopened, Tasks
  <2>3. \/ task' = [task EXCEPT ![p] = Resting("down", noop, "none")]
        \/ task' = [task EXCEPT ![p] = Resting("idle", noop, "none")]
    BY <2>1, <2>2, RestingTasks
  <2>4. files' = files /\ journal' = journal BY <1>6 DEF Reopened
  <2> QED BY <2>3, <2>4, RestingIsAway
<1> QED BY <1>1, <1>2, <1>3, <1>4, <1>5, <1>6 DEF PersonaStep

(* A process that dies with an image in its memory loses it.                 *)
LEMMA DieIsAway ==
    ASSUME IInv, Setting, Recalls, ~lost', NEW p \in Processes, Die(p)
    PROVE  Away
<1>1. PICK noop : noop = NoOp OBVIOUS
<1>2. task' = [task EXCEPT ![p] = Resting("down", noop, "none")]
  BY <1>1, RestingTasks DEF Die, Crash
<1>3. JournalOK /\ Tasks /\ ~Loses BY DEF IInv, Recalls
<1>4. journal' = journal
  <2>1. CASE journal' = OnDisk BY <1>3, <2>1, OnDiskIsJournal
  <2>2. CASE journal' = journal BY <2>2
  <2> QED BY <2>1, <2>2 DEF Die, Crash
<1>5. files' = files BY DEF Die, Crash
<1> QED BY <1>2, <1>3, <1>4, <1>5, RestingIsAway, ZenonT(30)

(* What a step of the storage means to the one method that may be writing:   *)
(* it leaves, decides what to write, or is one write further.                *)
Chosen(p) ==
    /\ Base' = Base /\ task'[p].op = task[p].op
    /\ task'[p].done = 0 /\ task'[p].plan \in AllPlans(task[p].op, Base)

Advanced(p) ==
    /\ task[p].at = "write" /\ ~Whole(p) /\ task[p].done < Len(task[p].plan)
    /\ task'[p].plan = task[p].plan
    /\ task'[p].done \in {task[p].done, task[p].done + 1}
    /\ \/ Base' = [Base EXCEPT ![NextWrite(p).file] = NextWrite(p).to]
       \/ /\ Base' = Base
          /\ task'[p].done = task[p].done \/ NextWrite(p).failing = "ignore"

Turns(p) ==
    /\ OnlyTask(p)
    /\ lock \in {p, Free}
    /\ task'[p].at # "write" \/ Whole(p)' \/ Chosen(p) \/ Advanced(p)

LEMMA LeavingTurns ==
    ASSUME Stepping, NEW p \in Processes, lock \in {p, Free}, NEW result, Leave(p, result)
    PROVE  Turns(p)
<1>1. Tasks /\ Leaves(p, "left", result) BY DEF Leave, Leaves, Stepping, IInv
<1>2. OnlyTask(p) /\ task'[p].at = "left" BY <1>1, TaskLeaves
<1> QED BY <1>2 DEF Turns

LEMMA RollingBackTurns ==
    ASSUME Stepping, NEW p \in Processes, lock \in {p, Free}, NEW result, RollBack(p, result)
    PROVE  Turns(p)
<1>1. PICK n : n = Recorded OBVIOUS
<1>2. Tasks /\ RollsBack(p, "rollback", n, result)
  BY <1>1 DEF RollBack, RollsBack, Stepping, IInv
<1>3. OnlyTask(p) /\ task'[p].at = "rollback" BY <1>2, TaskRollsBack
<1> QED BY <1>3 DEF Turns

LEMMA RaisingTurns ==
    ASSUME Stepping, NEW p \in Processes, lock \in {p, Free}, NEW result, Raise(p, result)
    PROVE  Turns(p)
BY LeavingTurns, RollingBackTurns DEF Raise

LEMMA MovingTurns ==
    ASSUME Stepping, NEW p \in Processes, lock \in {p, Free}, NEW at, at # "write",
           task' = [task EXCEPT ![p].at = at]
    PROVE  Turns(p)
<1>1. Tasks BY DEF Stepping, IInv
<1>2. OnlyTask(p) /\ task'[p].at = at BY <1>1, TaskMoves
<1> QED BY <1>2 DEF Turns

LEMMA PlanTurns ==
    ASSUME Stepping, NEW p \in Processes, Plan(p)
    PROVE  Turns(p)
<1>1. /\ task[p].at = "plan" /\ files' = files /\ journal' = journal
  BY DEF Plan, At
<1>2. PICK plan \in Plans(task[p].op, files) :
          task' = [task EXCEPT ![p].at = "write", ![p].plan = plan]
  BY DEF Plan
<1>3. /\ ProcessOK(p) /\ Tasks /\ StoreOK(files) /\ Files = Documents /\ Setting
  BY DEF Stepping, IInv, Setting
<1>4. /\ lock = p /\ journal = (IF Whole(p) THEN NewJournal ELSE Nothing)
      /\ task[p].done = 0
  BY <1>1, <1>3 DEF ProcessOK, Busy
<1>5. Images = {} BY <1>3, <1>4, NoJournal, FreshJournal
<1>6. Base = files BY <1>3, <1>5, BaseWithoutImages
<1>7. Base' = Base BY <1>1, SameBase
<1>8. plan \in AllPlans(task[p].op, files) BY <1>2, <1>3 DEF Setting
<1>9. Decides(p, "write", plan) BY <1>2 DEF Decides
<1>10. /\ OnlyTask(p) /\ task'[p].op = task[p].op /\ task'[p].plan = plan
       /\ task'[p].done = task[p].done
  BY <1>3, <1>9, TaskDecides
<1>11. Chosen(p) BY <1>4, <1>6, <1>7, <1>8, <1>10 DEF Chosen
<1> QED BY <1>4, <1>10, <1>11 DEF Turns

(* A write of a plain method is seen at once.                                *)
LEMMA WritingTurns ==
    ASSUME Stepping, NEW p \in Processes, task[p].at = "write", OnlyTask(p),
           task[p].done < Len(task[p].plan),
           task'[p].op = task[p].op, task'[p].plan = task[p].plan,
           task'[p].done \in {task[p].done, task[p].done + 1}, journal' = journal,
           \/ files' = [files EXCEPT ![NextWrite(p).file] = NextWrite(p).to]
           \/ /\ files' = files
              /\ task'[p].done = task[p].done \/ NextWrite(p).failing = "ignore"
    PROVE  Turns(p)
<1>1. lock = p /\ WritingOK(p) /\ StoreOK(files) /\ Files = Documents BY WritesNext
<1>2. CASE Whole(p)
  <2>1. Whole(p)' BY <1>2 DEF Whole
  <2> QED BY <1>1, <2>1 DEF Turns
<1>3. CASE ~Whole(p)
  <2>1. journal = Nothing /\ journal' = Nothing BY <1>1, <1>3 DEF WritingOK
  <2>2. Images = {} /\ Images' = {} BY <2>1 DEF Images, Unfinished
  <2>3. Base = files BY <1>1, <2>2, BaseWithoutImages
  <2>4. files = [f \in Documents |-> files[f]] BY <1>1 DEF StoreOK
  <2>5. files' = [f \in Documents |-> files'[f]] BY <2>4
  <2>6. Base' = [f \in Documents |-> files'[f]] BY <1>1, <2>2 DEF Base, Contents
  <2>7. Base' = files' BY <2>5, <2>6
  <2>8. Advanced(p) BY <1>3, <2>3, <2>7 DEF Advanced
  <2> QED BY <1>1, <2>8 DEF Turns
<1> QED BY <1>2, <1>3

LEMMA WriteTurns ==
    ASSUME Stepping, NEW p \in Processes, Write(p)
    PROVE  Turns(p)
<1>1. Tasks BY DEF Stepping, IInv
<1>2. /\ task[p].at = "write" /\ task[p].done < Len(task[p].plan) /\ journal' = journal
      /\ files' = [files EXCEPT ![NextWrite(p).file] = NextWrite(p).to]
      /\ task' = [task EXCEPT ![p].done = task[p].done + 1]
  BY <1>1 DEF Write, Writing, At, Tasks
<1>3. PICK n : n = task[p].done + 1 OBVIOUS
<1>4. /\ OnlyTask(p) /\ task'[p].op = task[p].op /\ task'[p].plan = task[p].plan
      /\ task'[p].done = n
  <2>1. task' = [task EXCEPT ![p].done = n] BY <1>2, <1>3
  <2> QED BY <1>1, <2>1, TaskAdvances
<1> QED BY <1>2, <1>3, <1>4, WritingTurns

LEMMA CannotWriteTurns ==
    ASSUME Stepping, NEW p \in Processes, CannotWrite(p)
    PROVE  Turns(p)
<1>1. /\ task[p].at = "write" /\ task[p].done < Len(task[p].plan)
      /\ \/ files' = files
         \/ files' = [files EXCEPT ![NextWrite(p).file] = NextWrite(p).to]
  BY DEF CannotWrite, Writing, At
<1>2. Tasks /\ lock = p BY <1>1, WritesNext
<1>a. NextWrite(p).failing = "ignore" => ~TriesAgain(p) BY DEF TriesAgain
<1>3. CASE NextWrite(p).failing = "ignore"
  <2>1. task' = [task EXCEPT ![p].done = @ + 1] /\ journal' = journal
    BY <1>3, <1>a, Zenon DEF CannotWrite
  <2>2. PICK n : n = task[p].done + 1 OBVIOUS
  <2>3. /\ OnlyTask(p) /\ task'[p].op = task[p].op /\ task'[p].plan = task[p].plan
        /\ task'[p].done = n
    <3>1. task' = [task EXCEPT ![p].done = n] BY <1>2, <2>1, <2>2 DEF Tasks
    <3> QED BY <1>2, <3>1, TaskAdvances
  <2> QED BY <1>1, <1>3, <2>1, <2>2, <2>3, WritingTurns
<1>4. CASE NextWrite(p).failing # "ignore" /\ TriesAgain(p)
  <2>1. task' = [task EXCEPT ![p].again = TRUE] /\ journal' = journal
    BY <1>4 DEF CannotWrite
  <2>2. /\ OnlyTask(p) /\ task'[p].op = task[p].op /\ task'[p].plan = task[p].plan
        /\ task'[p].done = task[p].done
    BY <1>2, <2>1, TaskRepeats
  <2> QED BY <1>1, <2>1, <2>2, WritingTurns
<1>5. CASE NextWrite(p).failing # "ignore" /\ ~TriesAgain(p)
  <2>1. Raise(p, "error") BY <1>5 DEF CannotWrite
  <2> QED BY <1>2, <2>1, RaisingTurns
<1> QED BY <1>3, <1>4, <1>5

LEMMA StorageStepTurns ==
    ASSUME Stepping, NEW p \in Processes, StorageStep(p)
    PROVE  Turns(p)
<1>1. IInv /\ Tasks /\ ProcessOK(p) BY DEF Stepping, IInv
<1>2. task[p].at \in Busy => lock = p BY <1>1 DEF ProcessOK
<1>3. CASE Enter(p)
  <2>1. lock = Free BY <1>3 DEF Enter
  <2>2. CASE journal = Nothing
    <3>1. PICK at : at = IF Whole(p) THEN "begin" ELSE "plan" OBVIOUS
    <3>2. task' = [task EXCEPT ![p].at = at] BY <1>3, <2>2, <3>1 DEF Enter
    <3>3. at # "write" BY <3>1
    <3> QED BY <2>1, <3>2, <3>3, MovingTurns
  <2>3. CASE journal # Nothing
    <3>1. PICK n : n = Recorded OBVIOUS
    <3>2. MovesToUndo(p, "recover", n) BY <1>3, <2>3, <3>1 DEF Enter, MovesToUndo
    <3>3. OnlyTask(p) /\ task'[p].at = "recover" BY <1>1, <3>2, TaskMovesToUndo
    <3> QED BY <2>1, <3>3 DEF Turns
  <2> QED BY <2>2, <2>3
<1>4. CASE Restore(p)
  <2>1. /\ task[p].at \in {"recover", "rollback"}
        /\ task' = [task EXCEPT ![p].undo = task[p].undo - 1]
    BY <1>1, <1>4 DEF Restore, Tasks
  <2>2. PICK n : n = task[p].undo - 1 OBVIOUS
  <2>3. OnlyTask(p) /\ task'[p].at = task[p].at
    <3>1. task' = [task EXCEPT ![p].undo = n] BY <2>1, <2>2
    <3> QED BY <1>1, <3>1, TaskUndoes
  <2> QED BY <1>2, <2>1, <2>3 DEF Turns, Busy
<1>5. CASE Restored(p)
  <2>1. CASE At(p, "recover")
    <3>1. PICK at : at = IF Whole(p) THEN "begin" ELSE "plan" OBVIOUS
    <3>2. task' = [task EXCEPT ![p].at = at] BY <1>5, <2>1, <3>1 DEF Restored, Goto, At
    <3>3. at # "write" /\ lock = p BY <1>2, <2>1, <3>1 DEF At, Busy
    <3> QED BY <3>2, <3>3, MovingTurns
  <2>2. CASE At(p, "rollback")
    <3>1. PICK result : result = task[p].result OBVIOUS
    <3>2. Leave(p, result) BY <1>5, <2>2, <3>1 DEF Restored, At
    <3>3. lock = p BY <1>2, <2>2 DEF At, Busy
    <3> QED BY <3>2, <3>3, LeavingTurns
  <2> QED BY <1>5, <2>1, <2>2 DEF Restored
<1>6. CASE CannotRestore(p) BY <1>2, <1>6, LeavingTurns DEF CannotRestore, Busy
<1>7. CASE Begin(p)
  <2>1. lock = p /\ task' = [task EXCEPT ![p].at = "plan"] BY <1>2, <1>7 DEF Begin, At, Goto, Busy
  <2> QED BY <2>1, MovingTurns
<1>8. CASE CannotBegin(p) BY <1>2, <1>8, LeavingTurns DEF CannotBegin, At, Busy
<1>9. CASE Plan(p) BY <1>9, PlanTurns
<1>10. CASE Refuse(p)
  <2>1. PICK result : result = NextWrite(p).to OBVIOUS
  <2>2. Raise(p, result) /\ lock = p BY <1>2, <1>10, <2>1 DEF Refuse, At, Busy
  <2> QED BY <2>2, RaisingTurns
<1>11. CASE Record(p)
  <2>1. task' = task /\ Whole(p) /\ task[p].at = "write"
    BY <1>11 DEF Record, NeedsImage, Writing, At
  <2>2. OnlyTask(p) /\ Whole(p)' BY <1>1, <2>1 DEF OnlyTask, Tasks, Whole
  <2> QED BY <1>2, <2>1, <2>2 DEF Turns, Busy
<1>12. CASE CannotRecord(p)
  <2>1. task[p].at = "write" /\ Whole(p)
    BY <1>12 DEF CannotRecord, NeedsImage, Writing, At
  <2>2. CASE TriesAgain(p)
    <3>1. task' = [task EXCEPT ![p].again = TRUE] BY <1>12, <2>2 DEF CannotRecord
    <3>2. OnlyTask(p) /\ task'[p].op = task[p].op BY <1>1, <3>1, TaskRepeats
    <3> QED BY <1>2, <2>1, <3>2 DEF Turns, Busy, Whole
  <2>3. CASE ~TriesAgain(p)
    <3>1. PICK n : n = Recorded OBVIOUS
    <3>2. RollsBack(p, "rollback", n, "error")
      BY <1>12, <2>3, <3>1 DEF CannotRecord, RollsBack
    <3>3. OnlyTask(p) /\ task'[p].at = "rollback" BY <1>1, <3>2, TaskRollsBack
    <3> QED BY <1>2, <2>1, <3>3 DEF Turns, Busy
  <2> QED BY <2>2, <2>3
<1>13. CASE Write(p) BY <1>13, WriteTurns
<1>14. CASE CannotWrite(p) BY <1>14, CannotWriteTurns
<1>15. CASE Return(p) BY <1>2, <1>15, LeavingTurns DEF Return, At, Busy
<1>16. CASE Commit(p) \/ CannotCommit(p)
  <2>1. task[p].at = "write" /\ lock = p
    BY <1>2, <1>16 DEF Commit, CannotCommit, Committing, At, Busy
  <2>2. PICK applied : applied = TRUE OBVIOUS
  <2>3. applied \in BOOLEAN BY <2>2
  <2>4. CASE Commits(p, "clean", applied)
    <3>1. OnlyTask(p) /\ task'[p].at = "clean" BY <1>1, <2>3, <2>4, TaskCommits
    <3> QED BY <2>1, <3>1 DEF Turns
  <2>5. CASE LeavesApplied(p, "left", applied, "error")
    <3>1. OnlyTask(p) /\ task'[p].at = "left" BY <1>1, <2>3, <2>5, TaskLeavesApplied
    <3> QED BY <2>1, <3>1 DEF Turns
  <2>6. \/ RollBack(p, "error") \/ Leave(p, "error")
        \/ Commits(p, "clean", applied) \/ LeavesApplied(p, "left", applied, "error")
    BY <1>16, <2>2 DEF Commit, CannotCommit, Commits, LeavesApplied
  <2> QED BY <2>1, <2>4, <2>5, <2>6, LeavingTurns, RollingBackTurns
<1>17. CASE Clean(p) BY <1>2, <1>17, LeavingTurns DEF Clean, At, Busy
<1>18. CASE CannotClean(p) BY <1>2, <1>18, LeavingTurns DEF CannotClean, At, Busy
<1> QED
  BY <1>3, <1>4, <1>5, <1>6, <1>7, <1>8, <1>9, <1>10, <1>11, <1>12, <1>13, <1>14, <1>15,
     <1>16, <1>17, <1>18 DEF StorageStep

(* What is committed is of one relationship, and what a plain method has     *)
(* left to write is of that one.  What a pack writes is seen as a whole.     *)
Settled(p) == \E t : t # Absent /\ Belongs(task[p].plan, task[p].done, t, Base)

OneOwner ==
    /\ Owned(Base)
    /\ \A p \in Processes : task[p].at = "write" /\ ~Whole(p) => Settled(p)

LEMMA CommittedIsOwned ==
    ASSUME IInv, OneOwner, Setting, Moved
    PROVE  Owned(Base')
<1>1. /\ JournalOK /\ StoreOK(files) /\ Files = Documents /\ Nothing \notin Documents
  BY StorageAssumption DEF IInv, Setting
<1>2. StoreOK(Base) /\ Owned(Base) BY <1>1, ContentsFit DEF OneOwner
<1>3. CASE Base' = Base BY <1>2, <1>3
<1>4. ASSUME NEW p \in Processes, Base' \in Outcomes(task[p].op, Base) PROVE Owned(Base')
  <2>1. PICK fs, gs, op : fs = Base /\ gs = Base' /\ op = task[p].op OBVIOUS
  <2>2. OpFits(op) BY <2>1 DEF IInv, Tasks
  <2>3. Owned(gs) BY <1>1, <1>2, <1>4, <2>1, <2>2, OutcomesAreOwned
  <2> QED BY <2>1, <2>3
<1>5. ASSUME NEW p \in Processes, task[p].at = "write", ~Whole(p),
             task[p].done < Len(task[p].plan),
             Base' = [Base EXCEPT ![NextWrite(p).file] = NextWrite(p).to]
      PROVE  Owned(Base')
  <2>1. PICK t : t # Absent /\ Belongs(task[p].plan, task[p].done, t, Base)
    BY <1>5 DEF OneOwner, Settled
  <2>2. WritingOK(p) BY <1>5 DEF IInv, ProcessOK
  <2>3. Len(task[p].plan) \in Nat /\ task[p].done \in Nat
    BY <2>2 DEF WritingOK, PlanOK, IsSeq
  <2>4. PICK plan, n : plan = task[p].plan /\ n = task[p].done OBVIOUS
  <2>5. PICK fs, gs : fs = Base /\ gs = Base' OBVIOUS
  <2>6. n \in Nat /\ n + 1 <= Len(plan) /\ Len(plan) \in Nat BY <1>5, <2>3, <2>4
  <2>7. gs = [fs EXCEPT ![plan[n + 1].file] = plan[n + 1].to] BY <1>5, <2>4, <2>5 DEF NextWrite
  <2>8. StoreOK(fs) /\ Owned(fs) /\ Belongs(plan, n, t, fs) BY <1>2, <2>1, <2>4, <2>5
  <2>9. Owned(gs) BY <2>1, <2>6, <2>7, <2>8, OneWriteKeepsOwner
  <2> QED BY <2>5, <2>9
<1>6. CASE Base' = Erased(Base) /\ \A f \in Approvals : Base'[f] = Absent
  BY <1>1, <1>2, <1>6, ErasedIsOwned
<1> QED BY <1>3, <1>4, <1>5, <1>6 DEF Moved

LEMMA AwaySettles ==
    ASSUME OneOwner, Away
    PROVE  \A p \in Processes : (task[p].at = "write" /\ ~Whole(p))' => Settled(p)'
<1>1. Base' = Base BY SameBase DEF Away
<1> QED BY <1>1 DEF Away, OneOwner, Settled, Whole

LEMMA TurnSettles ==
    ASSUME IInv, OneOwner, Setting, NEW r \in Processes, Turns(r),
           NEW p \in Processes, task'[p].at = "write", ~Whole(p)'
    PROVE  Settled(p)'
<1>1. /\ JournalOK /\ StoreOK(files) /\ Files = Documents /\ Nothing \notin Documents /\ Tasks
      /\ ProcessOK(p)
  BY StorageAssumption DEF IInv, Setting
<1>2. StoreOK(Base) /\ Owned(Base) BY <1>1, ContentsFit DEF OneOwner
<1>3. p = r
  <2>1. SUFFICES ASSUME p # r PROVE FALSE OBVIOUS
  <2>2. task'[p] = task[p] BY <2>1 DEF Turns, OnlyTask
  <2>3. lock = p BY <1>1, <2>2 DEF ProcessOK, Busy
  <2> QED BY <2>1, <2>3, StorageAssumption DEF Turns
<1>4. CASE Chosen(p)
  <2>1. PICK op, fs : op = task[p].op /\ fs = Base OBVIOUS
  <2>2. PICK plan : plan = task'[p].plan OBVIOUS
  <2>3. OpFits(op) /\ plan \in AllPlans(op, fs) BY <1>1, <1>4, <2>1, <2>2 DEF Tasks, Chosen
  <2>4. StoreOK(fs) /\ Owned(fs) BY <1>2, <2>1
  <2>5. PICK some : some # Absent
    <3>1. Absent # 0 \/ Absent # 1 OBVIOUS
    <3> QED BY <3>1
  <2>6. PICK t : t # Absent /\ Belongs(plan, 0, t, fs)
    BY <1>1, <2>3, <2>4, <2>5, OwnedPlan
  <2> QED BY <1>4, <2>1, <2>2, <2>6 DEF Chosen, Settled
<1>5. CASE Advanced(p)
  <2>1. PICK t : t # Absent /\ Belongs(task[p].plan, task[p].done, t, Base)
    BY <1>5 DEF Advanced, OneOwner, Settled
  <2>2. WritingOK(p) BY <1>1, <1>5 DEF ProcessOK, Advanced
  <2>3. Len(task[p].plan) \in Nat /\ task[p].done \in Nat
    BY <2>2 DEF WritingOK, PlanOK, IsSeq
  <2>4. PICK plan, n : plan = task[p].plan /\ n = task[p].done OBVIOUS
  <2>5. PICK fs, gs : fs = Base /\ gs = Base' OBVIOUS
  <2>6. PICK m : m = task'[p].done OBVIOUS
  <2>7. /\ n \in Nat /\ n + 1 <= Len(plan) /\ Len(plan) \in Nat /\ m \in {n, n + 1}
        /\ task'[p].plan = plan
    BY <1>5, <2>3, <2>4, <2>6 DEF Advanced
  <2>8. StoreOK(fs) /\ Owned(fs) /\ Belongs(plan, n, t, fs) BY <1>2, <2>1, <2>4, <2>5
  <2>9. \/ gs = [fs EXCEPT ![plan[n + 1].file] = plan[n + 1].to]
        \/ gs = fs /\ (m = n \/ plan[n + 1].failing = "ignore")
    BY <1>5, <2>4, <2>5, <2>6 DEF Advanced, NextWrite
  <2>10. Belongs(plan, m, t, gs)
    <3>1. CASE gs = [fs EXCEPT ![plan[n + 1].file] = plan[n + 1].to]
      <4>1. Belongs(plan, n + 1, t, gs) /\ Belongs(plan, n, t, gs)
        BY <2>1, <2>7, <2>8, <3>1, OneWriteKeepsOwner
      <4> QED BY <2>7, <4>1
    <3>2. CASE gs = fs /\ m = n BY <2>8, <3>2
    <3>3. CASE gs = fs /\ m = n + 1 /\ plan[n + 1].failing = "ignore"
      <4>1. Belongs(plan, n + 1, t, fs) BY <2>7, <2>8, <3>3, OneLostKeepsOwner
      <4> QED BY <3>3, <4>1
    <3> QED BY <2>7, <2>9, <3>1, <3>2, <3>3
  <2> QED BY <2>1, <2>5, <2>6, <2>7, <2>10 DEF Settled
<1> QED BY <1>3, <1>4, <1>5 DEF Turns

(* SQLite writes nothing piecemeal.                                          *)
LEMMA TransactTurns ==
    ASSUME IInv, NEW p \in Processes, Transact(p)
    PROVE  Turns(p)
<1>1. Tasks /\ lock = Free BY DEF Transact, IInv
<1>2. PICK applied : applied = Whole(p) OBVIOUS
<1>3. applied \in BOOLEAN BY <1>1, <1>2 DEF Tasks, OpFits, Whole
<1>4. \/ \E result : Leaves(p, "left", result)
      \/ \E result : LeavesApplied(p, "left", applied, result)
  BY <1>2 DEF Transact, Leave, Leaves, LeavesApplied
<1>5. ASSUME NEW result, Leaves(p, "left", result) PROVE Turns(p)
  <2>1. OnlyTask(p) /\ task'[p].at = "left" BY <1>1, <1>5, TaskLeaves
  <2> QED BY <1>1, <2>1 DEF Turns
<1>6. ASSUME NEW result, LeavesApplied(p, "left", applied, result) PROVE Turns(p)
  <2>1. OnlyTask(p) /\ task'[p].at = "left" BY <1>1, <1>3, <1>6, TaskLeavesApplied
  <2> QED BY <1>1, <2>1 DEF Turns
<1> QED BY <1>4, <1>5, <1>6

LEMMA OneOwnerStays ==
    ASSUME IInv, OneOwner, Setting, [Next]_evars, ~lost'
    PROVE  OneOwner'
<1>1. Moved /\ Recalls BY NextIsFine DEF Simulated
<1>2. Owned(Base') BY <1>1, CommittedIsOwned
<1>3. Tasks BY DEF IInv
<1>4. \A p \in Processes : (task[p].at = "write" /\ ~Whole(p))' => Settled(p)'
  <2>1. CASE UNCHANGED evars
    <3>1. Away BY <2>1 DEF evars, pvars, Away
    <3> QED BY <3>1, AwaySettles
  <2>2. ASSUME NEW r \in Processes, MemoryStep(r) \/ PersonaStep(r) \/ Die(r)
        PROVE  \A p \in Processes : (task[p].at = "write" /\ ~Whole(p))' => Settled(p)'
    <3>1. Away BY <1>1, <1>3, <2>2, MemoryStepIsAway, PersonaStepIsAway, DieIsAway
    <3> QED BY <3>1, AwaySettles
  <2>3. ASSUME NEW r \in Processes, Store(r)
        PROVE  \A p \in Processes : (task[p].at = "write" /\ ~Whole(p))' => Settled(p)'
    <3>1. Turns(r)
      <4>1. CASE Transactional BY <2>3, <4>1, TransactTurns DEF Store
      <4>2. CASE ~Transactional
        <5>1. StorageStep(r) /\ Stepping BY <1>1, <2>3, <4>2 DEF Store, Stepping
        <5> QED BY <5>1, StorageStepTurns
      <4> QED BY <4>1, <4>2
    <3> QED BY <3>1, TurnSettles
  <2>4. ASSUME NEW scope \in {"relationship", "complete user"}, Erase(scope)
        PROVE  \A p \in Processes : (task[p].at = "write" /\ ~Whole(p))' => Settled(p)'
    <3>1. task' = [p \in Processes |-> Resting("down", NoOp, "none")]
      BY <2>4, RestingTasks DEF Erase
    <3>2. \A p \in Processes : task'[p].at = "down" BY <3>1 DEF Resting
    <3> QED BY <3>2
  <2> QED BY <2>1, <2>2, <2>3, <2>4 DEF Next, Done
<1> QED BY <1>2, <1>4 DEF OneOwner

LEMMA NewOwner ==
    ASSUME Init, Setting
    PROVE  OneOwner
<1>1. journal = Nothing /\ task = [p \in Processes |-> Idle] /\ Files = Documents
  BY DEF Init, StorageInit, Setting
<1>2. IInv /\ StoreOK(files) BY InitIsFine DEF IInv
<1>3. Base = files BY <1>1, <1>2, NoJournal, BaseWithoutImages
<1>4. Owned(files) BY NewStoreIsOwned
<1>5. \A p \in Processes : task[p].at = "idle" BY <1>1 DEF Idle
<1> QED BY <1>3, <1>4, <1>5 DEF OneOwner

(* However many processes initialise and import at once, fail, crash and     *)
(* recover each other's work, one scope never gets two relationships: each   *)
(* of them finds under the lock whose scope it is (file_storage.py:1656-1702,*)
(* engine.py:3047-3160).                                                     *)
THEOREM ScopesHaveOneRelationship == Setting => (Spec => []OneRelationship)
<1> SUFFICES ASSUME Setting PROVE Spec => []OneRelationship OBVIOUS
<1>1. Init => IInv /\ OneOwner BY InitIsFine, NewOwner
<1>2. IInv /\ (lost \/ OneOwner) /\ [Next]_evars => IInv' /\ (lost \/ OneOwner)'
  <2>1. IInv /\ [Next]_evars => IInv' /\ (lost => lost') BY NextIsFine DEF Recalls
  <2> QED BY <2>1, OneOwnerStays
<1>3. lost \/ OneOwner => OneRelationship
  <2>1. Files = Documents BY DEF Setting
  <2>2. /\ Contents("registry") = Base["registry"] /\ Contents("turns") = Base["turns"]
        /\ Contents("profile") = Base["profile"]
    BY <2>1 DEF Base, Documents
  <2> QED BY <2>2 DEF OneOwner, Owned, Owner, OneRelationship
<1> QED BY <1>1, <1>2, <1>3, PTL DEF Spec
=============================================================================
