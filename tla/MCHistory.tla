----------------------------- MODULE MCHistory -----------------------------
(* Instances of History for TLC. The names are model values, as identities    *)
(* made of them are compared with one another.                                *)
EXTENDS History, TLC

CONSTANTS home, away, r, q, p1, p2, c1, c2, r1, r2, r3, l1, l2, l3, x1, e1, e2, e3, k1, k2, m1, m2, m3, t1, t2, n1,
          f1, f2, o

Event(name, kind, journals_, more) ==
    more @@ [name |-> name, kind |-> kind, journals |-> journals_, on |-> None, next |-> None,
             of |-> "promise", condition |-> FALSE, due |-> 0, origin |-> None, at |-> 2,
             refers |-> {}, supported |-> FALSE, verdicts |-> {TRUE}, occurrence |-> None]

(* Two promises that supersede each other, one with a condition. The events   *)
(* that end one were recorded by a clock that runs behind.                    *)
Promises ==
    {Event(p1, "promise", {"direct"}, [condition |-> TRUE]),
     Event(p2, "promise", {"direct", "transient"}, [due |-> 1]),
     Event(c1, "confirmed", {"transient"}, [on |-> p1, at |-> 1, verdicts |-> BOOLEAN]),
     Event(r1, "resolved", {"direct"}, [on |-> p1, next |-> p2, at |-> 1]),
     Event(r2, "resolved", {"transient"}, [on |-> p2, next |-> p1, at |-> 1]),
     Event(r3, "resolved", {"direct"}, [on |-> p1, at |-> 1])}

(* Two matters of one memory, decided about by processing runs or recorded.   *)
Loops ==
    {Event(l1, "loop", {"run"}, [origin |-> n1]),
     Event(l2, "loop", {"direct"}, [origin |-> n1]),
     Event(l3, "loop", {"direct", "run"}, <<>>),
     Event(x1, "resolved", {"direct", "run"}, [on |-> l1, next |-> l3, of |-> "loop", at |-> 1])}

(* A thread, and an occurrence that is told of twice and refers to it.        *)
Stories ==
    {Event(p2, "promise", {"direct"}, <<>>),
     Event(r1, "resolved", {"direct"}, [on |-> p2, at |-> 1]),
     Event(f1, "plain", {"transient"}, [occurrence |-> o]),
     Event(f2, "plain", {"transient"}, [occurrence |-> o, refers |-> {p2}])}

(* Accepted events of shown and supported Turns.                              *)
Sources ==
    {Event(e1, "plain", {"turn"}, [supported |-> TRUE]),
     Event(e2, "plain", {"turn"}, [supported |-> TRUE, refers |-> {e1}]),
     Event(e3, "plain", {"turn"}, [supported |-> TRUE, refers |-> {e1}])}

Consequence(name, tension, event) == [name |-> name, tension |-> tension, event |-> event, at |-> 1]

Link(name, rank, event, outcome, times) ==
    [name |-> name, rank |-> rank, event |-> event, outcome |-> outcome, times |-> times, evidence |-> TRUE]

Offer(events, cons, ls, bound) ==
    [writes |-> bound, events |-> events, consequences |-> cons, links |-> ls,
     nodes |-> {e.origin : e \in events} \ {None}]

Tensions(times) ==
    Offer(Sources, {Consequence(k1, t1, e1), Consequence(k2, t2, e1)},
          {Link(m1, 1, e2, "unresolved", times), Link(m2, 2, e3, "reconciled", {2}), Link(m3, 3, e3, "superseded", {4})}, 7)

MCOffers == {Offer(Promises, {}, {}, 5), Offer(Loops, {}, {}, 5), Offer(Stories, {}, {}, 4),
             Tensions({1}), Tensions({3})}

(* The same link recorded in two stores, by clocks that differ.               *)
SkewedOffers == {Tensions({1, 3})}
=============================================================================
