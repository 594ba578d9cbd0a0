------------------------------ MODULE Erasure ------------------------------
(* What erasing one Turn or one event takes away with it.  A relationship has*)
(* two append-only journals, of events that hosts recorded and of decisions  *)
(* about candidates; Turns and processing runs remember how much of both they*)
(* had seen, reflections what was there when they were made.  The erasure    *)
(* closes the selection over all of that in a staged copy, and the copy is   *)
(* published only if a MemoryPack round trip accepts it.                     *)
EXTENDS Naturals, FiniteSets, Sequences, SequencesExt

CONSTANTS Turns, Host, None,
          MaxDirect, MaxBatch, MaxReflections, MaxRecords, MaxErasures

VARIABLES direct,       \* journal of [id, needs, origin]
          journal,      \* journal of [id, turn, accepted, needs]
          turns,        \* [Turns -> what they had seen, or None]
          runs,         \* [Turns -> their processing run, or None]
          reflections,  \* sequence of reflection decisions
          growth,       \* approved growth, each the events that support it
          archived,     \* the Turns whose memories are archived
          tensions,     \* [event, link]: consequences, and links to them
          erasure       \* the last one

evars == <<direct, journal, turns, runs, reflections, growth, archived, tensions, erasure>>

Ids(seq) == {seq[i].id : i \in DOMAIN seq}
Accepted == SelectSeq(journal, LAMBDA d : d.accepted)
Events == Ids(direct) \cup Ids(Accepted)

(* A decision shares its name with the event it accepts: <<turn, 0>> when a  *)
(* host submitted the candidate, <<turn, i>> for the i-th of the turn's run. *)
FromRun(d) == d.id[2] > 0
OfTurn(t) == {d \in Range(journal) : d.turn = t}
Committed(t) == {d \in OfTurn(t) : FromRun(d)}

Seen(record, which) == {which[i].id : i \in 1..record}

Small(S) == {{}} \cup {{x} : x \in S}

Records == Len(direct) + Len(journal) + Len(reflections) + Cardinality(growth)
             + Cardinality(archived)
More == erasure.done < MaxErasures
Room == More /\ Records < MaxRecords

Init ==
    /\ direct = <<>> /\ journal = <<>> /\ reflections = <<>>
    /\ turns = [t \in Turns |-> None]
    /\ runs = [t \in Turns |-> None]
    /\ growth = {} /\ archived = {} /\ tensions = {}
    /\ erasure = [done |-> 0]

-----------------------------------------------------------------------------
(* How a history comes about.  A Turn is opened over what is in the journals;*)
(* everything about it comes after its completion.                           *)
OpenTurn(t) ==
    /\ More /\ turns[t] = None
    /\ turns' = [turns EXCEPT ![t] = [modern |-> TRUE, direct |-> Len(direct),
                                      decisions |-> Len(journal)]]
    /\ UNCHANGED <<direct, journal, runs, reflections, growth, archived, tensions, erasure>>

(* A Promise, an Open Loop that starts from an archived memory, or what      *)
(* settles, confirms or continues an earlier event.                          *)
RecordEvent ==
    /\ Room /\ Len(direct) < MaxDirect
    /\ \E needs \in Small(Events), origin \in archived \cup {None} :
          direct' = Append(direct, [id |-> <<Host, Len(direct) + erasure.done * MaxDirect + 1>>,
                                    needs |-> needs, origin |-> origin])
    /\ UNCHANGED <<journal, turns, runs, reflections, growth, archived, tensions, erasure>>

Decide(id, t) ==
    \E accepted \in BOOLEAN, needs \in Small(Events) :
        journal' = Append(journal, [id |-> id, turn |-> t, accepted |-> accepted,
                                    needs |-> needs])

(* adjudicate_turn_candidates                                                *)
Submit(t) ==
    /\ Room /\ turns[t] # None
    /\ <<t, 0>> \notin Ids(journal)
    /\ Decide(<<t, 0>>, t)
    /\ UNCHANGED <<direct, turns, runs, reflections, growth, archived, tensions, erasure>>

(* Extraction freezes a batch and how much of the journals there was.        *)
Freeze(t) ==
    /\ More /\ turns[t] # None /\ runs[t] = None
    /\ \E size \in 0..MaxBatch :
          runs' = [runs EXCEPT ![t] = [direct |-> Len(direct), decisions |-> Len(journal),
                                       size |-> size, settled |-> {}]]
    /\ UNCHANGED <<direct, journal, turns, reflections, growth, archived, tensions, erasure>>

(* The batch is decided candidate by candidate; a call may die in between.   *)
CommitCandidate(t) ==
    /\ Room /\ runs[t] # None
    /\ Cardinality(Committed(t)) < runs[t].size
    /\ \E accepted \in BOOLEAN,
          needs \in Small((Seen(runs[t].direct, direct) \cup Seen(runs[t].decisions, journal)
                             \cup {d.id : d \in Committed(t)}) \cap Events) :
          journal' = Append(journal, [id |-> <<t, Cardinality(Committed(t)) + 1>>, turn |-> t,
                                      accepted |-> accepted, needs |-> needs])
    /\ UNCHANGED <<direct, turns, runs, reflections, growth, archived, tensions, erasure>>

(* Only then the run says which decisions are its own.                       *)
Settle(t) ==
    /\ More /\ runs[t] # None /\ runs[t].settled = {} /\ runs[t].size > 0
    /\ Cardinality(Committed(t)) = runs[t].size
    /\ runs' = [runs EXCEPT ![t].settled = {d.id : d \in Committed(t)}]
    /\ UNCHANGED <<direct, journal, turns, reflections, growth, archived, tensions, erasure>>

(* A reflection remembers everything that was there when it was made.        *)
Reflection(event, k, target) ==
    [id |-> <<event, k>>, event |-> event, target |-> target, events |-> Events \ {event},
     priors |-> Ids(reflections), growth |-> growth]

Reflect(t) ==
    /\ Room /\ Len(reflections) < MaxReflections /\ runs[t] # None
    /\ \E e \in runs[t].settled \cap Ids(Accepted) :
          /\ <<e, 0>> \notin Ids(reflections)
          /\ reflections' = Append(reflections, Reflection(e, 0, None))
    /\ UNCHANGED <<direct, journal, turns, runs, growth, archived, tensions, erasure>>

(* A correction or a reinterpretation of an earlier one.                     *)
Reinterpret ==
    /\ Room /\ Len(reflections) < MaxReflections
    /\ \E target \in Range(reflections) :
          reflections' = Append(reflections, Reflection(target.event, Len(reflections), target.id))
    /\ UNCHANGED <<direct, journal, turns, runs, growth, archived, tensions, erasure>>

ApproveGrowth ==
    /\ Room
    /\ \E e \in Events : growth' = growth \cup {{e}}
    /\ UNCHANGED <<direct, journal, turns, runs, reflections, archived, tensions, erasure>>

Archive(t) ==
    /\ Room /\ turns[t] # None
    /\ archived' = archived \cup {t}
    /\ UNCHANGED <<direct, journal, turns, runs, reflections, growth, tensions, erasure>>

(* A consequence of an accepted event, in a Turn reviewed against its        *)
(* context; a link to it from another such event that refers to it.          *)
Reviewed(d) == d.accepted /\ turns[d.turn] # None /\ turns[d.turn].modern
Consequence ==
    /\ Room
    /\ \E d \in Range(journal) :
          /\ Reviewed(d)
          /\ \/ tensions' = tensions \cup {[event |-> d.id, link |-> None]}
             \/ \E c \in tensions : /\ c.link = None /\ c.event \in d.needs
                                    /\ tensions' = tensions \cup {[event |-> c.event, link |-> d.id]}
    /\ UNCHANGED <<direct, journal, turns, runs, reflections, growth, archived, erasure>>

-----------------------------------------------------------------------------
(* The closure: which events and decisions are removed, and which Turns lose *)
(* a decision by it.                                                         *)
(* _cascade_event_deletions: one pass over the records, one over the events. *)
Removal == [events : SUBSET ((Turns \cup {Host}) \X Nat), decisions : SUBSET (Turns \X Nat),
            turns : SUBSET Turns, runs : SUBSET Turns]

CascadePass(r) ==
    LET hit == {d \in Range(journal) :
                   \/ d.id \in r.decisions
                   \/ ((IF d.accepted THEN {d.id} ELSE {}) \cup d.needs) \cap r.events # {}}
        gone == r.events \cup {d.id : d \in {x \in hit : x.accepted}}
    IN  [r EXCEPT !.decisions = @ \cup {d.id : d \in hit},
                  !.turns = @ \cup {d.turn : d \in hit},
                  !.events = gone \cup
                      {e.id : e \in {x \in Range(direct) \cup Range(Accepted) :
                                        x.needs \cap gone # {}}}]

Cascade(r) ==
    LET pass[was \in Removal \cup {None}, is \in Removal] ==
            IF is = was THEN is ELSE pass[is, CascadePass(is)]
    IN  pass[None, r]

(* A run goes when its Turn, anything it made or anything it had seen goes,  *)
(* and takes with it what it says is its own.                                *)
Revoked(r) ==
    {t \in Turns :
        /\ runs[t] # None
        /\ \/ t \in r.turns
           \/ runs[t].settled \cap (r.events \cup r.decisions) # {}
           \/ Seen(runs[t].direct, direct) \cap r.events # {}
           \/ Seen(runs[t].decisions, journal) \cap r.decisions # {}}

ClosurePass(r) ==
    LET revoked == Revoked(r)
        own == UNION {runs[t].settled : t \in revoked}
    IN  [Cascade([r EXCEPT !.events = @ \cup (own \cap Ids(Accepted)),
                           !.decisions = @ \cup own,
                           !.turns = @ \cup revoked])
             EXCEPT !.runs = revoked]

\* Faulty: the runs are looked through once.
ClosureOnce(r) == ClosurePass(Cascade(r))

Closure(r) ==
    LET pass[was \in Removal \cup {None}, is \in Removal] ==
            IF is = was THEN is ELSE pass[is, ClosurePass(is)]
    IN  pass[None, Cascade(r)]

(* The seeds of the two selectors.                                           *)
TurnSelected(t) ==
    [events |-> {d.id : d \in {x \in OfTurn(t) : x.accepted}},
     decisions |-> {d.id : d \in OfTurn(t)}, turns |-> {t}, runs |-> {}]
EventSelected(e) == [events |-> {e}, decisions |-> {}, turns |-> {}, runs |-> {}]

-----------------------------------------------------------------------------
(* The staged copy: the closure taken out of every document.                 *)
\* Faulty: only the events that a Turn had seen can be lost.
KeptTurnBlind(t, r) ==
    IF turns[t] = None THEN None
    ELSE IF turns[t].modern /\ Seen(turns[t].direct, direct) \cap r.events # {}
         THEN [modern |-> FALSE, direct |-> 0, decisions |-> 0]
         ELSE turns[t]

KeptTurn(t, r) ==
    IF turns[t] = None THEN None
    ELSE LET lost == \/ Seen(turns[t].direct, direct) \cap r.events # {}
                     \/ Seen(turns[t].decisions, journal) \cap r.decisions # {}
         IN  IF turns[t].modern /\ lost THEN [modern |-> FALSE, direct |-> 0, decisions |-> 0]
             ELSE turns[t]

(* Reflections of a removed event go, and what reinterprets one that goes.   *)
GoneReflections(r) ==
    LET Targets(gone) == gone \cup {x.id : x \in {y \in Range(reflections) : y.target \in gone}}
        pass[gone \in SUBSET Ids(reflections)] ==
            IF Targets(gone) = gone THEN gone ELSE pass[Targets(gone)]
    IN  pass[{x.id : x \in {y \in Range(reflections) : y.event \in r.events}}]

KeptReflections(r) ==
    SelectSeq(reflections, LAMBDA x : /\ x.id \notin GoneReflections(r)
                                      /\ x.event[1] \notin r.turns)

KeptRuns(r) ==
    [t \in Turns |-> IF \/ t \in r.runs \cup r.turns
                       \/ /\ runs[t] # None
                          /\ runs[t].settled \cap r.events # {}
                    THEN None ELSE runs[t]]

\* Faulty: a link goes with its consequence, not with the other event.
KeptTensionsLinked(r) == {c \in tensions : c.event \notin r.events /\ c.event[1] \notin r.turns}

KeptTensions(r) ==
    {c \in tensions : /\ {c.event, c.link} \cap r.events = {}
                      /\ \A e \in {c.event, c.link} \ {None} : e[1] \notin r.turns}

\* Growth that argues from a removed event goes, and what a Turn had archived.
KeptGrowth(r) == {g \in growth : g \cap r.events = {}}
KeptArchived(r) == archived \ r.turns

Staged(r) ==
    [direct |-> SelectSeq(direct, LAMBDA e : e.id \notin r.events),
     journal |-> SelectSeq(journal, LAMBDA d : d.id \notin r.decisions),
     turns |-> [t \in Turns |-> KeptTurn(t, r)],
     runs |-> KeptRuns(r),
     reflections |-> KeptReflections(r),
     growth |-> KeptGrowth(r),
     archived |-> KeptArchived(r),
     tensions |-> KeptTensions(r)]

\* A selected Turn goes as well; one whose context is cut is only downgraded.
WithoutTurn(r, t) == [Staged(r) EXCEPT !.turns[t] = None]

StagedFor(r, selected) == IF selected = None THEN Staged(r) ELSE WithoutTurn(r, selected)

-----------------------------------------------------------------------------
(* The round trip refuses a copy for one of these reasons.                   *)
EventsOf(s) == Ids(s.direct) \cup Ids(SelectSeq(s.journal, LAMBDA d : d.accepted))

RunlessDecision(s) ==
    \E d \in Range(s.journal) : FromRun(d) /\ s.runs[d.turn] = None
ForgottenContext(s) ==
    \E i \in DOMAIN s.reflections :
        LET x == s.reflections[i]
        IN  \/ ~(x.events \subseteq EventsOf(s))
            \/ ~(x.priors \subseteq {s.reflections[j].id : j \in 1..(i - 1)})
            \/ ~(x.growth \subseteq s.growth)
LostOrigin(s) ==
    \E e \in Range(s.direct) : e.origin # None /\ e.origin \notin s.archived
UnreviewedTension(s) ==
    \E c \in s.tensions : \E e \in {c.event, c.link} \ {None} :
        s.turns[e[1]] = None \/ ~s.turns[e[1]].modern

(* And for these.                                                            *)
Dangling(s) ==
    \/ \E e \in Range(s.direct) \cup Range(s.journal) : ~(e.needs \subseteq EventsOf(s))
    \/ \E t \in Turns : s.runs[t] # None /\ ~(s.runs[t].settled \subseteq Ids(s.journal))
    \/ \E t \in Turns : s.runs[t] # None /\ s.turns[t] = None
    \/ \E d \in Range(s.journal) : s.turns[d.turn] = None
    \/ \E x \in Range(s.reflections) :
          \/ x.event \notin EventsOf(s)
          \/ x.target = None /\ s.runs[x.event[1]] = None
          \/ x.target # None /\ x.target \notin Ids(s.reflections)
    \/ \E g \in s.growth : ~(g \subseteq EventsOf(s))
    \/ \E c \in s.tensions :
          \/ c.event \notin EventsOf(s)
          \/ c.link # None /\ (c.link \notin EventsOf(s)
                                \/ [event |-> c.event, link |-> None] \notin s.tensions)

Portable(s) == ~( \/ RunlessDecision(s) \/ ForgottenContext(s) \/ LostOrigin(s)
                  \/ UnreviewedTension(s) \/ Dangling(s) )

(* Erases, and publishes or leaves everything as it was.                     *)
Erase(seed, selected) ==
    /\ More
    /\ erasure' = [done |-> erasure.done + 1, seed |-> seed, selected |-> selected,
                   removed |-> Closure(seed)]
    /\ \E s \in {StagedFor(erasure'.removed, selected)} :
          IF Portable(s)
          THEN /\ direct' = s.direct /\ journal' = s.journal /\ turns' = s.turns
               /\ runs' = s.runs /\ reflections' = s.reflections /\ growth' = s.growth
               /\ archived' = s.archived /\ tensions' = s.tensions
          ELSE UNCHANGED <<direct, journal, turns, runs, reflections, growth, archived, tensions>>

EraseTurn(t) == turns[t] # None /\ Erase(TurnSelected(t), t)
EraseEvent == \E e \in Events : Erase(EventSelected(e), None)

Next == \/ \E t \in Turns : \/ OpenTurn(t) \/ Submit(t) \/ Freeze(t) \/ CommitCandidate(t)
                            \/ Settle(t) \/ Reflect(t) \/ Archive(t) \/ EraseTurn(t)
        \/ RecordEvent \/ Reinterpret \/ ApproveGrowth \/ Consequence \/ EraseEvent

Spec == Init /\ [][Next]_evars
-----------------------------------------------------------------------------
(* The run of a Turn is of it, decisions of a run are in order, and what     *)
(* anything has seen is there.                                               *)
TypeOK ==
    /\ \A t \in Turns : runs[t] # None =>
          /\ turns[t] # None
          /\ runs[t].direct <= Len(direct) /\ runs[t].decisions <= Len(journal)
          /\ runs[t].settled \subseteq Ids(journal)
    /\ \A t \in Turns : turns[t] # None =>
          turns[t].direct <= Len(direct) /\ turns[t].decisions <= Len(journal)
    /\ IsInjective(direct) /\ IsInjective(journal)

(* What depends on what: an event and its decision on each other, both on    *)
(* what they refer to, a run on its Turn and on all it had seen, what a run  *)
(* made on the run, and what is derived from a Turn on the Turn's decisions. *)
Depends ==
    LET decided == {d \in Range(journal) : d.accepted}
        needed == {<<"event", e>> : e \in Events}
        run == {t \in Turns : runs[t] # None}
    IN  UNION { {<<<<"event", d.id>>, <<"decision", d.id>>>> : d \in decided},
                {<<<<"decision", d.id>>, <<"event", d.id>>>> : d \in decided},
                {<<<<"decision", d.id>>, <<"turn", d.turn>>>> : d \in Range(journal)},
                UNION {{<<<<"event", e>>, <<"decision", d.id>>>> : e \in d.needs}
                           : d \in Range(journal)},
                UNION {{<<<<"event", e>>, <<"event", x.id>>>> : e \in x.needs}
                           : x \in Range(direct)},
                {<<<<"turn", t>>, <<"run", t>>>> : t \in run},
                {<<<<"run", t>>, <<"turn", t>>>> : t \in run},
                UNION {{<<<<"run", t>>, <<"decision", d>>>> : d \in runs[t].settled} : t \in run},
                UNION {{<<<<"event", e>>, <<"run", t>>>> : e \in Seen(runs[t].direct, direct)}
                           : t \in run},
                UNION {{<<<<"decision", d>>, <<"run", t>>>> : d \in Seen(runs[t].decisions, journal)}
                           : t \in run} }

Reached(seeds) ==
    LET Nodes == ({"event", "decision"} \X ((Turns \cup {Host}) \X Nat))
                      \cup ({"turn", "run"} \X Turns)
        Step(S) == S \cup {e[2] : e \in {x \in Depends : x[1] \in S}}
        reach[was, is \in SUBSET Nodes] == IF is = was THEN is ELSE reach[is, Step(is)]
    IN  reach[seeds, Step(seeds)]

Tagged(r) == {<<"event", e>> : e \in r.events} \cup {<<"decision", d>> : d \in r.decisions}
               \cup {<<"turn", t>> : t \in r.turns} \cup {<<"run", t>> : t \in r.runs}

Erases == erasure'.done > erasure.done
Copy == StagedFor(erasure'.removed, erasure'.selected)

(* However runs, decisions and events of several Turns refer to each other,  *)
(* what is removed is what depends on the selection, and no more             *)
(* (lifecycle_erasure.py:556-686).                                           *)
RemovesTheDependents == [][Erases => Tagged(erasure'.removed) = Reached(Tagged(erasure'.seed))]_evars

(* A run that stays, and a Turn that keeps its review, still find in the     *)
(* journals exactly what they had seen, although the journals were cut: no   *)
(* fingerprint of a frozen prefix is broken (lifecycle_erasure.py:734-786).  *)
Prefix(seq, n) == [i \in 1..n |-> seq[i]]
FrozenPrefixesSurvive ==
    [][ Erases =>
          \A s \in {Copy}, t \in Turns :
              LET Same(x) == /\ Len(s.direct) >= x.direct /\ Len(s.journal) >= x.decisions
                             /\ Prefix(s.direct, x.direct) = Prefix(direct, x.direct)
                             /\ Prefix(s.journal, x.decisions) = Prefix(journal, x.decisions)
              IN  /\ s.runs[t] # None => Same(s.runs[t])
                  /\ s.turns[t] # None => Same(s.turns[t]) ]_evars

(* The staged copy closes over itself, reflections, growth, consequences and *)
(* tension links included; whatever else a round trip refuses, it does not   *)
(* refuse it for a reference to what was removed (memory_pack_analysis.py).  *)
NothingDangles == [][Erases => \A s \in {Copy} : ~Dangling(s)]_evars

(* docs/b1-implementation-contract.md:122: a revoked run's decisions and     *)
(* events are removed as well.                                               *)
RevokedWhole ==
    [][ Erases => \A d \in Range(Copy.journal) :
                      FromRun(d) => d.turn \notin erasure'.removed.runs ]_evars
=============================================================================
