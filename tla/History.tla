------------------------------ MODULE History ------------------------------
(* The two journals of a relationship: events a host records and events that  *)
(* decisions accept. What may be appended is decided by temporal_history.py;  *)
(* MemoryPacks carry the journals without their merged order, so importing    *)
(* one has to find a causal order again. Consequences and tension links hang  *)
(* on decided events. Signals and tensions are projections of the journals.   *)
EXTENDS Consolidation

CONSTANTS
    Stores,        \* the stores a relationship may travel between
    Home, Away,    \* the one it begins in, and one that may have its own
    FileStores,    \* those of them that are FileStorage, the others are SQLite
    Relationship,  \* the id of the relationship at Home
    Other,         \* the id Away gives it if it is initialized there, too
    Offers,        \* what hosts may come up with, and the bound on their appends
    None,
    MaxImports     \* bound on the imports of a behaviour

ASSUME HistoryAssumption ==
    /\ FileStores \subseteq Stores
    /\ {Home, Away} \subseteq Stores
    /\ MaxImports \in Nat
    /\ \A o \in Offers : o.writes \in Nat

VARIABLES
    profile,       \* the relationship a store keeps, or None
    direct,        \* relationship_events, in append order
    decided,       \* relationship_adjudications, in commit order
    consequences,  \* relationship_consequences
    links,         \* narrative_tension_links
    offered,       \* what the hosts of this behaviour may come up with
    writes, imports

journals == <<direct, decided, consequences, links>>
vars == <<profile, journals, offered, writes, imports>>

-----------------------------------------------------------------------------
(* Events: identity, the payload's references resolved to identities, the     *)
(* time it was recorded at, and everything else (spec).                       *)

Same(e, f) == [e EXCEPT !.at = f.at] = f

Ids(h) == {h[i].id : i \in DOMAIN h}

EventsOf(ds) ==
    LET carrying == SelectSeq(ds, LAMBDA d : d.event # None)
    IN  [i \in DOMAIN carrying |-> carrying[i].event]

(* Each event once, where it is met first, direct events before decided ones. *)
Complete(ev, ds) ==
    LET all == ev \o EventsOf(ds)
        pass[n \in 0 .. Len(all)] ==
            IF n = 0 THEN <<>>
            ELSE LET h == pass[n - 1]
                 IN  IF all[n].id \in Ids(h) THEN h ELSE Append(h, all[n])
    IN  pass[Len(all)]

History(s) == Complete(direct[s], decided[s])

References(e) == {e.on, e.next} \ {None}

Typed(h, id, kind) == \E i \in DOMAIN h : h[i].id = id /\ h[i].spec.kind = kind

Resolutions(h, id) == {e \in Range(h) : e.spec.kind = "resolved" /\ e.on = id}

Confirmations(h, id) == {e \in Range(h) : e.spec.kind = "confirmed" /\ e.on = id}

(* Where a chain of successors leads from an event, itself included.          *)
Leads(h, id) ==
    LET after[n \in 0 .. Len(h)] ==
            IF n = 0 THEN {id}
            ELSE LET seen == after[n - 1]
                 IN  seen \cup {e.next : e \in {x \in Range(h) : x.next # None /\ x.on \in seen}}
    IN  after[Len(h)]

(* validate_append(): may the new event follow these?                         *)
LoopFits(h, e) ==
    e.spec.origin # None => \A f \in Range(h) : f.spec.origin # e.spec.origin

ConfirmationFits(h, e) ==
    /\ \E f \in Range(h) : f.id = e.on /\ f.spec.kind = "promise" /\ f.spec.condition
    /\ Resolutions(h, e.on) = {}
    /\ Confirmations(h, e.on) = {}

\* Faulty: the successor is not followed.
ResolutionFitsAnySuccessor(h, e) ==
    /\ Typed(h, e.on, e.spec.of)
    /\ Resolutions(h, e.on) = {}
    /\ e.next # None => Typed(h, e.next, e.spec.of)

ResolutionFits(h, e) ==
    /\ Typed(h, e.on, e.spec.of)
    /\ Resolutions(h, e.on) = {}
    /\ e.next # None => Typed(h, e.next, e.spec.of) /\ e.on \notin Leads(h, e.next)

\* Faulty: the memory a loop comes from is not compared.
FitsAnyOrigin(h, e) ==
    /\ e.spec.kind = "confirmed" => ConfirmationFits(h, e)
    /\ e.spec.kind = "resolved" => ResolutionFits(h, e)

Fits(h, e) ==
    /\ e.spec.kind = "loop" => LoopFits(h, e)
    /\ e.spec.kind = "confirmed" => ConfirmationFits(h, e)
    /\ e.spec.kind = "resolved" => ResolutionFits(h, e)

MayAppend(h, e) ==
    IF e.id \in Ids(h) THEN \A f \in Range(h) : f.id = e.id => Same(f, e)
                       ELSE Fits(h, e)

(* causal_prerequisites(): references, and confirmations before the end.      *)
\* Faulty: only what is referred to.
PrerequisitesAreReferences(h, e) == References(e) \ {e.id}

Prerequisites(h, e) ==
    (References(e) \cup IF e.spec.kind = "resolved"
                        THEN {c.id : c \in Confirmations(h, e.on)} ELSE {}) \ {e.id}

CausalOrder(h) ==
    LET Ready(done) == {i \in DOMAIN h : /\ h[i].id \notin Ids(done)
                                         /\ Prerequisites(h, h[i]) \subseteq Ids(done)}
        pass[n \in 0 .. Len(h)] ==
            IF n = 0 THEN <<>>
            ELSE LET done == pass[n - 1]
                     ready == Ready(done)
                 IN  IF ready = {} THEN done ELSE Append(done, h[Min(ready)])
    IN  pass[Len(h)]

(* validate_complete_history() of journals whose merged order is lost. What   *)
(* has one identity is one event, and nothing refers to what is not there.    *)
ReferencesHold(all, h) ==
    /\ \A i \in DOMAIN all : \A e \in Range(h) : e.id = all[i].id => Same(e, all[i])
    /\ \A e \in Range(h) : References(e) \subseteq Ids(h)

NoDuplicateLifecycle(h) ==
    \A e \in Range(h) : /\ Cardinality(Resolutions(h, e.id)) <= 1
                        /\ Cardinality(Confirmations(h, e.id)) <= 1

OrderIsValid(order, h) ==
    /\ Len(order) = Len(h)
    /\ \A i \in DOMAIN order : \E e \in {order[i]}, before \in {SubSeq(order, 1, i - 1)} :
          /\ e.spec.kind = "loop" => LoopFits(before, e)
          /\ e.spec.kind = "confirmed" =>
                /\ \E f \in Range(h) : f.id = e.on /\ f.spec.kind = "promise" /\ f.spec.condition
                /\ Resolutions(before, e.on) = {}
          /\ e.spec.kind = "resolved" =>
                /\ Typed(h, e.on, e.spec.of)
                /\ e.next # None => Typed(h, e.next, e.spec.of)

SuccessorsEnd(h) == \A e \in Range(h) : e.next # None => e.on \notin Leads(h, e.next)

CompleteIsValid(ev, ds) ==
    \E all \in {ev \o EventsOf(ds)}, h \in {Complete(ev, ds)} : \E order \in {CausalOrder(h)} :
        /\ ReferencesHold(all, h)
        /\ NoDuplicateLifecycle(h)
        /\ OrderIsValid(order, h)
        /\ SuccessorsEnd(h)

-----------------------------------------------------------------------------
(* Tensions: a consequence opens one, links tell how it went on. Links are    *)
(* read by the time they were recorded at; a link met twice counts at the     *)
(* earlier time.                                                              *)

Terminal == {"reconciled", "stabilized", "ended", "superseded"}

Earlier(l, m) == l.at < m.at \/ (l.at = m.at /\ l.spec.rank < m.spec.rank)

FirstRecorded(L) == {l \in L : \A m \in L : m.id = l.id => l.at <= m.at}

(* NarrativeTensionProjector.project() answers instead of raising.            *)
Projects(C, L) ==
    /\ \A c, d \in C : c.id = d.id => Same(c, d)
    /\ \A c, d \in C : c.tension = d.tension => c.id = d.id
    /\ \A l, m \in L : l.id = m.id => Same(l, m)
    /\ \A l \in L : \E c \in C : c.id = l.on /\ c.tension = l.tension
    /\ \A l, m \in FirstRecorded(L) :
          l.on = m.on /\ Earlier(l, m) /\ l.spec.outcome \in Terminal
             => m.spec.outcome = "superseded"

Outcome(id, L) ==
    LET its == {l \in L : l.on = id}
    IN  IF its = {} THEN "unaddressed"
        ELSE (CHOOSE l \in its : \A m \in its : l = m \/ Earlier(m, l)).spec.outcome

(* _resolve_accepted_event_source(): an accepted decision about a completed   *)
(* Turn whose reply was reviewed, supported and shown.                        *)
Sourced(id, ds) == \E d \in Range(ds) : d.event # None /\ d.event.id = id /\ d.event.spec.supported

(* validate_journal()                                                         *)
JournalIsValid(C, L, ds) ==
    /\ Projects(C, L)
    /\ \A c \in C : Sourced(c.event, ds)
    /\ \A l \in L : /\ Sourced(l.event, ds)
                    /\ l.spec.evidence
                    /\ \E c \in C, d \in Range(ds) : /\ c.id = l.on
                                                     /\ d.event # None /\ d.event.id = l.event
                                                     /\ c.event \in d.event.refers

(* What append_relationship_consequence() and append_narrative_tension_link() *)
(* of a store make of one that is valid: the journal, or None for a conflict. *)
(* FileStorage looks for the consequence only, SQLite for its event, too.     *)
SameConsequence(s, C, c) == {d \in C : d.id = c.id \/ (s \notin FileStores /\ d.event = c.event)}

WithConsequence(s, C, c) ==
    LET clash == SameConsequence(s, C, c)
    IN  IF clash = {} THEN C \cup {c}
        ELSE IF \E d \in clash : Same(d, c) THEN C ELSE {None}

SameLink(L, l) == {m \in L : m.id = l.id \/ (m.tension = l.tension /\ m.event = l.event)}

WithLink(s, L, l) ==
    LET clash == SameLink(L, l)
    IN  IF clash = {} THEN L \cup {l}
        ELSE IF \E m \in clash : Same(m, l) THEN L ELSE {None}

-----------------------------------------------------------------------------
(* Packs.                                                                     *)

Snapshot(s) ==
    [rel |-> profile[s], direct |-> direct[s], decided |-> decided[s],
     consequences |-> consequences[s], links |-> links[s]]

(* In another relationship events get new identities: a decided one follows   *)
(* from the relationship and the decision, others from their old identity.    *)
NewId(p, rel, id) ==
    IF id = None THEN None
    ELSE IF \E d \in Range(p.decided) : d.event # None /\ d.event.id = id
         THEN <<rel, (CHOOSE d \in Range(p.decided) : d.event # None /\ d.event.id = id).key>>
         ELSE <<rel, id>>

Moved(p, rel, e) ==
    [e EXCEPT !.id = NewId(p, rel, @), !.on = NewId(p, rel, @), !.next = NewId(p, rel, @),
              !.refers = {NewId(p, rel, r) : r \in @}]

(* _plan_relationship_writes()                                                *)
Planned(p, rel) ==
    IF rel = p.rel THEN p
    ELSE [p EXCEPT !.rel = rel,
                   !.direct = [i \in DOMAIN @ |-> Moved(p, rel, @[i])],
                   !.decided = [i \in DOMAIN @ |->
                       [@[i] EXCEPT !.rel = rel,
                                    !.event = IF @ = None THEN None ELSE Moved(p, rel, @)]]]

(* A Turn, a processing run or a consequence ties a pack to its relationship. *)
Bound(p) == \/ p.consequences # {}
            \/ \E d \in Range(p.decided) : d.from # "transient"

Common(a, b) == \A i \in DOMAIN a \cap DOMAIN b : a[i] = b[i]

Longer(a, b) == IF Len(a) >= Len(b) THEN a ELSE b

(* _validate_relationship_processing_pack(): the journals of a pack with runs *)
(* continue the journals here, or the other way round.                        *)
ContinuesJournals(s, p) ==
    (\E d \in Range(p.decided) : d.from = "run") =>
        /\ Common(direct[s], p.direct)
        /\ Common(decided[s], p.decided)
        /\ CompleteIsValid(Longer(direct[s], p.direct), Longer(decided[s], p.decided))

(* The identities a pack brings agree with those that are here.               *)
NoConflictOfConsequences(s, p) ==
    /\ \A c, d \in consequences[s] \cup p.consequences :
          c.id = d.id \/ c.event = d.event \/ c.tension = d.tension => Same(c, d)
    /\ \A l, m \in links[s] \cup p.links :
          l.id = m.id \/ (l.tension = m.tension /\ l.event = m.event) => Same(l, m)

NoConflictOfDecisions(s, p) ==
    \A d \in Range(decided[s]), n \in Range(p.decided) : d.rel = n.rel /\ d.key = n.key => d = n

\* Faulty: identities are compared, the merged journal is not projected.
IdentitiesAgree(s, p) ==
    NoConflictOfDecisions(s, p) /\ NoConflictOfConsequences(s, p)

NoConflict(s, p) ==
    /\ NoConflictOfDecisions(s, p)
    /\ p.consequences # {} =>
          /\ NoConflictOfConsequences(s, p)
          /\ Projects(consequences[s] \cup p.consequences, links[s] \cup p.links)

(* _schedule_memory_pack_relationship_history(): the two journals are merged  *)
(* from their heads, the direct one first if it is ready.                     *)
Schedule(known, p) ==
    LET brought == p.direct \o EventsOf(p.decided)
        Ready(e, ids) == e = None \/ Prerequisites(brought, e) \subseteq ids
        With(e, ids) == IF e = None THEN ids ELSE ids \cup {e.id}
        pass[n \in 0 .. Len(p.direct) + Len(p.decided)] ==
            IF n = 0 THEN [d |-> 0, a |-> 0, ids |-> known, units |-> <<>>]
            ELSE LET m == pass[n - 1] IN
                 IF m.d < Len(p.direct) /\ Ready(p.direct[m.d + 1], m.ids)
                 THEN [m EXCEPT !.d = @ + 1, !.ids = With(p.direct[m.d + 1], @),
                                !.units = Append(@, "direct")]
                 ELSE IF m.a < Len(p.decided) /\ Ready(p.decided[m.a + 1].event, m.ids)
                 THEN [m EXCEPT !.a = @ + 1, !.ids = With(p.decided[m.a + 1].event, @),
                                !.units = Append(@, "decided")]
                 ELSE m
    IN  pass[Len(p.direct) + Len(p.decided)].units

Refused == [ok |-> FALSE, direct |-> <<>>, decided |-> <<>>]

(* append_relationship_event(): an identity known to the direct journal is    *)
(* answered, everything else must fit.                                        *)
WithDirect(j, e) ==
    IF e.id \in Ids(j.direct)
    THEN IF \E f \in Range(j.direct) : f.id = e.id /\ Same(f, e) THEN j ELSE Refused
    ELSE IF MayAppend(j.direct \o EventsOf(j.decided), e)
         THEN [j EXCEPT !.direct = Append(@, e)] ELSE Refused

(* commit_relationship_adjudication()                                         *)
WithDecision(j, d) ==
    IF \E o \in Range(j.decided) : o.rel = d.rel /\ o.key = d.key
    THEN IF d \in Range(j.decided) THEN j ELSE Refused
    ELSE IF d.event = None \/ MayAppend(j.direct \o EventsOf(j.decided), d.event)
         THEN [j EXCEPT !.decided = Append(@, d)] ELSE Refused

(* _commit_memory_pack_relationship_history_schedule()                        *)
Merged(ev, ds, p) ==
    LET units == Schedule(Ids(Complete(ev, ds)), p)
        pass[n \in 0 .. Len(units)] ==
            IF n = 0 THEN [ok |-> TRUE, direct |-> ev, decided |-> ds]
            ELSE LET j == pass[n - 1]
                     sofar == Cardinality({i \in 1 .. n : units[i] = units[n]})
                 IN  IF ~j.ok THEN j
                     ELSE IF units[n] = "direct" THEN WithDirect(j, p.direct[sofar])
                     ELSE WithDecision(j, p.decided[sofar])
    IN  IF Len(units) < Len(p.direct) + Len(p.decided) THEN Refused ELSE pass[Len(units)]

WithConsequences(s, C, N) ==
    FoldSet(LAMBDA c, acc : IF None \in acc THEN acc ELSE WithConsequence(s, acc, c), C, N)

WithLinks(s, L, N) ==
    FoldSet(LAMBDA l, acc : IF None \in acc THEN acc ELSE WithLink(s, acc, l), L, N)

(* Everything import_memory_pack() checks of a pack by itself.                *)
PackIsValid(p) ==
    /\ JournalIsValid(p.consequences, p.links, p.decided)
    /\ CompleteIsValid(p.direct, p.decided)

-----------------------------------------------------------------------------
(* The operations. All of them hold the guard of the relationship.            *)

Init ==
    /\ \E own \in {Other, None} : profile = [s \in Stores |-> IF s = Home THEN Relationship ELSE own]
    /\ direct = [s \in Stores |-> <<>>]
    /\ decided = [s \in Stores |-> <<>>]
    /\ consequences = [s \in Stores |-> {}]
    /\ links = [s \in Stores |-> {}]
    /\ offered \in Offers
    /\ writes = 0 /\ imports = 0

Write == writes < offered.writes /\ writes' = writes + 1 /\ UNCHANGED <<profile, offered, imports>>

Named(s, n) == IF n = None THEN {None} ELSE {e.id : e \in {x \in Range(History(s)) : x.spec.name = n}}

Made(s, spec, on, next, refers) ==
    [id |-> <<profile[s], spec.name>>, on |-> on, next |-> next, refers |-> refers,
     at |-> spec.at, spec |-> spec]

(* record_relationship_event(), record_promise(), confirm_promise_condition(),*)
(* resolve_promise(), record_open_loop(), resolve_open_loop()                 *)
Record(s, spec) ==
    /\ Write /\ profile[s] # None /\ "direct" \in spec.journals
    /\ \E on \in Named(s, spec.on), next \in Named(s, spec.next) :
       \E e \in {Made(s, spec, on, next, {})} :
          /\ MayAppend(History(s), e)
          /\ \E j \in {WithDirect([ok |-> TRUE, direct |-> direct[s], decided |-> decided[s]], e)} :
                /\ j.ok /\ j.direct # direct[s]
                /\ direct' = [direct EXCEPT ![s] = j.direct]
    /\ UNCHANGED <<decided, consequences, links>>

(* One candidate adjudicated; an accepted one carries its event. An occurrence*)
(* that was accepted before is corroborated only.                             *)
Occurred(s, o) == o # None /\ \E d \in Range(decided[s]) : d.event # None /\ d.event.spec.occurrence = o

Decide(s, spec, accepted) ==
    /\ Write /\ profile[s] # None /\ spec.journals \ {"direct"} # {}
    /\ \E on \in Named(s, spec.on), next \in Named(s, spec.next),
           from \in spec.journals \ {"direct"} :
       \E e \in {Made(s, spec, on, next, UNION {Named(s, n) : n \in spec.refers})} :
       \E d \in {[rel |-> profile[s], key |-> spec.name, by |-> s, from |-> from,
                   event |-> IF accepted /\ ~Occurred(s, spec.occurrence) THEN e ELSE None]} :
       \E j \in {WithDecision([ok |-> TRUE, direct |-> direct[s], decided |-> decided[s]], d)} :
          /\ j.ok /\ j.decided # decided[s]
          /\ decided' = [decided EXCEPT ![s] = j.decided]
    /\ UNCHANGED <<direct, consequences, links>>

(* record_relationship_consequence(), append_relationship_consequence()       *)
RecordConsequence(s, spec) ==
    /\ Write
    /\ \E event \in Named(s, spec.event) :
       \E c \in {[id |-> spec.name, tension |-> spec.tension, event |-> event, at |-> spec.at]} :
          /\ JournalIsValid(consequences[s] \cup {c}, links[s], decided[s])
          /\ WithConsequence(s, consequences[s], c) \notin {{None}, consequences[s]}
          /\ consequences' = [consequences EXCEPT ![s] = WithConsequence(s, @, c)]
    /\ UNCHANGED <<direct, decided, links>>

(* record_narrative_tension_link(), append_narrative_tension_link()           *)
RecordLink(s, spec, c) ==
    /\ Write
    /\ c \in consequences[s]
    /\ \E event \in Named(s, spec.event), at \in spec.times :
       \E l \in {[id |-> spec.name, on |-> c.id, tension |-> c.tension, event |-> event,
                   at |-> at, spec |-> spec]} :
          /\ JournalIsValid(consequences[s], links[s] \cup {l}, decided[s])
          /\ WithLink(s, links[s], l) \notin {{None}, links[s]}
          /\ links' = [links EXCEPT ![s] = WithLink(s, @, l)]
    /\ UNCHANGED <<direct, decided, consequences>>

(* export_memory_pack() there, import_memory_pack() here: all journals change  *)
(* or none. A pack that lies around is a store that has not gone on yet.      *)
Import(s, from) ==
    /\ imports < MaxImports /\ imports' = imports + 1
    /\ profile[from] # None
    /\ \E pack \in {Snapshot(from)} :
       /\ PackIsValid(pack)
       /\ profile[s] \notin {None, pack.rel} => ~Bound(pack)
       /\ profile[s] = pack.rel => NoConflict(s, pack) /\ ContinuesJournals(s, pack)
       /\ \E rel \in {IF profile[s] = None THEN pack.rel ELSE profile[s]} :
          \E p \in {Planned(pack, rel)} :
          \E j \in {Merged(direct[s], decided[s], p)},
             C \in {WithConsequences(s, consequences[s], p.consequences)},
             L \in {WithLinks(s, links[s], p.links)} :
                /\ rel # pack.rel => CompleteIsValid(p.direct, p.decided)
                /\ j.ok /\ None \notin C \cup L
                /\ profile' = [profile EXCEPT ![s] = rel]
                /\ direct' = [direct EXCEPT ![s] = j.direct]
                /\ decided' = [decided EXCEPT ![s] = j.decided]
                /\ consequences' = [consequences EXCEPT ![s] = C]
                /\ links' = [links EXCEPT ![s] = L]
    /\ UNCHANGED <<offered, writes>>

Next ==
    \E s \in Stores :
        \/ \E spec \in offered.events : \/ Record(s, spec)
                                      \/ \E accepted \in spec.verdicts : Decide(s, spec, accepted)
        \/ \E spec \in offered.consequences : RecordConsequence(s, spec)
        \/ \E spec \in offered.links : \E c \in consequences[s] : RecordLink(s, spec, c)
        \/ \E from \in Stores : Import(s, from)

Spec == Init /\ [][Next]_vars

-----------------------------------------------------------------------------
(* RecallSignalDeriver.derive(): the open matters a recall is reminded of.    *)

\* Faulty: only an open loop keeps the memory it came from quiet.
QuietWhileOpen(h) == {e.spec.origin : e \in {x \in Range(h) : /\ x.spec.kind = "loop"
                                                            /\ Resolutions(h, x.id) = {}}}

Quiet(h) == {e.spec.origin : e \in {x \in Range(h) : x.spec.kind = "loop"}}

Pending(h, e, time) ==
    /\ Resolutions(h, e.id) = {}
    /\ \/ e.spec.kind = "loop"
       \/ /\ e.spec.kind = "promise"
          /\ e.spec.condition => Confirmations(h, e.id) # {}
          /\ IF e.spec.due = 0 THEN e.spec.condition ELSE e.spec.due <= time

Signals(h, time) ==
    {e.id : e \in {x \in Range(h) : Pending(h, x, time)}} \cup (offered.nodes \ Quiet(h))

-----------------------------------------------------------------------------
(* Properties.                                                                *)

TypeOK ==
    /\ profile \in [Stores -> {Relationship, Other, None}]
    /\ \A s \in Stores : /\ IsFiniteSet(consequences[s]) /\ None \notin consequences[s] \cup links[s]
                        /\ Cardinality(Ids(direct[s])) = Len(direct[s])
    /\ writes \in 0 .. offered.writes /\ imports \in 0 .. MaxImports

(* A relationship can always leave: its export is accepted by an empty store  *)
(* of the same kind, which then has the same journals and the same tensions.  *)
(* So whatever was appended one by one, to either journal and through merges, *)
(* is accepted when it is validated as a whole without its merged order.      *)
Travels ==
    \A s \in Stores : profile[s] # None =>
        \E p \in {Snapshot(s)} :
            /\ PackIsValid(p)
            /\ Merged(<<>>, <<>>, p) = [ok |-> TRUE, direct |-> direct[s], decided |-> decided[s]]
            /\ WithConsequences(s, {}, p.consequences) = consequences[s]
            /\ WithLinks(s, {}, p.links) = links[s]

(* Superseding never loses a matter: the chain of successors ends at one that *)
(* is still open or was resolved for good.                                    *)
SupersededIsCarried ==
    \A s \in Stores : \E h \in {History(s)} : \A e \in Range(h) :
        e.next # None => \E id \in Leads(h, e.on) : \A f \in Resolutions(h, id) : f.next = None

(* Nothing that was said to matter gets lost, however long the journals grow: *)
(* neither by superseding it nor by leaving with the relationship             *)
(* (core/temporal_history.py:256-640).                                        *)
MattersAreKept == Travels /\ SupersededIsCarried

(* get_relationship_consolidation(): whichever way identities happen to sort, *)
(* two events are told together exactly when a chain of explicit links leads  *)
(* from one to the other, two episodes when their events refer to each other  *)
(* along a chain of episodes, every other event is listed as unconsolidated,  *)
(* and no history is refused (ADR 0090, core/consolidation.py:26-216).        *)
Threads(h) == {<<e.id, e.on>> : e \in {x \in Range(h) : x.spec.kind \in {"resolved", "confirmed"}}}

Retold(h) == {<<e.id, f.id>> : <<e, f>> \in {x \in Range(h) \X Range(h) :
                  x[1].spec.occurrence # None /\ x[1].spec.occurrence = x[2].spec.occurrence}}

Referring(h, groups) == {z \in groups \X groups : \E e \in Range(h) : e.id \in z[1] /\ e.refers \cap z[2] # {}}

(* The groups are what the links connect, and nothing else.                   *)
Connect(links_, groups) ==
    /\ \A z \in links_ : z[1] # z[2] => \E g \in groups : {z[1], z[2]} \subseteq g
    /\ \A g \in groups : /\ Cardinality(g) >= 2
                         /\ \A f \in groups \ {g} : f \cap g = {}
                         /\ \A part \in SUBSET g \ {{}, g} :
                               \E z \in links_ : {z[1], z[2]} \subseteq g /\ (z[1] \in part) # (z[2] \in part)

NarrativeIsGrounded ==
    \A s \in Stores : \E h \in {History(s)} :
    \A sense \in {1, -1} :
    \E n \in {Consolidated([id \in Ids(h) |-> sense * SelectInSeq(h, LAMBDA e : e.id = id)], h, None)} :
        /\ Answers(n)
        /\ Connect(Threads(h) \cup Retold(h), n.episodes)
        /\ Connect(Referring(h, n.episodes), n.chapters)
        /\ Range(n.covered) = UNION n.episodes
        /\ Range(n.unconsolidated) = Ids(h) \ UNION n.episodes

(* What was resolved is never brought up again, neither itself nor the memory *)
(* it was made a formal matter of.                                            *)
SettledIsSilent ==
    \A s \in Stores : \E h \in {History(s)} : \A e, f \in Range(h) : f.spec.kind = "resolved" /\ f.on = e.id =>
        \A time \in 0 .. 2 : {e.id, e.spec.origin} \cap Signals(h, time) = {}

(* The journals of tensions can always be projected: reading them never       *)
(* raises.                                                                    *)
TensionsProject == \A s \in Stores : Projects(consequences[s], links[s])

(* A tension that was settled is not reopened, by a later link, one recorded  *)
(* earlier, or a merge.                                                       *)
TensionsStaySettled ==
    [][\A s \in Stores : \A c \in consequences[s] :
        Outcome(c.id, links[s]) \in Terminal => Outcome(c.id, links'[s]) \in Terminal]_vars

(* What was settled neither comes up again nor is undone.                     *)
SettledStaysSettled == []SettledIsSilent /\ TensionsStaySettled
=============================================================================
