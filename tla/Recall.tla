------------------------------- MODULE Recall -------------------------------
(* One structured recall (core/recall.py) over a store that others write to: *)
(* its reads, none of them under a lock, the classification of what was read *)
(* by the authority behind it, the choice among memories, the budget, and    *)
(* the reinforcement that writes the list of memories back.                  *)
(*                                                                           *)
(* An artifact is [kind, schema, complete, turn, archival, agent, intact,    *)
(* type, public, about, text, cost]: agent says that it cites the Agent's    *)
(* words, intact that its payload is the one that was committed, about that  *)
(* the query has words in common with it.  Costs are small numbers; a Persona*)
(* item and the source span that anchors it count as one.                    *)
EXTENDS PersonaGraph, SequencesExt

CONSTANTS Scenarios,      \* what recalls begin from: sets of candidates, premises,
                          \*   deliveries, queries, requests and worlds
          None

VARIABLES artifacts,      \* the attributes of every artifact there can be
          order,          \* a sequence: all artifacts by rank for the query
          request,        \* [audience, topk, pertype, budget, reinforce, compat]
          store,          \* [approved, consequences, links, turns, ledger, present, steps]
          recall          \* [at, ...]: what the recall has read so far

rvars == <<artifacts, order, request, store, recall>>

Fixed == UNCHANGED <<artifacts, order, request>>
Planner == UNCHANGED gvars

ArtifactIds == DOMAIN artifacts
Of(b) == {a \in ArtifactIds : artifacts[a].archival = b}

-----------------------------------------------------------------------------
(* Others: a Turn ends, its archival publishes, an operator compacts, a host *)
(* saves a memory of its own, a consequence is recorded with its first link, *)
(* a reviewer revokes the Manifest.                                          *)
CompleteTurn ==
    /\ \E t \in DOMAIN store.turns :
         /\ store.turns[t].status = "open"
         /\ store' = [store EXCEPT !.turns[t].status = "completed", !.steps = @ - 1]
    /\ UNCHANGED recall

Exceptional(turns, t) == turns[t].delivery = "exceptional"

(* The kernel binds citations itself and refuses the Agent's words of a reply*)
(* that was shown without review.                                            *)
WellFormed(a) ==
    LET art == artifacts[a]
    IN  /\ art.schema = "2" /\ art.complete /\ art.intact
        /\ art.turn # None
        /\ ~(art.agent /\ Exceptional(store.turns, art.turn))

Publish ==
    /\ \E b \in DOMAIN store.ledger :
         /\ store.ledger[b] = "none"
         /\ \A a \in Of(b) : /\ WellFormed(a)
                             /\ store.turns[artifacts[a].turn].status = "completed"
         /\ store' = [store EXCEPT !.ledger[b] = "record", !.present = @ \cup Of(b),
                                   !.steps = @ - 1]
    /\ UNCHANGED recall

Compact ==
    /\ \E b \in DOMAIN store.ledger :
         /\ store.ledger[b] = "record"
         /\ store' = [store EXCEPT !.ledger[b] = "tombstone", !.steps = @ - 1]
    /\ UNCHANGED recall

SaveOwn ==
    /\ \E a \in ArtifactIds \ store.present :
         /\ artifacts[a].archival = None
         /\ artifacts[a].kind = "node"
         /\ store' = [store EXCEPT !.present = @ \cup {a}, !.steps = @ - 1]
    /\ UNCHANGED recall

Consequence ==
    /\ store.consequences = {}
    /\ store' = [store EXCEPT !.consequences = {"broken"}, !.links = {"broken"}, !.steps = @ - 1]
    /\ UNCHANGED recall

Revoke ==
    /\ store.approved
    /\ store' = [store EXCEPT !.approved = FALSE, !.steps = @ - 1]
    /\ UNCHANGED recall

(* The planner reads no storage, so others need not move while it works;     *)
(* steps bounds what they do.                                                *)
Others ==
    /\ recall.at \notin {"plan", "answered", "refused"}
    /\ store.steps > 0
    /\ CompleteTurn \/ Publish \/ Compact \/ SaveOwn \/ Consequence \/ Revoke

-----------------------------------------------------------------------------
Private == request.audience = "private"

Refuse(why) == recall' = [recall EXCEPT !.at = "refused", !.why = why]
Goto(at) == recall' = [recall EXCEPT !.at = at]

(* active_persona_manifest: the pinned one while its approval stands.        *)
ReadManifest ==
    /\ recall.at = "manifest"
    /\ recall' = [recall EXCEPT !.manifest = store.approved, !.at = "consequences"]
    /\ UNCHANGED store

ReadConsequences ==
    /\ recall.at = "consequences"
    /\ recall' = [recall EXCEPT !.consequences = IF Private THEN store.consequences ELSE {},
                                !.at = IF Private THEN "links" ELSE "nodes"]
    /\ UNCHANGED store

(* _project_narrative_tensions: the projector knows no link of a consequence *)
(* that it was not given.                                                    *)
ReadLinks ==
    /\ recall.at = "links"
    /\ IF store.links \subseteq recall.consequences
       THEN Goto(IF request.compat THEN "nodes" ELSE "plan")
       ELSE Refuse("link without consequence")
    /\ UNCHANGED store

(* PersonaContextPlanner.plan: full delivery without a Manifest is the whole *)
(* Blueprint, one foundation item.                                           *)
PlanPersona ==
    /\ recall.at = "plan"
    /\ IF recall.manifest
       THEN /\ plan.at \notin {"planned", "unbound"}
            /\ GraphNext
            /\ UNCHANGED recall
       ELSE /\ IF delivery = "planned" THEN Refuse("manifest required") ELSE Goto("nodes")
            /\ Planner
    /\ UNCHANGED store

PersonaPlanned ==
    /\ recall.at = "plan"
    /\ recall.manifest
    /\ plan.at \in {"planned", "unbound"}
    /\ IF plan.at = "unbound" THEN Refuse("premise not bound") ELSE Goto("nodes")
    /\ UNCHANGED store

Shown(a) == artifacts[a].kind = "node" /\ (Private \/ artifacts[a].public)

ReadNodes ==
    /\ recall.at = "nodes"
    /\ recall' = [recall EXCEPT !.nodes = {a \in store.present : artifacts[a].kind = "node"},
                                !.at = IF Private THEN "timeline" ELSE "turns"]
    /\ UNCHANGED store

ReadTimeline ==
    /\ recall.at = "timeline"
    /\ recall' = [recall EXCEPT
                    !.timeline = {a \in store.present : artifacts[a].kind = "timeline"},
                    !.at = "turns"]
    /\ UNCHANGED store

(* _load_artifact_provenance_indexes: the Turns first, then the two halves of*)
(* the archival ledger.                                                      *)
ReadTurns ==
    /\ recall.at = "turns"
    /\ recall' = [recall EXCEPT !.turns = store.turns, !.at = "ledger"]
    /\ UNCHANGED store

\* Faulty: the tombstones first.
TombstonesFirst == <<"tombstone", "record">>

LedgerReads == <<"record", "tombstone">>

(* A receipt that was read is not replaced by the tombstone read after it.   *)
ReadLedger ==
    /\ recall.at = "ledger"
    /\ LET half == LedgerReads[recall.reads + 1]
       IN  recall' = [recall EXCEPT
             !.receipts = [b \in DOMAIN @ |-> IF @[b] = "none" /\ store.ledger[b] = half
                                              THEN half ELSE @[b]],
             !.reads = @ + 1,
             !.at = IF recall.reads + 1 = Len(LedgerReads) THEN "core" ELSE "ledger"]
    /\ UNCHANGED store

ReadCore ==
    /\ recall.at = "core"
    /\ recall' = [recall EXCEPT
         !.core = IF Private THEN {a \in store.present : artifacts[a].kind = "core"} ELSE {},
         !.at = "select"]
    /\ UNCHANGED store

-----------------------------------------------------------------------------
(* _artifact_source_references: the receipt names the artifact and committed *)
(* to its payload; a tombstone carries that commitment on.                   *)
Certifies(a) == recall.receipts[artifacts[a].archival] = "record" /\ artifacts[a].intact

Supports(a) == recall.receipts[artifacts[a].archival] = "tombstone" /\ artifacts[a].intact

Certified(a) ==
    LET art == artifacts[a]
    IN  /\ art.turn # None /\ art.archival # None
        /\ recall.turns[art.turn].status = "completed"
        /\ Certifies(a) \/ Supports(a)

(* RecallAuthorityClassifier.classify.                                       *)
Tier(a) ==
    LET art == artifacts[a]
        completed == art.turn # None /\ recall.turns[art.turn].status = "completed"
        exceptional == completed /\ Exceptional(recall.turns, art.turn)
    IN  CASE art.kind = "core" -> "legacy"
          [] art.kind # "core" /\ art.schema # "2" -> IF exceptional THEN "quarantined" ELSE "legacy"
          [] OTHER -> IF /\ art.complete
                         /\ Certified(a)
                         /\ ~(exceptional /\ art.agent)
                      THEN "ordinary" ELSE "quarantined"

Ranked ==
    LET of(ids) == SelectSeq(order, LAMBDA a : a \in ids)
    IN  of({a \in recall.nodes : Shown(a)}) \o (IF request.compat THEN <<>> ELSE of(recall.core))
          \o of(recall.timeline)

(* _apply_diversity_cap, starting from a choice: core memory always fits.    *)
Fits(a, chosen) ==
    \/ artifacts[a].type = "core"
    \/ Cardinality({i \in DOMAIN chosen : artifacts[chosen[i]].type = artifacts[a].type})
         < request.pertype

Capped(chosen, seq, most) ==
    FoldLeft(LAMBDA sel, a : IF Len(sel) < most /\ Fits(a, sel) THEN Append(sel, a) ELSE sel,
             chosen, seq)

First(seq, n) == SubSeq(seq, 1, IF n < Len(seq) THEN n ELSE Len(seq))

\* Faulty: legacy memories are no different.
SelectAlike ==
    [items |-> Capped(<<>>, SelectSeq(Ranked, LAMBDA a : Tier(a) # "quarantined"), request.topk),
     reserved |-> None, displaced |-> None]

(* RecallAuthoritySelector.select: ordinary memories first; where they fill  *)
(* every place, one legacy memory may take the last of several.              *)
SelectMemories ==
    LET tiered(t) == SelectSeq(Ranked, LAMBDA a : Tier(a) = t)
        all == tiered("ordinary")
        ordinary == Capped(<<>>, all, Len(all))
        legacy == SelectSeq(tiered("legacy"),
                      LAMBDA a : \A i \in DOMAIN all : artifacts[all[i]].text # artifacts[a].text)
        kept == First(ordinary, request.topk - 1)
        reserved == SelectSeq(legacy, LAMBDA a : artifacts[a].about /\ Fits(a, kept))
    IN  CASE Private /\ Len(ordinary) < request.topk ->
               [items |-> Capped(ordinary, legacy, request.topk),
                reserved |-> None, displaced |-> None]
          [] Private /\ Len(ordinary) >= request.topk /\ request.topk > 1 /\ reserved # <<>> ->
               [items |-> Append(kept, Head(reserved)),
                reserved |-> Head(reserved), displaced |-> ordinary[request.topk]]
          [] OTHER -> [items |-> First(ordinary, request.topk),
                            reserved |-> None, displaced |-> None]

(* recall() has always put core memory before everything else.               *)
Chosen ==
    LET selection == SelectMemories
        new == {a \in recall.core : \A i \in DOMAIN selection.items :
                    artifacts[selection.items[i]].text # artifacts[a].text}
    IN  IF request.compat THEN [selection EXCEPT !.items = SetToSeq(new) \o @] ELSE selection

-----------------------------------------------------------------------------
(* _apply_budget.  What is required goes first and whole; then each item, by *)
(* priority and place, if it still fits; a reserved legacy memory that does  *)
(* not is replaced by the ordinary one it displaced, if that fits.           *)
PersonaItems == IF recall.manifest /\ plan.at = "planned" /\ Private THEN plan.selected ELSE {}

RequiredCost ==
    IF Private /\ ~request.compat /\ ~recall.manifest THEN 1     \* the whole Blueprint
    ELSE IF PersonaItems = {} THEN 0 ELSE Cardinality(plan.required)

Optional == [i \in 1..Cardinality(PersonaItems \ plan.required) |-> "persona"]

Open == SetToSeq(recall.consequences)

Cost(x) == IF x \in ArtifactIds THEN artifacts[x].cost ELSE 1

\* Faulty: the fallback is not weighed.
TakeAnyway(spent, x, choice) ==
    IF spent.cost + Cost(x) <= request.budget
    THEN [spent EXCEPT !.cost = @ + Cost(x), !.items = Append(@, x)]
    ELSE IF x # choice.reserved
    THEN [spent EXCEPT !.omitted = Append(@, x)]
    ELSE [spent EXCEPT !.omitted = Append(@, x), !.cost = @ + Cost(choice.displaced),
                       !.items = Append(@, choice.displaced)]

Take(spent, x, choice) ==
    IF spent.cost + Cost(x) <= request.budget
    THEN [spent EXCEPT !.cost = @ + Cost(x), !.items = Append(@, x)]
    ELSE IF x # choice.reserved
    THEN [spent EXCEPT !.omitted = Append(@, x)]
    ELSE IF spent.cost + Cost(choice.displaced) <= request.budget
    THEN [spent EXCEPT !.omitted = Append(@, x), !.cost = @ + Cost(choice.displaced),
                       !.items = Append(@, choice.displaced)]
    ELSE [spent EXCEPT !.omitted = @ \o <<x, choice.displaced>>]

Assemble ==
    /\ recall.at = "select"
    /\ IF RequiredCost > request.budget THEN Refuse("budget")
       ELSE LET choice == Chosen
                spent == FoldLeft(LAMBDA s, x : Take(s, x, choice),
                                  [cost |-> RequiredCost, items |-> <<>>, omitted |-> <<>>],
                                  Open \o Optional \o choice.items)
            IN  recall' = [recall EXCEPT !.at = IF request.reinforce THEN "save" ELSE "answered",
                                         !.choice = choice, !.spent = spent]
    /\ UNCHANGED store

Delivered == Range(recall.spent.items) \cap ArtifactIds
Reinforced == {a \in Delivered : artifacts[a].kind = "node" /\ Tier(a) = "ordinary"}

(* The list that was read is written back: what an archival published since  *)
(* stays, what a host saved itself does not.                                 *)
Reinforce ==
    /\ recall.at = "save"
    /\ store' = IF Reinforced = {} THEN store
                ELSE [store EXCEPT !.present =
                        {a \in @ : \/ artifacts[a].kind # "node"
                                   \/ artifacts[a].archival # None} \cup recall.nodes]
    /\ Goto("answered")

Read == \/ ReadManifest \/ ReadConsequences \/ ReadLinks \/ PersonaPlanned \/ ReadNodes
        \/ ReadTimeline \/ ReadTurns \/ ReadLedger \/ ReadCore \/ Assemble \/ Reinforce

RecallInit ==
    \E s \in Scenarios :
    /\ GraphInit(s.candidates)
    /\ premise \in s.premises
    /\ delivery \in s.deliveries
    /\ query \in s.queries
    /\ request \in s.requests
    /\ \E w \in s.worlds :
         /\ artifacts = w.artifacts
         /\ order = w.order
         /\ store = [approved |-> TRUE, consequences |-> {}, links |-> {}, turns |-> w.turns,
                     ledger |-> w.ledger, present |-> w.present,
                     steps |-> w.steps]
         /\ recall = [at |-> "manifest", why |-> None, manifest |-> FALSE, consequences |-> {},
                      nodes |-> {}, timeline |-> {}, turns |-> w.turns, core |-> {},
                      receipts |-> [b \in DOMAIN w.ledger |-> "none"], reads |-> 0,
                      choice |-> [items |-> <<>>, reserved |-> None, displaced |-> None],
                      spent |-> [cost |-> 0, items |-> <<>>, omitted |-> <<>>]]

Done == recall.at \in {"answered", "refused"} /\ UNCHANGED <<gvars, rvars>>

RecallNext ==
    \/ PlanPersona /\ Fixed
    \/ Read /\ Fixed /\ Planner
    \/ Others /\ Fixed /\ Planner
    \/ Done

Spec == RecallInit /\ [][RecallNext]_<<gvars, rvars>>

-----------------------------------------------------------------------------
Assembled == recall.at \in {"save", "answered"}

(* The plan, the choice and what was read fit together.                      *)
TypeOK ==
    /\ plan.selected \subseteq Entities(graph) /\ plan.required \subseteq Entities(graph)
    /\ plan.at = "planned" => plan.required \subseteq plan.selected
    /\ store.present \subseteq ArtifactIds
    /\ recall.nodes \cup recall.timeline \cup recall.core \subseteq ArtifactIds
    /\ Range(order) = ArtifactIds

(* What an archival published is evidence for good: a recall that meets it   *)
(* never takes it for unproven, also while its receipt is being compacted to *)
(* a tombstone between the recall's reads.  recall.py:1292-1315.             *)
PublishedIsOrdinary ==
    Assembled => \A a \in recall.nodes \cup recall.timeline :
        /\ artifacts[a].archival # None
        /\ store.ledger[artifacts[a].archival] # "none"
        /\ WellFormed(a)
        => Tier(a) = "ordinary"

(* The cost that is reported is that of what is delivered, within the budget;*)
(* everything required is in it, and every item that was chosen is delivered *)
(* or reported as omitted.  recall.py:983-1031.                              *)
BudgetIsExact ==
    Assembled =>
        LET spent == recall.spent
            cost(seq) == FoldLeft(LAMBDA n, x : n + Cost(x), 0, seq)
        IN  /\ spent.cost = RequiredCost + cost(spent.items)
            /\ spent.cost <= request.budget
            /\ Range(recall.choice.items) \subseteq Range(spent.items) \cup Range(spent.omitted)

(* ADR 0114: legacy memories never take the only place nor more than one of  *)
(* those that ordinary ones fill, never stand beside an ordinary copy, and   *)
(* displace an ordinary memory only where they are delivered themselves.     *)
Ordinaries == {a \in Range(Ranked) : Tier(a) = "ordinary"}

LegacyYields ==
    Assembled =>
        LET given == Delivered \ (IF request.compat THEN recall.core ELSE {})
            legacy == {a \in given : Tier(a) = "legacy"}
            fill == Len(Capped(<<>>, SelectSeq(Ranked, LAMBDA a : a \in Ordinaries),
                               request.topk)) = request.topk
        IN  /\ \A a \in Delivered : Tier(a) # "quarantined"
            /\ Cardinality(given) <= request.topk
            /\ ~Private => legacy = {}
            /\ fill => Cardinality(legacy) <= IF request.topk = 1 THEN 0 ELSE 1
            /\ \A a \in legacy, o \in Ordinaries : artifacts[a].text # artifacts[o].text
            /\ recall.choice.displaced # None /\ legacy = {} =>
                   recall.choice.displaced \in given \cup Range(recall.spent.omitted)

(* What is proven is taken for proven, and what is not stays behind it.      *)
TiersAreRespected == PublishedIsOrdinary /\ LegacyYields
=============================================================================
