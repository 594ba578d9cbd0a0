---------------------------- MODULE PersonaGraph ----------------------------
(* The Persona graph of an approved Manifest and what of it one recall of    *)
(* one relationship delivers: the validation of a candidate, the binding of  *)
(* a canonical premise, the entities that the relationship may see, and the  *)
(* two dependency closures that core/persona_context.py computes.            *)
(*                                                                           *)
(* A graph has the claims [kind, tier, applicable, scope, deps], experiences *)
(* [tier, scope], links [from, relation, to, scope], capsules [claim,        *)
(* experiences, links], templates [experiences, terms] and voice patterns    *)
(* [scope, claims, experiences, templates, conditions], each a function from *)
(* identifiers.  The terms of a template stand for its role, address name    *)
(* and baseline; text, tags and source spans are left out.                   *)
EXTENDS Naturals, FiniteSets

VARIABLES graph,          \* the candidate that was approved
          premise,        \* [mode, template, terms, experiences] of the relationship
          delivery,       \* "planned" or "full": what the request asks for ...
          query,          \* ... and the entities that its words touch
          plan            \* [at, eligible, selected, required, pending]: the planner's sets

gvars == <<graph, premise, delivery, query, plan>>

Grounded == {"self_concept", "value", "desire", "fear", "need", "tendency"}
Grounding == {"supports", "explains", "expresses", "shapes_attachment"}

ClaimIds(g) == DOMAIN g.claims
ExperienceIds(g) == DOMAIN g.experiences
LinkIds(g) == DOMAIN g.links
CapsuleIds(g) == DOMAIN g.capsules
TemplateIds(g) == DOMAIN g.templates
Entities(g) == ClaimIds(g) \cup ExperienceIds(g) \cup LinkIds(g) \cup CapsuleIds(g)
                 \cup TemplateIds(g)

Ends(g, l) == {g.links[l].from, g.links[l].to}
CapsulesOf(g, c) == {k \in CapsuleIds(g) : g.capsules[k].claim = c}

-----------------------------------------------------------------------------
(* What an entity needs (dependency_children of the validator) ...           *)
Needs(g, e) ==
    CASE e \in ClaimIds(g)    -> g.claims[e].deps
      [] e \in CapsuleIds(g)  -> {g.capsules[e].claim} \cup g.capsules[e].experiences
                                   \cup g.capsules[e].links
      [] e \in LinkIds(g)     -> Ends(g, e)
      [] e \in TemplateIds(g) -> g.templates[e].experiences
      [] OTHER                -> {}

(* ... and what the planner adds for it: a claim brings its capsules too.    *)
Brings(g, e) ==
    Needs(g, e) \cup (IF e \in ClaimIds(g) THEN CapsulesOf(g, e) ELSE {})

(* Everything that needs reach in any number of steps.                       *)
Reached(g, roots) ==
    LET grow[n \in 0..Cardinality(Entities(g))] ==
            IF n = 0 THEN roots
            ELSE LET before == grow[n - 1]
                 IN  before \cup UNION {Needs(g, e) : e \in before}
    IN  grow[Cardinality(Entities(g))]

ValidClaim(g, c) ==
    LET claim == g.claims[c]
    IN  /\ claim.deps \subseteq Entities(g) \ {c}
        /\ claim.applicable <=> claim.kind # "host_directive"

ValidLink(g, l) ==
    LET link == g.links[l]
    IN  /\ link.from # link.to
        /\ link.relation \in Grounding
             => link.from \in ExperienceIds(g) /\ link.to \in ClaimIds(g)
        /\ link.relation = "tensions_with"
             => /\ Ends(g, l) \subseteq ClaimIds(g)
                /\ \A m \in LinkIds(g) \ {l} :
                     g.links[m].relation = "tensions_with" => Ends(g, m) # Ends(g, l)
        /\ link.relation = "relationship_specific"
             => /\ link.from \in ClaimIds(g) \cup ExperienceIds(g)
                /\ link.to \in TemplateIds(g)

ValidCapsule(g, k) ==
    LET capsule == g.capsules[k]
    IN  /\ capsule.claim \in ClaimIds(g)
        /\ capsule.experiences \in SUBSET ExperienceIds(g) \ {{}}
        /\ capsule.links \in SUBSET LinkIds(g) \ {{}}
        /\ \A l \in capsule.links : /\ g.links[l].to = capsule.claim
                                    /\ g.links[l].from \in capsule.experiences

ValidTemplate(g, t) ==
    /\ g.templates[t].experiences \in SUBSET ExperienceIds(g) \ {{}}
    /\ \A e \in g.templates[t].experiences : g.experiences[e].scope = "canonical"

(* A pattern's own scope, against the scopes of what it depends on.          *)
ValidPattern(g, p) ==
    LET pattern == g.patterns[p]
        scopes == {g.claims[c].scope : c \in pattern.claims}
                    \cup {g.experiences[e].scope : e \in pattern.experiences}
    IN  /\ pattern.claims \in SUBSET ClaimIds(g) \ {{}}
        /\ pattern.experiences \subseteq ExperienceIds(g)
        /\ pattern.templates \subseteq TemplateIds(g)
        /\ \A c \in pattern.claims :
             g.claims[c].kind = "voice" /\ g.claims[c].tier = "situational"
        /\ pattern.scope = "character" => scopes \subseteq {"character"}
        /\ pattern.scope = "tendency" => "canonical" \notin scopes
        /\ pattern.scope = "canonical" => "canonical" \in scopes
        /\ (pattern.scope = "canonical") = (pattern.templates # {})
        /\ pattern.conditions # {}

(* What every turn carries must say why it is so.                            *)
FoundationsHaveCapsules(g) ==
    \A c \in ClaimIds(g) :
        /\ g.claims[c].tier = "foundation"
        /\ g.claims[c].applicable
        /\ g.claims[c].kind \in Grounded
        => CapsulesOf(g, c) # {}

\* Faulty: direct dependencies only.
NoHostAuthorityDirectly(g) ==
    \A c \in ClaimIds(g) : g.claims[c].applicable =>
        \A d \in g.claims[c].deps \cap ClaimIds(g) : g.claims[d].applicable

(* No host directive in the closure of an applicable claim.                  *)
NoHostAuthority(g) ==
    \A c \in ClaimIds(g) : g.claims[c].applicable =>
        \A d \in Reached(g, g.claims[c].deps) \cap ClaimIds(g) : g.claims[d].applicable

(* Claims alone must not depend on themselves; over capsules they may.       *)
Acyclic(g) ==
    LET above[n \in 0..Cardinality(ClaimIds(g))] ==
            [c \in ClaimIds(g) |->
                IF n = 0 THEN g.claims[c].deps \cap ClaimIds(g)
                ELSE LET before == above[n - 1]
                     IN  before[c] \cup UNION {before[d] : d \in before[c]}]
    IN  \A c \in ClaimIds(g) : c \notin above[Cardinality(ClaimIds(g))][c]

(* graph_is_referentially_complete.                                          *)
ValidCandidate(g) ==
    /\ \A c \in ClaimIds(g) : ValidClaim(g, c)
    /\ \A l \in LinkIds(g) : ValidLink(g, l)
    /\ \A k \in CapsuleIds(g) : ValidCapsule(g, k)
    /\ \A t \in TemplateIds(g) : ValidTemplate(g, t)
    /\ \A p \in DOMAIN g.patterns : ValidPattern(g, p)
    /\ FoundationsHaveCapsules(g)
    /\ NoHostAuthority(g)
    /\ Acyclic(g)

(* validate_persona_premise_binding: a canonical premise is an approved      *)
(* template, on its terms and with all of its experiences.                   *)
Bound(g, pr) ==
    pr.mode = "continuation" =>
        /\ pr.template \in TemplateIds(g)
        /\ pr.terms = g.templates[pr.template].terms
        /\ pr.experiences = g.templates[pr.template].experiences

-----------------------------------------------------------------------------
(* _eligible_entity_ids.  What is not canonical is for every relationship;   *)
(* canonical meaning only for one that continues the matching template.      *)
Continued(g, pr) == IF pr.mode = "continuation" THEN {pr.template} \cap TemplateIds(g) ELSE {}

Imported(g, pr) == UNION {pr.experiences \cap g.templates[t].experiences : t \in Continued(g, pr)}

(* Canonical claims tied to the template, or to an imported experience.      *)
Tied(g, pr) ==
    {c \in ClaimIds(g) :
        /\ g.claims[c].scope = "canonical"
        /\ \E l \in LinkIds(g) :
             LET link == g.links[l]
             IN  /\ link.scope = "canonical"
                 /\ \/ /\ link.relation = "relationship_specific"
                       /\ link.from = c
                       /\ link.to \in Continued(g, pr)
                    \/ link.to = c /\ link.from \in Imported(g, pr)}

General(g) == {c \in ClaimIds(g) : g.claims[c].scope # "canonical"}
                \cup {e \in ExperienceIds(g) : g.experiences[e].scope # "canonical"}

OpenLinks(g, pr, nodes) ==
    {l \in LinkIds(g) : /\ Ends(g, l) \subseteq nodes
                        /\ g.links[l].scope = "canonical" => Continued(g, pr) # {}}

\* Faulty: experiences whatever their scope.
SeedExperiences(g, pr) ==
    LET nodes == General(g) \cup ExperienceIds(g) \cup Continued(g, pr) \cup Tied(g, pr)
        seen == nodes \cup OpenLinks(g, pr, nodes)
    IN  seen \cup {k \in CapsuleIds(g) : Needs(g, k) \subseteq seen}

Seed(g, pr) ==
    LET nodes == General(g) \cup Continued(g, pr) \cup Imported(g, pr) \cup Tied(g, pr)
        seen == nodes \cup OpenLinks(g, pr, nodes)
    IN  seen \cup {k \in CapsuleIds(g) : Needs(g, k) \subseteq seen}

\* Faulty: claims and links only.
DanglingParts(g, eligible) ==
    {e \in eligible \ CapsuleIds(g) : ~ Needs(g, e) \subseteq eligible}

\* Faulty: a claim goes when a capsule of it does.
DanglingWholes(g, eligible) == {e \in eligible : ~ Brings(g, e) \subseteq eligible}

(* "Required meaning is atomic": what lost something it needs goes too.      *)
Dangling(g, eligible) == {e \in eligible : ~ Needs(g, e) \subseteq eligible}

-----------------------------------------------------------------------------
(* plan.  Foundation is always carried, the rest when the query is about it. *)
Applies(g, e) == e \in ClaimIds(g) => g.claims[e].applicable

Foundations(g, eligible) ==
    {c \in ClaimIds(g) \cap eligible : g.claims[c].tier = "foundation" /\ g.claims[c].applicable}
      \cup {e \in ExperienceIds(g) \cap eligible : g.experiences[e].tier = "foundation"}

Relevant(g, eligible, q) ==
    {e \in (ClaimIds(g) \cup ExperienceIds(g)) \cap eligible \cap q : Applies(g, e)}

(* Full delivery: everything eligible that no host directive takes part in.  *)
Deliverable(g, eligible) ==
    {e \in eligible :
        /\ Applies(g, e)
        /\ e \in CapsuleIds(g) => Applies(g, g.capsules[e].claim)
        /\ e \in LinkIds(g) => \A x \in Ends(g, e) : Applies(g, x)}

Idle == [at |-> "idle", eligible |-> {}, selected |-> {}, required |-> {}, pending |-> {}]

(* active_persona_manifest, the binding and the seed of the eligible set.    *)
BeginPlan ==
    /\ plan.at = "idle"
    /\ plan' = IF Bound(graph, premise)
               THEN [Idle EXCEPT !.at = "prune", !.eligible = Seed(graph, premise)]
               ELSE [Idle EXCEPT !.at = "unbound"]
    /\ UNCHANGED <<graph, premise, delivery, query>>

Prune ==
    /\ plan.at = "prune"
    /\ \E e \in Dangling(graph, plan.eligible) :
         plan' = [plan EXCEPT !.eligible = @ \ {e}]
    /\ UNCHANGED <<graph, premise, delivery, query>>

Select ==
    /\ plan.at = "prune"
    /\ Dangling(graph, plan.eligible) = {}
    /\ LET required == Foundations(graph, plan.eligible)
           selected == required \cup Relevant(graph, plan.eligible, query)
                         \cup (IF delivery = "full" THEN Deliverable(graph, plan.eligible)
                               ELSE {})
       IN  plan' = [plan EXCEPT !.at = "selected", !.selected = selected, !.pending = selected,
                                !.required = required]
    /\ UNCHANGED <<graph, premise, delivery, query>>

(* _expand_dependency_closure, a pass for each of the two sets: any pending  *)
(* entity is popped.                                                         *)
Added(e, into) == (Brings(graph, e) \cap plan.eligible) \ into

Expand ==
    /\ plan.at \in {"selected", "required"}
    /\ \E e \in plan.pending :
         LET new == Added(e, plan[plan.at])
         IN  plan' = [plan EXCEPT ![plan.at] = @ \cup new,
                                  !.pending = (@ \ {e}) \cup new]
    /\ UNCHANGED <<graph, premise, delivery, query>>

NextClosure ==
    /\ plan.at = "selected"
    /\ plan.pending = {}
    /\ plan' = [plan EXCEPT !.at = "required", !.pending = plan.required]
    /\ UNCHANGED <<graph, premise, delivery, query>>

(* What is required is delivered, on the tier of what every turn carries.    *)
Deliver ==
    /\ plan.at = "required"
    /\ plan.pending = {}
    /\ plan' = [plan EXCEPT !.at = "planned", !.selected = @ \cup plan.required]
    /\ UNCHANGED <<graph, premise, delivery, query>>

(* Of the candidates somebody submits, those that validate can be approved.  *)
GraphInit(candidates) ==
    /\ graph \in {g \in candidates : ValidCandidate(g)}
    /\ plan = Idle

\* Faulty: the premise is not asked for.
CitableGeneral(g, pr, e) ==
    /\ e \in ClaimIds(g) \cup ExperienceIds(g) \cup CapsuleIds(g)
    /\ Applies(g, e)
    /\ e \in ClaimIds(g) => g.claims[e].scope # "canonical"
    /\ e \in ExperienceIds(g) => g.experiences[e].scope # "canonical"

(* continuity_evidence._resolve_manifest_item: what a reply may cite.        *)
Citable(g, pr, e) ==
    /\ e \in ClaimIds(g) \cup ExperienceIds(g) \cup CapsuleIds(g)
    /\ Applies(g, e)
    /\ e \in ClaimIds(g) /\ g.claims[e].scope = "canonical" => pr.mode = "continuation"
    /\ e \in ExperienceIds(g) /\ g.experiences[e].scope = "canonical"
         => pr.mode = "continuation"

GraphNext == BeginPlan \/ Prune \/ Select \/ Expand \/ NextClosure \/ Deliver

-----------------------------------------------------------------------------
Planned == plan.at = "planned"

(* No text that the compiler marked as an instruction to the host reaches the*)
(* actor as character meaning, whatever links and capsules lead to it: the   *)
(* validator's closure and the planner's are different ones.                 *)
(* persona.py:606-641, persona_context.py:596-645.                           *)
NoHostDirective == Planned => \A e \in plan.selected : Applies(graph, e)

(* What is delivered is understandable by itself: with everything it needs,  *)
(* in whatever order the graph was walked; so is the part every turn carries.*)
DeliveryCloses ==
    Planned => \A set \in {plan.selected, plan.required} :
                   \A e \in set : Needs(graph, e) \subseteq set

(* Canonical meaning stays with relationships that continue its template: no *)
(* other experience, and nothing that leads to one.                          *)
Canonical(e) ==
    \/ e \in ExperienceIds(graph) /\ graph.experiences[e].scope = "canonical"
    \/ e \in ClaimIds(graph) /\ graph.claims[e].scope = "canonical"
    \/ e \in LinkIds(graph) /\ graph.links[e].scope = "canonical"
    \/ e \in TemplateIds(graph)

NothingForeign ==
    Planned => \A e \in Reached(graph, plan.selected) : Canonical(e) =>
                   /\ premise.mode = "continuation"
                   /\ e \in ExperienceIds(graph) => e \in premise.experiences
                   /\ e \in TemplateIds(graph) => e = premise.template

(* A foundation claim that involves nothing canonical is for every turn of   *)
(* every relationship, and all it needs with it.  persona_context.py:219-229.*)
FoundationWhole ==
    Planned => \A c \in ClaimIds(graph) :
        /\ graph.claims[c].tier = "foundation"
        /\ Applies(graph, c)
        /\ \A e \in Reached(graph, {c}) : ~Canonical(e)
        => Reached(graph, {c}) \subseteq plan.required

(* The reviewer of a reply finds everything that was delivered to its author *)
(* citable.  continuity_evidence.py:474-528.                                 *)
DeliveredIsCitable ==
    Planned => \A e \in plan.selected :
        e \in ClaimIds(graph) \cup ExperienceIds(graph) \cup CapsuleIds(graph)
            => Citable(graph, premise, e)

(* What reaches the actor stands by itself: whole, of this relationship, no  *)
(* instruction to the host among it, and citable by whoever reviews what the *)
(* actor makes of it.                                                        *)
DeliveryIsWhole == DeliveryCloses /\ NothingForeign /\ FoundationWhole /\ DeliveredIsCitable
                   /\ NoHostDirective

(* "Planned persona delivery grounds Foundation claims with approved,        *)
(* source-anchored Meaning Capsules" (docs/adr/0044, line 3).                *)
FoundationIsGrounded ==
    Planned => \A c \in Foundations(graph, plan.required) \cap ClaimIds(graph) :
        graph.claims[c].kind \in Grounded => CapsulesOf(graph, c) \cap plan.required # {}
=============================================================================
