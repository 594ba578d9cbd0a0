--------------------------- MODULE ContinuityReview ---------------------------
(* The rules of a continuity review (models/continuity.py, core/continuity.py*)
(* and core/continuity_evidence.py): what an evaluator may answer, the       *)
(* verdict its five findings come to, which contextual voices a Turn's       *)
(* signals activate, and which evidence stands.                              *)
(*                                                                           *)
(* A judgement maps each axis to a finding [assessment, severity, reason,    *)
(* basis, conflict, voices]; basis and conflict are ids of evidence, voices  *)
(* are patterns.  A reply quote that is not in the reply is an answer that   *)
(* does not parse.                                                           *)
EXTENDS Integers, FiniteSets, SequencesExt

Axes == {"identity_values", "psychological_causality", "relationship_scope",
         "knowledge_memory_scope", "voice_style"}

HardConflicts == {"relationship_crossover", "inherited_intimacy", "unavailable_knowledge"}

ReasonAxes(reason) ==
    CASE reason \in {"supported_contextual_voice", "voice_style_deviation"} -> {"voice_style"}
      [] reason \in {"value_tension", "unsupported_identity_change"} -> {"identity_values"}
      [] reason \in {"causal_tension", "unsupported_causal_change"} -> {"psychological_causality"}
      [] reason \in {"relationship_crossover", "inherited_intimacy"} -> {"relationship_scope"}
      [] reason = "unavailable_knowledge" -> {"knowledge_memory_scope"}
      [] OTHER -> Axes

ValidFinding(axis, f) ==
    /\ f.basis \cup f.conflict # {}
    /\ f.assessment \in {"review", "unsupported"} => f.conflict # {}
    /\ axis \in ReasonAxes(f.reason)
    /\ f.reason = "voice_style_deviation" => f.severity = "advisory"
    /\ f.reason \in HardConflicts => f.severity = "critical"
    /\ f.voices # {} <=> f.reason = "supported_contextual_voice"

ValidJudgement(d) == DOMAIN d = Axes /\ \A axis \in Axes : ValidFinding(axis, d[axis])

Cited(d) == UNION {d[axis].basis \cup d[axis].conflict : axis \in DOMAIN d}
Voices(d) == UNION {d[axis].voices : axis \in DOMAIN d}

\* Faulty: a supported choice outweighs what is left to review.
AggregateKindly(d) ==
    LET others == {d[axis] : axis \in Axes \ {"voice_style"}}
    IN  IF \E f \in others : f.reason \in HardConflicts \/ f.assessment = "unsupported"
        THEN "unsupported_drift"
        ELSE IF \E f \in others : f.assessment = "supported" THEN "supported_new_choice"
        ELSE IF \E f \in others : f.assessment = "review" THEN "review_required"
        ELSE "aligned"

(* The voice advises and never decides.                                      *)
Aggregate(d) ==
    LET others == {d[axis] : axis \in Axes \ {"voice_style"}}
    IN  IF \E f \in others : f.reason \in HardConflicts \/ f.assessment = "unsupported"
        THEN "unsupported_drift"
        ELSE IF \E f \in others : f.assessment = "review" THEN "review_required"
        ELSE IF \E f \in others : f.assessment = "supported" THEN "supported_new_choice"
        ELSE "aligned"
-----------------------------------------------------------------------------
(* Safety and tension in thirds, 0 to 3, after the events of the history.    *)
Clamp(n) == IF n < 0 THEN 0 ELSE IF n > 3 THEN 3 ELSE n

Project(start, history) ==
    FoldLeft(LAMBDA s, e : [safety |-> Clamp(s.safety + e.safety),
                            tension |-> Clamp(s.tension + e.tension)], start, history)

Band(s) ==
    IF s.safety < 1 \/ s.tension > 2 THEN "low"
    ELSE IF s.safety >= 2 /\ s.tension <= 1 THEN "high" ELSE "moderate"

Signal(source, type, value) == [source |-> source, type |-> type, value |-> value]

SourceOf(type) ==
    CASE type = "emotion" -> "inferred"
      [] type = "relationship_safety" -> "derived"
      [] OTHER -> "observed"

(* The emotions an approved pattern asks for: what an evaluator may infer.   *)
Vocabulary(patterns, type) ==
    UNION {UNION {c.values : c \in {c \in ToSet(patterns[p].conditions) : c.type = type}} :
             p \in DOMAIN patterns}

ValidInference(answer, patterns, citable) ==
    \/ answer = {}
    \/ /\ Cardinality({s.value : s \in answer}) = Cardinality(answer)
       /\ Cardinality(answer) <= 8
       /\ \A s \in answer : /\ s.value \in Vocabulary(patterns, "emotion")
                            /\ s.cites # {} /\ s.cites \subseteq citable

(* A canonical pattern speaks only in the continuation it was written for.   *)
Available(pattern, premise) ==
    pattern.scope = "canonical" =>
        premise.mode = "continuation" /\ premise.template \in pattern.templates

\* Faulty: any signal of the kind will do.
MeetsAny(condition, s) == s.source = SourceOf(condition.type) /\ s.type = condition.type

Meets(condition, s) ==
    /\ s.source = SourceOf(condition.type)
    /\ s.type = condition.type
    /\ s.value \in condition.values

(* Each condition takes the first signal of its kind that none before it     *)
(* took; one that finds none ends the match.                                 *)
Supports(conditions, signals, taken) ==
    \A i \in DOMAIN conditions :
      LET free == {j \in DOMAIN signals : /\ Meets(conditions[i], signals[j])
                                         /\ \A k \in 1..(i - 1) : taken[k] # j}
      IN  taken[i] \in free /\ \A j \in free : taken[i] <= j

Activated(patterns, premise, signals) ==
    {p \in DOMAIN patterns :
       /\ Available(patterns[p], premise)
       /\ patterns[p].conditions # << >>
       /\ \E taken \in [DOMAIN patterns[p].conditions -> DOMAIN signals] :
             Supports(patterns[p].conditions, signals, taken)}
-----------------------------------------------------------------------------
PersonaKinds == {"claim", "pattern", "growth"}

(* A result cites nothing but what it was given.                             *)
CitesWhatItHas(d, refs) == Cited(d) \subseteq DOMAIN refs

(* A voice was activated, and has one reference, which the finding cites.    *)
VoicesAreTraced(d, refs, active) ==
    /\ Voices(d) \subseteq active
    /\ \A p \in Voices(d) :
         /\ Cardinality({r \in DOMAIN refs : refs[r].kind = "pattern" /\ refs[r].of = p}) = 1
         /\ \A r \in DOMAIN refs :
              refs[r].kind = "pattern" /\ refs[r].of = p => r \in d["voice_style"].basis

(* What a judgement may cite.                                                *)
WellCited(d, refs, active) == CitesWhatItHas(d, refs) /\ VoicesAreTraced(d, refs, active)

(* Evidence of the Persona stands while its Manifest does, evidence of the   *)
(* relationship as of the opening; of a memory it needs the live record of   *)
(* the archival that made it, which a compaction removes.                    *)
Stands(r, w, now) ==
    CASE r.kind = "claim"   -> /\ now.approved
                               /\ r.of = "applicable"
                               /\ r.scope = "canonical" => w.premise.mode = "continuation"
      [] r.kind = "pattern" -> /\ now.approved
                               /\ r.of \in DOMAIN w.patterns
                               /\ Available(w.patterns[r.of], w.premise)
      [] r.kind = "growth"  -> now.approved /\ r.of = "at opening"
      [] r.kind = "event"   -> r.of <= w.opened
      [] r.kind = "turn"    -> r.of = "completed"
      [] r.kind = "node"    -> now.memory

Resolved(w, now) ==
    /\ \E r \in DOMAIN w.refs : w.refs[r].kind \in PersonaKinds
    /\ \A r \in DOMAIN w.refs : Stands(w.refs[r], w, now)
=============================================================================
