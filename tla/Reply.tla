-------------------------------- MODULE Reply ---------------------------------
(* One open Turn and the threads of a host that prepare, review, show and    *)
(* seal a reply to it (deliberation/orchestration.py, host_bridge.py,        *)
(* engine.py): deliberation with a fallback to a direct reply under the      *)
(* relationship guard, the continuity review with its voice activation, and  *)
(* the inference of emotions that threads share through one future and a     *)
(* cache.  Calls that only activate voices or abandon the Turn take no       *)
(* guard, nor does another process that ends the Turn; a Manifest is revoked,*)
(* an archival compacted, an event appended in between; the process crashes. *)
(*                                                                           *)
(* Exact texts are bound by hashes and never change: a reply is what was     *)
(* decided about it.  One Turn and one evaluator have one cache key.         *)
EXTENDS ContinuityReview

CONSTANTS
  Hosts,        \* threads of the one process
  Modes,        \* what hosts call: "off", "compact", "activate", "abandon"
  Worlds,       \* [patterns, premise, refs, start, opened, observed, infers, view]
  Answers,      \* what a provider may return: a failure code or a compact decision
  Judgements,   \* what a continuity evaluator may return
  Inferences,   \* what an emotion evaluator may return
  Deltas,       \* what an event does to safety and tension
  Firsts,       \* attempt numbers that hosts begin with
  MaxCalls, MaxRivals,
  None

\* A fallback that fails as well is recorded under the next number.
Numbers == Firsts \cup {n + 1 : n \in Firsts}

Changes == [safety: Int, tension: Int]

Codes ==
  {"deliberation_disabled", "provider_late_result", "output_canary_leak",
   "output_evidence_invalid", "provider_conflict", "deliberation_abstained",
   "deliberation_requires_staged", "reply_envelope_unsupported", "direct_generation_failed",
   "direct_reply_invalid", "continuity_evaluation_failed", "unsupported_drift",
   "review_required", "supported_new_choice", "aligned"}

Reasons  == {None} \cup Codes \cup {answer.code : answer \in Answers}
Failures == [by: {"actor", "direct"}, reason: Reasons]

ASSUME ReplyAssumption ==
  /\ Firsts \subseteq Nat \ {0}
  /\ None \notin Hosts /\ None # "refused" /\ \A failure \in Failures : None # failure
  /\ Deltas \subseteq Changes
  /\ \A w \in Worlds : /\ w.journal \in Seq(Changes) /\ w.opened \in 0..Len(w.journal)
                       /\ IsFiniteSet(w.observed)
                       /\ \A r \in DOMAIN w.refs :
                            w.refs[r].kind \in PersonaKinds \cup {"event", "turn", "node"}
  /\ \A answer \in Answers : answer.code = None => answer.kind \in {"reply", "abstain", "staged"}
  /\ \A d \in Judgements : d # None => \A axis \in DOMAIN d :
       d[axis].assessment \in {"aligned", "supported", "review", "unsupported"}
  /\ \A answer \in Inferences : answer # None => IsFiniteSet(answer)

VARIABLES
  world,        \* fixed at the opening of the Turn
  turn,         \* [status, version, reply]
  attempts,     \* per number: None or the failure on record
  now,          \* [approved, memory, journal]: what a review reads besides
  guard,        \* holder of the relationship guard
  host,         \* per thread: where its call is and what it knows
  voice,        \* [cached, inflight, flights, drops]: the shared inference
  left          \* [calls, rivals]: what may still begin

vars == <<world, turn, attempts, now, guard, host, voice, left>>

Idle == [at |-> "idle", mode |-> None, number |-> 0, version |-> 0, reason |-> None,
         failure |-> None, recorded |-> FALSE, compact |-> None, signals |-> None,
         flight |-> 0, decision |-> None, outcome |-> None]

Frozen == SubSeq(now.journal, 1, world.opened)

(* The journal is the one of the opening until others append to it.          *)
Init ==
    /\ world \in Worlds
    /\ turn = [status |-> "open", version |-> 1, reply |-> None]
    /\ attempts = [n \in Numbers |-> None]
    /\ now = [approved |-> TRUE, memory |-> TRUE, journal |-> world.journal]
    /\ guard = None
    /\ host = [h \in Hosts |-> Idle]
    /\ voice = [cached |-> 0, inflight |-> 0, flights |-> << >>, drops |-> 0]
    /\ left = [calls |-> MaxCalls, rivals |-> MaxRivals]

Open == turn.status = "open"
At(h, at) == host[h].at = at
Goto(h, at) == host' = [host EXCEPT ![h].at = at]

(* A call that ends frees the guard if it held it.                           *)
Return(h, outcome) ==
    /\ host' = [host EXCEPT ![h] = [Idle EXCEPT !.outcome = outcome]]
    /\ guard' = IF guard = h THEN None ELSE guard

Store == <<turn, attempts, now>>
-----------------------------------------------------------------------------
(* prepare_reply reads the Turn before it takes the guard.                   *)
Call(h) ==
    /\ At(h, "idle")
    /\ left.calls > 0
    /\ left' = [left EXCEPT !.calls = @ - 1]
    /\ \E mode \in Modes :
         \/ /\ mode = "activate"
            /\ host' = [host EXCEPT ![h] = [Idle EXCEPT !.at = "voice", !.mode = mode]]
         \/ /\ mode = "abandon"
            /\ host' = [host EXCEPT ![h] = [Idle EXCEPT !.at = "abandon", !.mode = mode]]
         \/ /\ mode \in {"off", "compact"} /\ Open
            /\ \E n \in Firsts :
                 host' = [host EXCEPT ![h] = [Idle EXCEPT !.at = "enter", !.mode = mode,
                                                !.number = n, !.version = turn.version]]
    /\ UNCHANGED <<world, Store, guard, voice>>

Enter(h) ==
    /\ At(h, "enter")
    /\ guard = None
    /\ guard' = h
    /\ IF host[h].mode = "off"
       THEN host' = [host EXCEPT ![h].at = "direct", ![h].reason = "deliberation_disabled"]
       ELSE Goto(h, "prepare")
    /\ UNCHANGED <<world, Store, voice, left>>

FallBack(h, reason) ==
    /\ host' = [host EXCEPT ![h].at = "record", ![h].reason = reason,
                            ![h].failure = reason, ![h].compact = None,
                            ![h].signals = None, ![h].flight = 0]
    /\ UNCHANGED guard

(* The bridge reads the Turn four times; only the first reading raises.      *)
Prepare(h) ==
    /\ At(h, "prepare")
    /\ IF Open THEN Goto(h, "before") /\ UNCHANGED guard ELSE Return(h, None)
    /\ UNCHANGED <<world, Store, voice, left>>

Matches(h) == Open /\ turn.version = host[h].version

BeforeCall(h) ==
    /\ At(h, "before")
    /\ IF Matches(h) THEN Goto(h, "asking") /\ UNCHANGED guard
       ELSE FallBack(h, "provider_late_result")
    /\ UNCHANGED <<world, Store, voice, left>>

Ask(h) ==
    /\ At(h, "asking")
    /\ \E answer \in Answers :
         \/ /\ answer.code # None
            /\ FallBack(h, answer.code)
         \/ /\ answer.code = None
            /\ host' = [host EXCEPT ![h].at = "answered", ![h].compact = answer]
            /\ UNCHANGED guard
    /\ UNCHANGED <<world, Store, voice, left>>

\* Faulty: forgets what the interior scene echoes.
ReferencesOfFrame(answer) == UNION {item.basis \cup item.counter : item \in answer.items}

(* run_security_scan: the references that the frame and its interior scene   *)
(* make, and a basis for whatever claims support.                            *)
References(answer) ==
    answer.echoes \cup UNION {item.basis \cup item.counter : item \in answer.items}

Grounded(answer) ==
    /\ References(answer) \subseteq world.view
    /\ \A item \in answer.items : item.supported => item.basis # {}

Scan(h) ==
    /\ At(h, "answered")
    /\ LET answer == host[h].compact
       IN  IF ~Matches(h) THEN FallBack(h, "provider_late_result")
           ELSE IF answer.canary THEN FallBack(h, "output_canary_leak")
           ELSE IF ~Grounded(answer) THEN FallBack(h, "output_evidence_invalid")
           ELSE Goto(h, "verify") /\ UNCHANGED guard
    /\ UNCHANGED <<world, Store, voice, left>>

Verify(h) ==
    /\ At(h, "verify")
    /\ LET answer == host[h].compact
       IN  IF ~Matches(h) THEN FallBack(h, "provider_conflict")
           ELSE IF answer.kind = "abstain" THEN FallBack(h, "deliberation_abstained")
           ELSE IF answer.kind = "staged" \/ answer.signal = "staged"
                THEN FallBack(h, "deliberation_requires_staged")
           ELSE IF answer.parts # 1 THEN FallBack(h, "reply_envelope_unsupported")
           ELSE Goto(h, "review") /\ UNCHANGED guard
    /\ UNCHANGED <<world, Store, voice, left>>

(* record_reply_attempt_failure: numbers are never reused for another        *)
(* failure, and an ended Turn accepts none; both make the call raise.        *)
Fallen(h) == host[h].mode = "compact" /\ ~host[h].recorded

Failure(h) == [by |-> IF Fallen(h) THEN "actor" ELSE "direct", reason |-> host[h].failure]

\* Faulty: the last failure wins.
AppendOver(n, failure) == Open /\ attempts' = [attempts EXCEPT ![n] = failure]

\* Faulty: trusts that the Turn was open when the call read it.
AppendLate(n, failure) ==
    /\ attempts[n] \in {None, failure}
    /\ attempts' = [attempts EXCEPT ![n] = failure]

AppendAttempt(n, failure) ==
    /\ Open
    /\ attempts[n] \in {None, failure}
    /\ attempts' = [attempts EXCEPT ![n] = failure]

Record(h) ==
    /\ At(h, "record")
    /\ LET n == host[h].number + IF host[h].recorded THEN 1 ELSE 0
       IN  \/ /\ AppendAttempt(n, Failure(h))
              /\ IF Fallen(h)
                 THEN /\ host' = [host EXCEPT ![h].at = "direct", ![h].recorded = TRUE]
                      /\ UNCHANGED guard
                 ELSE Return(h, None)
           \/ /\ ~Open \/ attempts[n] \notin {None, Failure(h)}
              /\ Return(h, None)
              /\ UNCHANGED attempts
    /\ UNCHANGED <<world, turn, now, voice, left>>

DirectFails(h, failure) ==
    /\ host' = [host EXCEPT ![h].at = "record", ![h].failure = failure, ![h].signals = None,
                            ![h].flight = 0]
    /\ UNCHANGED guard

Direct(h) ==
    /\ At(h, "direct")
    /\ \/ Goto(h, "review") /\ UNCHANGED guard
       \/ \E failure \in {"direct_generation_failed", "direct_reply_invalid"} :
            DirectFails(h, failure)
    /\ UNCHANGED <<world, Store, voice, left>>
-----------------------------------------------------------------------------
(* _review turns every exception into None.                                  *)
Unreviewed(h, why) ==
    IF host[h].mode = "activate" THEN Return(h, None)
    ELSE IF Fallen(h) THEN FallBack(h, why)
    ELSE DirectFails(h, why)

Review(h) ==
    /\ At(h, "review")
    /\ IF Open /\ Resolved(world, now) THEN Goto(h, "voice") /\ UNCHANGED guard
       ELSE Unreviewed(h, "continuity_evaluation_failed")
    /\ UNCHANGED <<world, Store, voice, left>>

\* Faulty: only a finished evaluation is shared.
AirborneNever == FALSE

(* activate_contextual_voice_patterns, and the first lock of the single      *)
(* flight: what is cached, what is in the air, or a flight of one's own.     *)
Airborne == voice.inflight # 0

Asks == world.infers /\ Vocabulary(world.patterns, "emotion") # {}

Lookup(h) ==
    \/ /\ voice.cached # 0
       /\ host' = [host EXCEPT ![h].at = "judge",
                               ![h].signals = voice.flights[voice.cached].value]
       /\ UNCHANGED voice
    \/ /\ voice.cached = 0 /\ Airborne
       /\ host' = [host EXCEPT ![h].at = "follow", ![h].flight = voice.inflight]
       /\ UNCHANGED voice
    \/ /\ voice.cached = 0 /\ ~Airborne
       /\ voice' = [voice EXCEPT !.flights = Append(@, [state |-> "pending", value |-> None]),
                                 !.inflight = Len(voice.flights) + 1]
       /\ host' = [host EXCEPT ![h].at = "lead", ![h].flight = Len(voice.flights) + 1]

Activate(h) ==
    /\ At(h, "voice")
    /\ \/ /\ ~(Open /\ now.approved)
          /\ Unreviewed(h, "continuity_evaluation_failed")
          /\ UNCHANGED voice
       \/ /\ Open /\ now.approved /\ ~Asks
          /\ host' = [host EXCEPT ![h].at = "judge", ![h].signals = {}]
          /\ UNCHANGED <<guard, voice>>
       \/ /\ Open /\ now.approved /\ Asks
          /\ Lookup(h)
          /\ UNCHANGED guard
    /\ UNCHANGED <<world, Store, left>>

Citable == {"message"} \cup world.observed

Infer(h) ==
    /\ At(h, "lead")
    /\ \E answer \in Inferences :
         host' = [host EXCEPT
                    ![h].signals = answer,
                    ![h].at = IF answer # None /\ ValidInference(answer, world.patterns, Citable)
                              THEN "publish" ELSE "fail"]
    /\ UNCHANGED <<world, Store, guard, voice, left>>

Land(f, state, value) == [voice.flights EXCEPT ![f] = [state |-> state, value |-> value]]

(* The result goes to the cache under the lock, to the followers after it.   *)
Publish(h) ==
    /\ At(h, "publish")
    /\ voice' = [voice EXCEPT !.cached = host[h].flight, !.inflight = 0,
                              !.flights[host[h].flight].value = host[h].signals]
    /\ Goto(h, "resolve")
    /\ UNCHANGED <<world, Store, guard, left>>

Resolve(h) ==
    /\ At(h, "resolve")
    /\ voice' = [voice EXCEPT !.flights = Land(host[h].flight, "value", host[h].signals)]
    /\ host' = [host EXCEPT ![h].at = "judge", ![h].flight = 0]
    /\ UNCHANGED <<world, Store, guard, left>>

\* Faulty: leaves its followers without the exception.
FailSilently(h) ==
    /\ At(h, "fail")
    /\ Goto(h, "pop")
    /\ UNCHANGED <<world, Store, guard, voice, left>>

Fail(h) ==
    /\ At(h, "fail")
    /\ voice' = [voice EXCEPT !.flights = Land(host[h].flight, "error", None)]
    /\ Goto(h, "pop")
    /\ UNCHANGED <<world, Store, guard, left>>

Pop(h) ==
    /\ At(h, "pop")
    /\ voice' = [voice EXCEPT !.inflight = 0]
    /\ Unreviewed(h, "continuity_evaluation_failed")
    /\ UNCHANGED <<world, Store, left>>

Follow(h) ==
    /\ At(h, "follow")
    /\ LET flight == voice.flights[host[h].flight]
       IN  \/ /\ flight.state = "value"
              /\ host' = [host EXCEPT ![h].at = "judge", ![h].signals = flight.value,
                                      ![h].flight = 0]
              /\ UNCHANGED guard
           \/ /\ flight.state = "error"
              /\ Unreviewed(h, "continuity_evaluation_failed")
    /\ UNCHANGED <<world, Store, voice, left>>

(* The signals of the Turn in the order of their ids, which are hashes.      *)
Signals(inferred) ==
    SetToSeq({Signal("observed", "activity", v) : v \in world.observed}
       \cup {Signal("derived", "relationship_safety", Band(Project(world.start, Frozen)))}
       \cup {Signal("inferred", "emotion", s.value) : s \in inferred})

Active(inferred) == Activated(world.patterns, world.premise, Signals(inferred))

Judge(h) ==
    /\ At(h, "judge")
    /\ \/ /\ host[h].mode = "activate"
          /\ Return(h, None)
       \/ /\ host[h].mode # "activate"
          /\ \E d \in Judgements :
               LET valid == /\ d # None
                            /\ ValidJudgement(d)
                            /\ WellCited(d, world.refs, Active(host[h].signals))
                   verdict == Aggregate(d)
               IN  \/ /\ valid /\ verdict \in {"aligned", "supported_new_choice"}
                      /\ host' = [host EXCEPT ![h].at = "ready", ![h].decision = d,
                                              ![h].signals = None]
                      /\ guard' = None
                   \/ /\ valid /\ verdict \notin {"aligned", "supported_new_choice"}
                      /\ Unreviewed(h, verdict)
                   \/ /\ ~valid
                      /\ Unreviewed(h, "continuity_evaluation_failed")
    /\ UNCHANGED <<world, Store, voice, left>>
-----------------------------------------------------------------------------
(* finalize_shown, or the host never shows the reply.                        *)
Show(h) ==
    /\ At(h, "ready")
    /\ guard = None
    /\ guard' = h
    /\ Goto(h, "check")
    /\ UNCHANGED <<world, Store, voice, left>>

Discard(h) ==
    /\ At(h, "ready")
    /\ Return(h, None)
    /\ UNCHANGED <<world, Store, voice, left>>

Check(h) ==
    /\ At(h, "check")
    /\ IF Matches(h) THEN Goto(h, "seal") /\ UNCHANGED guard ELSE Return(h, "refused")
    /\ UNCHANGED <<world, Store, voice, left>>

\* Faulty: takes the safety of the present instead of the opening.
RebuiltNow(condition) ==
    CASE condition.type = "emotion" -> TRUE
      [] condition.type = "relationship_safety" ->
           Band(Project(world.start, now.journal)) \in condition.values
      [] OTHER -> world.observed \cap condition.values # {}

(* complete_turn resolves the evidence again and rebuilds what the voices    *)
(* rest on: the observations of the Turn and the safety of its frozen        *)
(* history; an inference is not repeated.                                    *)
Rebuilt(condition) ==
    CASE condition.type = "emotion" -> TRUE
      [] condition.type = "relationship_safety" ->
           Band(Project(world.start, Frozen)) \in condition.values
      [] OTHER -> world.observed \cap condition.values # {}

TracesStand(d) ==
    \A p \in Voices(d) : \A c \in ToSet(world.patterns[p].conditions) : Rebuilt(c)

Seal(h) ==
    /\ At(h, "seal")
    /\ IF Resolved(world, now) /\ TracesStand(host[h].decision)
       THEN Goto(h, "transition") /\ UNCHANGED guard
       ELSE Return(h, "refused")
    /\ UNCHANGED <<world, Store, voice, left>>

(* The compare-and-swap reads the authorities in its own transaction.        *)
Transition(h) ==
    /\ At(h, "transition")
    /\ IF Matches(h) /\ now.approved
       THEN /\ turn' = [status |-> "completed", version |-> turn.version + 1,
                        reply |-> [source |-> IF host[h].compact = None THEN "direct"
                                              ELSE "compact",
                                   reason |-> host[h].reason, number |-> host[h].number,
                                   compact |-> host[h].compact,
                                   decision |-> host[h].decision]]
            /\ Goto(h, "evict")
            /\ UNCHANGED guard
       ELSE UNCHANGED turn /\ Return(h, "refused")
    /\ UNCHANGED <<world, attempts, now, voice, left>>

Abandon(h) ==
    /\ At(h, "abandon")
    /\ IF Open
       THEN /\ turn' = [turn EXCEPT !.status = "abandoned", !.version = @ + 1]
            /\ Goto(h, "evict")
            /\ UNCHANGED guard
       ELSE /\ UNCHANGED turn
            /\ \/ turn.status = "abandoned" /\ Goto(h, "evict") /\ UNCHANGED guard
               \/ Return(h, None)
    /\ UNCHANGED <<world, attempts, now, voice, left>>

Dropped == [voice EXCEPT !.cached = 0, !.drops = @ + IF voice.cached # 0 THEN 1 ELSE 0]

Evict(h) ==
    /\ At(h, "evict")
    /\ voice' = Dropped
    /\ Return(h, None)
    /\ UNCHANGED <<world, Store, left>>
-----------------------------------------------------------------------------
Rival == left.rivals > 0 /\ left' = [left EXCEPT !.rivals = @ - 1]

(* Another process completes or abandons the Turn.                           *)
RivalEnds ==
    /\ Rival /\ Open
    /\ \E status \in {"completed", "abandoned"} :
         turn' = [turn EXCEPT !.status = status, !.version = @ + 1]
    /\ UNCHANGED <<world, attempts, now, guard, host, voice>>

Revoke ==
    /\ Rival /\ now.approved
    /\ now' = [now EXCEPT !.approved = FALSE]
    /\ UNCHANGED <<world, turn, attempts, guard, host, voice>>

Compact ==
    /\ Rival /\ now.memory
    /\ now' = [now EXCEPT !.memory = FALSE]
    /\ UNCHANGED <<world, turn, attempts, guard, host, voice>>

(* Events are appended under the relationship guard.                         *)
AppendEvent ==
    /\ Rival /\ guard = None
    /\ \E delta \in Deltas : now' = [now EXCEPT !.journal = Append(@, delta)]
    /\ UNCHANGED <<world, turn, attempts, guard, host, voice>>

(* The cache holds so many entries: other Turns displace this one's.         *)
Displace ==
    /\ Rival /\ voice.cached # 0
    /\ voice' = Dropped
    /\ UNCHANGED <<world, turn, attempts, now, guard, host>>

Restart ==
    /\ Rival
    /\ host' = [h \in Hosts |-> Idle]
    /\ guard' = None
    /\ voice' = [voice EXCEPT !.cached = 0, !.inflight = 0,
                              !.drops = @ + IF voice.cached # 0 \/ Airborne THEN 1 ELSE 0]
    /\ UNCHANGED <<world, turn, attempts, now>>
-----------------------------------------------------------------------------
Step(h) ==
    \/ Enter(h) \/ Prepare(h) \/ BeforeCall(h) \/ Ask(h) \/ Scan(h) \/ Verify(h)
    \/ Record(h) \/ Direct(h) \/ Review(h) \/ Activate(h) \/ Infer(h) \/ Publish(h)
    \/ Resolve(h) \/ Fail(h) \/ Pop(h) \/ Follow(h) \/ Judge(h)
    \/ Check(h) \/ Seal(h) \/ Transition(h) \/ Abandon(h) \/ Evict(h)

Others == RivalEnds \/ Revoke \/ Compact \/ AppendEvent \/ Displace \/ Restart

Next == (\E h \in Hosts : Call(h) \/ Show(h) \/ Discard(h) \/ Step(h)) \/ Others

-----------------------------------------------------------------------------
TypeOK ==
    /\ world \in Worlds
    /\ turn.status \in {"open", "completed", "abandoned"} /\ turn.version \in Nat
    /\ attempts \in [Numbers -> {None} \cup Failures]
    /\ now.approved \in BOOLEAN /\ now.memory \in BOOLEAN
    /\ guard \in Hosts \cup {None}
    /\ \A h \in Hosts : DOMAIN host[h] = DOMAIN Idle
    /\ {voice.cached, voice.inflight} \subseteq 0..Len(voice.flights)

Prepared(h) == host[h].at \in {"ready", "check", "seal", "transition"}

Recorded(reply) ==
    reply.reason \notin {None, "deliberation_disabled"} =>
        attempts[reply.number] = [by |-> "actor", reason |-> reply.reason]

(* A direct reply that stands in for a failed deliberation is offered, and   *)
(* sealed, only with exactly that failure on record under its number         *)
(* (orchestration.py _record_failure before _prepare_direct), whoever else   *)
(* records under the same numbers meanwhile.                                 *)
FallbackIsRecorded ==
    /\ \A h \in Hosts : Prepared(h) => Recorded(host[h])
    /\ turn.reply # None => Recorded(turn.reply)

(* No step of a call that is still under way, or that a late provider or     *)
(* evaluator answers, touches the Turn or its attempts once it has ended:    *)
(* the reading before each write is not the protection, the compare-and-swap *)
(* is (sqlite_storage.py append_reply_attempt, transition_turn_record).      *)
AfterTheEnd == [][~Open => UNCHANGED <<turn, attempts>>]_vars

(* A shown reply is refused only if its Turn has ended, or an authority or a *)
(* memory that its review cites is gone: attempts, events and evaluations    *)
(* since the review do not make it stale (_matches_prepared_turn,            *)
(* ContinuityEvidenceResolver.validate_binding).                             *)
RefusedOnlyStale ==
    \A h \in Hosts :
      host[h].outcome = "refused" =>
        \/ ~Open
        \/ ~now.approved
        \/ ~now.memory /\ \E r \in DOMAIN world.refs : world.refs[r].kind = "node"

(* Whatever the evaluator calls its findings, a sealed reply has no hard     *)
(* conflict, nothing unsupported and nothing left to review outside its      *)
(* voice, and its findings cite only evidence that the kernel supplied.      *)
ShownIsContinuous ==
    turn.reply # None =>
      LET d == turn.reply.decision
      IN  /\ \A axis \in Axes \ {"voice_style"} :
               /\ d[axis].reason \notin HardConflicts
               /\ d[axis].assessment \in {"aligned", "supported"}
          /\ Cited(d) \subseteq DOMAIN world.refs

(* A contextual voice in a sealed reply has every condition of its pattern   *)
(* behind it: something the Turn's host observed, the safety of the history  *)
(* it was opened on, an emotion that some evaluation inferred.  Completion   *)
(* cannot repeat the inference, so this rests on the cache and the matcher.  *)
Backed(c) ==
    CASE c.type = "emotion" ->
           \E f \in 1..Len(voice.flights) :
             /\ voice.flights[f].value # None
             /\ \E s \in voice.flights[f].value : s.value \in c.values
      [] c.type = "relationship_safety" ->
           Band(Project(world.start, Frozen)) \in c.values
      [] OTHER -> world.observed \cap c.values # {}

VoiceIsEarned ==
    turn.reply # None =>
      \A p \in Voices(turn.reply.decision) :
        \A c \in ToSet(world.patterns[p].conditions) : Backed(c)

(* A deliberated reply that is sealed claims nothing outside the evidence it *)
(* was given: not in its frame, not in an echo of its interior scene, and    *)
(* supports nothing without a basis (security.py EvidenceScopeValidator).    *)
CompactIsGrounded ==
    turn.reply # None /\ turn.reply.compact # None =>
      LET answer == turn.reply.compact
      IN  /\ answer.echoes \subseteq world.view
          /\ \A item \in answer.items :
               /\ (item.basis \cup item.counter) \subseteq world.view
               /\ item.supported => item.basis # {}
          /\ answer.kind = "reply" /\ ~answer.canary

(* A reply is sealed only with findings, a voice and claims that what the    *)
(* kernel knows bears out, whatever evaluators and providers say.            *)
CompletionIsEarned == ShownIsContinuous /\ VoiceIsEarned /\ CompactIsGrounded

(* However many threads ask at once, the emotion evaluator runs once for one *)
(* input, and again only after a failure or after its result was dropped     *)
(* (engine.py _evaluate_interaction_context_cached).                         *)
OneEvaluation ==
    Len(voice.flights)
      <= 1 + voice.drops
           + Cardinality({f \in 1..Len(voice.flights) : voice.flights[f].state = "error"})

(* Nobody waits for a result that nobody will bring: whoever follows a flight*)
(* in the air has a leader still on its way to answer it, and a failed one   *)
(* answers before it lets another begin.                                     *)
FollowersAreLed ==
    \A h \in Hosts :
      At(h, "follow") /\ voice.flights[host[h].flight].state = "pending" =>
        \E leader \in Hosts : /\ host[leader].at \in {"lead", "publish", "resolve", "fail"}
                              /\ host[leader].flight = host[h].flight

(* The single flight of an evaluation: one leader at a time, and never none. *)
SingleFlight == OneEvaluation /\ FollowersAreLed

Spec == Init /\ [][Next]_vars
=============================================================================
