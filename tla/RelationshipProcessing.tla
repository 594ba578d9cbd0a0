------------------------ MODULE RelationshipProcessing ------------------------
(***************************************************************************)
(* Relationship processing of one relationship: what a host model sees in *)
(* a completed Turn is frozen as a batch of candidates, adjudicated one    *)
(* candidate at a time into the journal of decisions, and each accepted    *)
(* event is then reflected on.  Each of these writes is a transaction of   *)
(* its own, and a call may die or fail between any two of them; the next   *)
(* call for the same processing identity resumes from the stored run.      *)
(*                                                                         *)
(* Every operation holds the relationship processing guard, a lock shared  *)
(* by all processes, from its first read to its last write.  One call      *)
(* therefore runs at a time; calls for other identities, direct            *)
(* adjudications and host events come between a call that died and the     *)
(* call that resumes its run.                                              *)
(***************************************************************************)
EXTENDS Integers, Sequences, FiniteSets

CONSTANTS
  Runs,            \* processing identities: a completed Turn, normal or reprocessed
  Normal,          \* the identities of normal processing
  Planned,         \* those frozen by an engine that has an interpreter
  Batches,         \* what an extractor or a host may submit
  DirectEvents,    \* events hosts may record themselves
  Interpretations, \* ids of explicit corrections and reinterpretations
  Keys,            \* candidate keys
  Occurrences,     \* what happened: type, time and summary of an event
  Host,            \* the origin of events recorded directly
  NoEvent, NoRun

\* An event's identity is where it comes from and a key.
EventIds == (Runs \cup {Host}) \X Keys

\* resolves: the Promise or Open Loop the event settles, if it does.
Event == [id: EventIds, occurrence: Occurrences, resolves: EventIds \cup {NoEvent}]

\* sound: evidence, confidence, roles and types pass the checks which read
\* nothing but the candidate and its Turn.  needs: depends_on.
Candidate == [key: Keys, occurrence: Occurrences, sound: BOOLEAN,
              needs: SUBSET Keys, resolves: EventIds \cup {NoEvent}]

KeysOf(batch) == {batch[i].key : i \in DOMAIN batch}

NoBatch == <<>>

ASSUME ProcessingAssumption ==
  /\ Normal \subseteq Runs /\ Planned \subseteq Runs /\ Host \notin Runs
  /\ NoRun \notin Runs /\ NoEvent \notin EventIds
  /\ \A batch \in Batches :
       /\ batch \in Seq(Candidate) /\ batch # <<>>
       /\ \A i, j \in DOMAIN batch : batch[i].key = batch[j].key => i = j
  /\ \A event \in DirectEvents : event \in Event /\ event.id[1] = Host

VARIABLES
  runs,         \* the stored processing runs
  direct,       \* the journal of events recorded directly
  decisions,    \* the journal of adjudication decisions
  reflections,  \* reflection decisions, explicit interpretations among them
  call          \* the call that holds the guard

vars == <<runs, direct, decisions, reflections, call>>

Statuses == {"absent", "extracted", "adjudicated", "reflection_pending",
             "completed", "partial_failed", "failed"}
Outcomes == {"accepted", "corroborated", "rejected"}

\* The baseline is the length of both journals when the batch was frozen.
\* decided, accepted: candidate keys of decision_ids and event_ids.
Run == [status: Statuses, batch: Batches \cup {NoBatch},
        directBase: Nat, decisionBase: Nat, planned: BOOLEAN,
        decided: SUBSET Keys, accepted: SUBSET Keys,
        reflected: SUBSET Keys, failures: SUBSET Keys]
Absent == [status |-> "absent", batch |-> NoBatch, directBase |-> 0,
           decisionBase |-> 0, planned |-> FALSE, decided |-> {},
           accepted |-> {}, reflected |-> {}, failures |-> {}]

\* Receipts tell by their contract version whether a processing run or a
\* direct adjudication decided.  An ignored candidate counts as rejected.
Decision == [run: Runs, key: Keys, batch: Batches, outcome: Outcomes,
             events: SUBSET Event, contract: {"run", "turn"}]

\* A reflection decision is automatic ("") or has an interpretation id.  Whether
\* it found something to say is not told apart.
Reflection == [run: Runs, key: Keys, id: Interpretations \cup {""}]

\* cursor: the candidate last looked at.
Call == [at: {"idle", "extract", "adjudicate", "advance", "reflect", "record", "raised"},
         run: Runs \cup {NoRun}, batch: Batches \cup {NoBatch},
         contract: {"run", "turn"}, decided: SUBSET Keys, cursor: Nat]
Idle == [at |-> "idle", run |-> NoRun, batch |-> NoBatch, contract |-> "run",
         decided |-> {}, cursor |-> 0]

Init ==
  /\ runs = [r \in Runs |-> Absent]
  /\ direct = <<>> /\ decisions = <<>>
  /\ reflections = {}
  /\ call = Idle

-----------------------------------------------------------------------------
(* The adjudication of one candidate *)

Elements(seq) == {seq[i] : i \in DOMAIN seq}

EventsOf(records) == UNION {record.events : record \in records}

\* The complete history storage validates an append against.
History == Elements(direct) \cup EventsOf(Elements(decisions))

Adjudicated(event) == event.id[1] # Host

\* Temporal occurrences are only compared with adjudicated ones.
Duplicate(c, known) ==
  \E e \in known : e.occurrence = c.occurrence
                   /\ (Adjudicated(e) \/ c.resolves = NoEvent)

Exists(id, known)  == \E e \in known : e.id = id
Settled(id, known) == \E e \in known : e.resolves = id

\* RelationshipAdjudicator._adjudicate_candidate.
Verdict(c, known) ==
  CASE ~c.sound -> "rejected"
    [] c.sound /\ c.resolves # NoEvent /\ ~Exists(c.resolves, known) -> "rejected"
    [] OTHER -> IF Duplicate(c, known) THEN "corroborated"
                ELSE IF c.resolves # NoEvent /\ Settled(c.resolves, known)
                THEN "rejected" ELSE "accepted"

\* Faulty: whether the target is settled already is not looked at.
MayAppendTwice(event, history) ==
  event.resolves # NoEvent => Exists(event.resolves, history)

\* TemporalHistoryValidator.validate_append.
MayAppend(event, history) ==
  event.resolves # NoEvent =>
    Exists(event.resolves, history) /\ ~Settled(event.resolves, history)

StoredFor(r) == {record \in Elements(decisions) : record.run = r}
Stored(r, k) == {record \in StoredFor(r) : record.key = k}

\* Candidates of the batch whose decision is settled; the others may be decided
\* when everything they depend on is, or can never be.
Open(batch, decided) == {i \in DOMAIN batch : batch[i].key \notin decided}
Ready(r, batch, decided) ==
  {i \in Open(batch, decided) :
     \/ Stored(r, batch[i].key) # {}
     \/ ~(batch[i].needs \subseteq KeysOf(batch))
     \/ batch[i].needs \subseteq decided}

\* The resolution order: pass after pass over what is left, in batch order; when
\* a pass finds nothing, the rest is a dependency cycle.
IsNext(i, r, batch, decided, cursor) ==
  LET ready == Ready(r, batch, decided)
      after == {j \in ready : j > cursor}
      candidates == IF after # {} THEN after
                    ELSE IF ready # {} THEN ready
                    ELSE Open(batch, decided)
  IN  i \in candidates /\ \A j \in candidates : i <= j

Dependable(r, batch, c, decided) ==
  /\ c.needs \subseteq KeysOf(batch) \cap decided
  /\ \A k \in c.needs : \A record \in Stored(r, k) : record.outcome # "rejected"

-----------------------------------------------------------------------------
(* Calls *)

R == call.run
Return == call' = Idle
Goto(position) == call' = [call EXCEPT !.at = position, !.cursor = 0]
SetRun(fields) == runs' = [runs EXCEPT ![R] = fields]

\* Faulty: a completed run is processed again.
MayResumeAlways(r) == TRUE

MayResume(r) == runs[r].status # "completed"

\* process(): an absent run is extracted, a completed one returned at once.
Process(r) ==
  /\ call.at = "idle" /\ MayResume(r)
  /\ call' = [Idle EXCEPT
       !.run = r, !.batch = runs[r].batch,
       !.at = CASE runs[r].status = "absent" -> "extract"
                [] runs[r].status \in {"extracted", "failed"} -> "adjudicate"
                [] runs[r].status = "adjudicated" -> "advance"
                [] OTHER -> "reflect"]
  /\ UNCHANGED <<runs, direct, decisions, reflections>>

\* A new run, with the lengths of the journals it is frozen on top of.
Frozen(status, batch, planned) ==
  [Absent EXCEPT !.status = status, !.batch = batch, !.planned = planned,
                 !.directBase = Len(direct), !.decisionBase = Len(decisions)]

\* The extractor sees no event; the run is complete.
ExtractNothing ==
  /\ call.at = "extract"
  /\ SetRun(Frozen("completed", NoBatch, FALSE))
  /\ Return
  /\ UNCHANGED <<direct, decisions, reflections>>

\* The extractor's batch is frozen; reflection is planned if this engine has an
\* interpreter.
Extract(batch) ==
  /\ call.at = "extract"
  /\ SetRun(Frozen("extracted", batch, R \in Planned))
  /\ call' = [call EXCEPT !.at = "adjudicate", !.batch = batch]
  /\ UNCHANGED <<direct, decisions, reflections>>

\* adjudicate_turn_candidates(): a host adjudicates a batch of its own.
AdjudicateDirectly(r, batch) ==
  /\ call.at = "idle" /\ r \in Normal
  /\ call' = [Idle EXCEPT !.at = "adjudicate", !.run = r, !.batch = batch,
                          !.contract = "turn"]
  /\ UNCHANGED <<runs, direct, decisions, reflections>>

\* Faulty: a resumed run is adjudicated on top of everything known by now.
CurrentBaseline(r, contract) ==
  [direct    |-> Elements(direct),
   decisions |-> Elements(decisions) \ StoredFor(r)]

\* The decisions a batch is adjudicated on top of: for a run what was frozen,
\* for a direct adjudication everything but its own decisions.
Baseline(r, contract) ==
  IF contract = "run"
  THEN [direct    |-> Elements(SubSeq(direct, 1, runs[r].directBase)),
        decisions |-> Elements(SubSeq(decisions, 1, runs[r].decisionBase))]
  ELSE [direct    |-> Elements(direct),
        decisions |-> Elements(decisions) \ StoredFor(r)]

\* A processing identity keeps one batch, in whatever order, and no run can have
\* been frozen after a decision of its own batch.
Conflict ==
  \/ \E record \in StoredFor(R) : Elements(record.batch) # Elements(call.batch)
  \/ \E record \in Baseline(R, call.contract).decisions :
       record.run = R /\ record.key \in KeysOf(call.batch)

\* Faulty: the candidates of one batch are not compared with each other.
KnownBefore(r, contract, decided) ==
  Baseline(r, contract).direct \cup EventsOf(Baseline(r, contract).decisions)

\* What the candidates of this batch are compared with.
Known(r, contract, decided) ==
  Baseline(r, contract).direct
    \cup EventsOf(Baseline(r, contract).decisions)
    \cup EventsOf({record \in StoredFor(r) : record.key \in decided})

OutcomeOf(r, batch, c, decided, contract) ==
  IF Dependable(r, batch, c, decided)
  THEN Verdict(c, Known(r, contract, decided)) ELSE "rejected"

DecisionOn(c) ==
  LET outcome == OutcomeOf(R, call.batch, c, call.decided, call.contract)
  IN  [run |-> R, key |-> c.key, batch |-> call.batch, outcome |-> outcome,
       contract |-> call.contract,
       events |-> IF outcome = "accepted"
                  THEN {[id |-> <<R, c.key>>, occurrence |-> c.occurrence,
                         resolves |-> c.resolves]}
                  ELSE {}]

\* The next candidate in resolution order: an existing decision is reused, a new
\* one is committed if the history as it is now still allows its event.
Decide(i) ==
  LET c == call.batch[i]
  IN  /\ call.at = "adjudicate" /\ ~Conflict
      /\ IsNext(i, R, call.batch, call.decided, call.cursor)
      /\ \/ Stored(R, c.key) # {} /\ UNCHANGED decisions
         \/ /\ Stored(R, c.key) = {}
            /\ \A event \in DecisionOn(c).events : MayAppend(event, History)
            /\ decisions' = Append(decisions, DecisionOn(c))
      /\ call' = [call EXCEPT !.decided = @ \cup {c.key}, !.cursor = i]
      /\ UNCHANGED <<runs, direct, reflections>>

\* Faulty: the run advances while candidates are left.
AllDecidedAlways == TRUE

AllDecided == Open(call.batch, call.decided) = {}

\* Every candidate is decided.  Only events this run accepted are reflected on.
RecordDecisions ==
  /\ call.at = "adjudicate" /\ ~Conflict /\ call.contract = "run"
  /\ AllDecided
  /\ SetRun([runs[R] EXCEPT
       !.status = "adjudicated", !.decided = KeysOf(call.batch),
       !.accepted = {record.key : record \in
                       {d \in StoredFor(R) : d.key \in call.decided
                                             /\ d.outcome = "accepted"}}])
  /\ Goto("advance")
  /\ UNCHANGED <<direct, decisions, reflections>>

\* A conflict, a refused commit or a failing store, at any candidate.
AdjudicationFails ==
  /\ call.at = "adjudicate" /\ call.contract = "run"
  /\ SetRun([runs[R] EXCEPT !.status = "failed"])
  /\ Return
  /\ UNCHANGED <<direct, decisions, reflections>>

AdvanceAfterAdjudication ==
  /\ call.at = "advance"
  /\ \/ /\ runs[R].accepted = {} \/ ~runs[R].planned
        /\ SetRun([runs[R] EXCEPT !.status = "completed"])
        /\ Return
     \/ /\ runs[R].accepted # {} /\ runs[R].planned
        /\ SetRun([runs[R] EXCEPT !.status = "reflection_pending"])
        /\ Goto("reflect")
  /\ UNCHANGED <<direct, decisions, reflections>>

-----------------------------------------------------------------------------
(* Reflection *)

\* The accepted events, in the order of their candidates.
Left == {j \in DOMAIN call.batch :
           j > call.cursor /\ call.batch[j].key \in runs[R].accepted}
ToReflect(i) == i \in Left /\ \A j \in Left : i <= j

Reflected(r, k) == \E x \in reflections : x.run = r /\ x.key = k /\ x.id = ""

\* RelationshipProcessingRun refuses a pending reflection that has failures.
Recordable(k) == runs[R].failures \subseteq {k}

RecordReflectionOutcome(k) ==
  SetRun([runs[R] EXCEPT !.status = "reflection_pending",
                         !.reflected = @ \cup {k}, !.failures = {}])

AlreadyRecorded(k) ==
  /\ runs[R].status = "reflection_pending"
  /\ k \in runs[R].reflected /\ k \notin runs[R].failures

\* A reflection decision that exists already only has to be recorded in the
\* run; here an exception leaves process().
SkipReflected(i) ==
  LET k == call.batch[i].key
  IN  /\ call.at = "reflect" /\ ToReflect(i) /\ Reflected(R, k)
      /\ \/ /\ AlreadyRecorded(k)
            /\ UNCHANGED runs
            /\ call' = [call EXCEPT !.cursor = i]
         \/ /\ ~AlreadyRecorded(k) /\ Recordable(k)
            /\ RecordReflectionOutcome(k)
            /\ call' = [call EXCEPT !.cursor = i]
         \/ /\ ~AlreadyRecorded(k) /\ ~Recordable(k)
            /\ UNCHANGED runs
            /\ call' = [call EXCEPT !.at = "raised"]
      /\ UNCHANGED <<direct, decisions, reflections>>

\* The interpreter answers and its decision is stored.
Reflect(i) ==
  LET k == call.batch[i].key
  IN  /\ call.at = "reflect" /\ ToReflect(i) /\ ~Reflected(R, k)
      /\ reflections' = reflections \cup {[run |-> R, key |-> k, id |-> ""]}
      /\ call' = [call EXCEPT !.at = "record", !.cursor = i]
      /\ UNCHANGED <<runs, direct, decisions>>

RecordReflection ==
  LET k == call.batch[call.cursor].key
  IN  /\ call.at = "record" /\ Recordable(k)
      /\ RecordReflectionOutcome(k)
      /\ call' = [call EXCEPT !.at = "reflect"]
      /\ UNCHANGED <<direct, decisions, reflections>>

\* Faulty: the loop goes on after a failure.
AfterFailureNext(i) == call' = [call EXCEPT !.at = "reflect", !.cursor = i]

AfterFailure(i) == Return

\* The interpreter, the store or the validation of its decision raises.
ReflectionFails(i) ==
  LET k == call.batch[i].key
  IN  /\ \/ call.at = "reflect" /\ ToReflect(i) /\ ~Reflected(R, k)
         \/ call.at = "record" /\ call.cursor = i
      /\ SetRun([runs[R] EXCEPT !.status = "partial_failed",
                                !.failures = @ \cup {k}])
      /\ AfterFailure(i)
      /\ UNCHANGED <<direct, decisions, reflections>>

CompleteReflections ==
  /\ call.at = "reflect" /\ Left = {}
  /\ SetRun([runs[R] EXCEPT !.status = "completed", !.failures = {}])
  /\ Return
  /\ UNCHANGED <<direct, decisions, reflections>>

\* append_reflection_interpretation(): a correction or reinterpretation of a
\* formal reflection.
Interpret(r, k, id) ==
  /\ call.at = "idle" /\ Reflected(r, k)
  /\ reflections' = reflections \cup {[run |-> r, key |-> k, id |-> id]}
  /\ UNCHANGED <<runs, direct, decisions, call>>

\* record_relationship_event(), record_promise() and their like.
RecordEvent(event) ==
  /\ call.at = "idle"
  /\ ~Exists(event.id, History)
  /\ MayAppend(event, History)
  /\ direct' = Append(direct, event)
  /\ UNCHANGED <<runs, decisions, reflections, call>>

\* The call ends without another write: its process dies, its extractor raises,
\* this engine lacks an interpreter, or a direct adjudication returns or fails.
Leave ==
  /\ call.at # "idle"
  /\ Return
  /\ UNCHANGED <<runs, direct, decisions, reflections>>

Next ==
  \/ \E r \in Runs : Process(r)
  \/ ExtractNothing
  \/ \E batch \in Batches : Extract(batch)
  \/ \E r \in Runs, batch \in Batches : AdjudicateDirectly(r, batch)
  \/ \E i \in DOMAIN call.batch : Decide(i)
  \/ RecordDecisions
  \/ AdjudicationFails
  \/ AdvanceAfterAdjudication
  \/ \E i \in DOMAIN call.batch : SkipReflected(i)
  \/ \E i \in DOMAIN call.batch : Reflect(i)
  \/ RecordReflection
  \/ \E i \in DOMAIN call.batch : ReflectionFails(i)
  \/ CompleteReflections
  \/ \E r \in Runs, k \in Keys, id \in Interpretations : Interpret(r, k, id)
  \/ \E event \in DirectEvents : RecordEvent(event)
  \/ Leave

Spec == Init /\ [][Next]_vars

-----------------------------------------------------------------------------
(* Properties *)

TypeOK ==
  /\ runs \in [Runs -> Run]
  /\ direct \in Seq(DirectEvents)
  /\ decisions \in Seq(Decision)
  /\ reflections \subseteq Reflection
  /\ call \in Call

DecidedWhole(r) ==
  IF runs[r].status \in {"absent", "extracted", "failed"} \/ runs[r].batch = NoBatch
  THEN runs[r].decided = {} /\ runs[r].accepted = {}
  ELSE /\ runs[r].decided = KeysOf(runs[r].batch)
       /\ runs[r].accepted \subseteq runs[r].decided
       /\ \A k \in runs[r].decided :
            \E record \in Stored(r, k) :
              Elements(record.batch) = Elements(runs[r].batch)
              /\ (record.outcome = "accepted" <=> k \in runs[r].accepted)

\* A run that names decisions names those of its whole batch and exactly the
\* events they accepted, whichever calls stored them; until then it names none
\* (_adjudicate collects them from the result, which may be made of decisions
\* of several interrupted calls).
BatchDecidedWhole == \A r \in Runs : DecidedWhole(r)

\* What the decision at position n of the journal is when the frozen batch is
\* replayed against the journals as they were when it was frozen.
Replayed(n) ==
  LET record  == decisions[n]
      earlier == {decisions[m].key : m \in {l \in 1..n - 1 : decisions[l].run = record.run}}
  IN  \A i \in DOMAIN record.batch :
        record.batch[i].key = record.key =>
          record.outcome = OutcomeOf(record.run, record.batch, record.batch[i],
                                     earlier, "run")

\* Decisions of a run are what a replay of its batch against its baseline gives,
\* however often the run was interrupted and whatever was recorded in between,
\* as long as no host adjudicated the same identity directly.
FrozenReplay ==
  \A n \in DOMAIN decisions :
    (\A record \in StoredFor(decisions[n].run) : record.contract = "run") => Replayed(n)

\* An occurrence is accepted twice only by a run that was frozen before the
\* first acceptance was in the journal; a later one corroborates.
OccurrenceSettledOnce ==
  \A m, n \in DOMAIN decisions :
    m < n /\ (\E e \in decisions[m].events, f \in decisions[n].events :
                e.occurrence = f.occurrence)
    => /\ decisions[n].run # decisions[m].run
       /\ decisions[n].contract = "run"
       /\ runs[decisions[n].run].decisionBase < m

\* What a batch is decided against is what it was frozen with, and deciding late
\* never counts as having happened twice.
DecidedAsFrozen == FrozenReplay /\ OccurrenceSettledOnce

\* A Promise is resolved at most once, although batches are decided against
\* baselines that do not contain each other's resolutions.
SettledOnce ==
  \A e, f \in History :
    e.resolves # NoEvent /\ e.resolves = f.resolves => e = f

ReflectedWhole(r) ==
  /\ runs[r].status = "completed" /\ runs[r].planned => runs[r].reflected = runs[r].accepted
  /\ \A k \in runs[r].reflected : Reflected(r, k)
  /\ \A x \in reflections : x.run = r => x.key \in runs[r].accepted /\ runs[r].planned

\* A run completes only when every event it accepted has its reflection decision,
\* if it planned any; at any time, what it says was reflected on is stored, and
\* nothing is reflected on but events that runs which planned it accepted.
ReflectionsComplete == \A r \in Runs : ReflectedWhole(r)

Progresses(r) ==
  /\ runs[r].status # "absent" =>
       runs'[r].batch = runs[r].batch /\ runs'[r].planned = runs[r].planned
       /\ runs'[r].directBase = runs[r].directBase
       /\ runs'[r].decisionBase = runs[r].decisionBase
  /\ runs[r].decided # {} =>
       runs'[r].decided = runs[r].decided /\ runs'[r].accepted = runs[r].accepted
  /\ runs[r].status = "completed" => runs'[r] = runs[r]
  /\ runs[r].reflected \subseteq runs'[r].reflected

\* Progress is never taken back: the frozen input, the decisions once recorded, a
\* completed run, what was reflected.
RunsOnlyProgress == [][\A r \in Runs : Progresses(r)]_vars

\* Retrying a run whose reflection failed resumes the reflection stage, instead
\* of failing with an internal error (docs/USAGE.md:1065).
RetryResumesReflection == call.at # "raised"
=============================================================================
