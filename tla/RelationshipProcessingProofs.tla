--------------------- MODULE RelationshipProcessingProofs ---------------------
(***************************************************************************)
(* Proofs about RelationshipProcessing for any number of identities,       *)
(* batches of any length and any journals.                                 *)
(***************************************************************************)
EXTENDS RelationshipProcessing, TLAPS

-----------------------------------------------------------------------------
(* The inductive invariant. *)

\* A run at work has a batch.  Nothing is reflected on but what it accepted, and
\* only when it planned to reflect.  What it says of itself agrees with the journals.
RunOK(r) ==
  /\ runs[r].status \notin {"absent", "completed"} => runs[r].batch \in Batches
  /\ runs[r].status \in {"absent", "extracted", "failed", "adjudicated"} =>
       runs[r].reflected = {}
  /\ runs[r].status \in {"reflection_pending", "partial_failed"} => runs[r].planned
  /\ runs[r].reflected \subseteq runs[r].accepted
  /\ DecidedWhole(r)
  /\ ReflectedWhole(r)

RunInv == \A r \in Runs : RunOK(r)

\* Where a call stands agrees with the stored run it works on.
CallPlace ==
  /\ call.at # "idle" => R \in Runs
  /\ call.at \notin {"idle", "extract"} => call.batch \in Batches
  /\ call.at = "extract" =>
       runs[R].status = "absent" /\ call.contract = "run" /\ call.decided = {}
  /\ call.at = "adjudicate" /\ call.contract = "run" =>
       runs[R].batch = call.batch /\ runs[R].status \in {"extracted", "failed"}
  /\ call.at = "advance" => runs[R].batch = call.batch /\ runs[R].status = "adjudicated"
  /\ call.at \in {"reflect", "record"} =>
       runs[R].batch = call.batch
       /\ runs[R].status \in {"reflection_pending", "partial_failed"}

\* What a call passed in its batch has been done: it is decided, or reflected on
\* as far as it was accepted.
CallProgress ==
  /\ call.at = "adjudicate" =>
       \A k \in call.decided : k \in KeysOf(call.batch) /\ Stored(R, k) # {}
  /\ call.at \in {"reflect", "record"} =>
       \A j \in DOMAIN call.batch :
         j < call.cursor /\ call.batch[j].key \in runs[R].accepted
           => call.batch[j].key \in runs[R].reflected
  /\ call.at = "reflect" =>
       \A j \in DOMAIN call.batch :
         j = call.cursor /\ call.batch[j].key \in runs[R].accepted
           => call.batch[j].key \in runs[R].reflected
  /\ call.at = "record" =>
       call.cursor \in DOMAIN call.batch
       /\ call.batch[call.cursor].key \in runs[R].accepted
       /\ Reflected(R, call.batch[call.cursor].key)

IInv == TypeOK /\ RunInv /\ CallPlace /\ CallProgress /\ SettledOnce

-----------------------------------------------------------------------------
(* Facts about the operators. *)

\* Appending to a journal adds one element.
LEMMA ElementsAppend ==
  ASSUME NEW S, NEW seq \in Seq(S), NEW x \in S
  PROVE  /\ Append(seq, x) \in Seq(S)
         /\ Elements(Append(seq, x)) = Elements(seq) \cup {x}
<1>1. /\ Append(seq, x) \in Seq(S) /\ DOMAIN Append(seq, x) = 1..Len(seq) + 1
      /\ Append(seq, x)[Len(seq) + 1] = x
      /\ \A i \in 1..Len(seq) : Append(seq, x)[i] = seq[i]
      /\ DOMAIN seq = 1..Len(seq) /\ Len(seq) \in Nat
  OBVIOUS
<1>2. 1..Len(seq) + 1 = 1..Len(seq) \cup {Len(seq) + 1}
  BY <1>1
<1>3. QED  BY <1>1, <1>2 DEF Elements

\* A position of a batch holds a candidate, and only a submitted batch has one.
LEMMA CandidateFacts ==
  ASSUME TypeOK, NEW i \in DOMAIN call.batch
  PROVE  /\ call.batch \in Batches
         /\ i \in Nat
         /\ call.batch[i] \in Candidate
         /\ call.batch[i].key \in Keys
         /\ call.batch[i].key \in KeysOf(call.batch)
<1>1. call.batch \in Batches
  BY DEF TypeOK, Call, NoBatch
<1>2. call.batch \in Seq(Candidate)
  BY <1>1, ProcessingAssumption
<1>3. call.batch[i] \in Candidate /\ i \in Nat
  BY <1>2
<1>4. QED  BY <1>1, <1>3 DEF Candidate, KeysOf

\* The keys of a batch are keys.
LEMMA KeysOfBatch ==
  ASSUME NEW batch \in Batches \cup {NoBatch}
  PROVE  KeysOf(batch) \subseteq Keys
<1>1. CASE batch \in Batches
  <2>1. batch \in Seq(Candidate)
    BY <1>1, ProcessingAssumption
  <2>2. \A i \in DOMAIN batch : batch[i] \in Candidate
    BY <2>1
  <2>3. QED  BY <2>2 DEF KeysOf, Candidate
<1>2. CASE batch = NoBatch
  BY <1>2 DEF KeysOf, NoBatch
<1>3. QED  BY <1>1, <1>2

\* The decision a call stores is one, and carries an event exactly when it accepts.
LEMMA DecisionFacts ==
  ASSUME TypeOK, CallPlace, call.at = "adjudicate", NEW i \in DOMAIN call.batch
  PROVE  LET d == DecisionOn(call.batch[i]) IN
         /\ d \in Decision
         /\ d.run = R /\ d.key = call.batch[i].key
         /\ \A e, f \in d.events : e = f
<1> DEFINE c == call.batch[i]
           outcome == OutcomeOf(R, call.batch, c, call.decided, call.contract)
           event == [id |-> <<R, c.key>>, occurrence |-> c.occurrence,
                     resolves |-> c.resolves]
<1>1. call.batch \in Batches /\ c \in Candidate
  BY CandidateFacts
<1>2. R \in Runs /\ call.contract \in {"run", "turn"}
  BY DEF CallPlace, TypeOK, Call
<1>3. outcome \in Outcomes
  BY DEF OutcomeOf, Verdict, Outcomes
<1>4. event \in Event
  BY <1>1, <1>2 DEF Event, EventIds, Candidate
<1>5. DecisionOn(c) =
        [run |-> R, key |-> c.key, batch |-> call.batch, outcome |-> outcome,
         contract |-> call.contract,
         events |-> IF outcome = "accepted" THEN {event} ELSE {}]
  BY DEF DecisionOn
<1> HIDE DEF c, outcome, event
<1>6. DecisionOn(c).events \in {{}, {event}}
  BY <1>5
<1>7. DecisionOn(c) \in Decision
  BY <1>1, <1>2, <1>3, <1>4, <1>5 DEF Decision, Candidate
<1>8. QED  BY <1>5, <1>6, <1>7 DEF c


\* Decisions are never taken back.
LEMMA DecisionsGrow ==
  ASSUME TypeOK, NEW d \in Decision, decisions' = Append(decisions, d)
  PROVE  /\ Elements(decisions)' = Elements(decisions) \cup {d}
         /\ \A r \in Runs, k \in Keys :
              Stored(r, k)' = IF d.run = r /\ d.key = k
                              THEN Stored(r, k) \cup {d} ELSE Stored(r, k)
<1>1. Elements(Append(decisions, d)) = Elements(decisions) \cup {d}
  BY ElementsAppend DEF TypeOK
<1>2. Elements(decisions)' = Elements(decisions) \cup {d}
  BY <1>1 DEF Elements
<1>3. QED  BY <1>2 DEF Stored, StoredFor

-----------------------------------------------------------------------------
(* Type correctness *)

\* Fields a call may write into its run keep it a run.
LEMMA RunFacts ==
  ASSUME TypeOK, R \in Runs, NEW run \in Run, runs' = [runs EXCEPT ![R] = run]
  PROVE  /\ runs' \in [Runs -> Run]
         /\ runs'[R] = run
         /\ \A r \in Runs \ {R} : runs'[r] = runs[r]
BY DEF TypeOK

\* A frozen run starts with nothing decided.
LEMMA FrozenFacts ==
  ASSUME TypeOK, NEW status \in Statuses, NEW batch \in Batches \cup {NoBatch},
         NEW planned \in BOOLEAN
  PROVE  LET run == Frozen(status, batch, planned) IN
         /\ run \in Run
         /\ run.status = status /\ run.batch = batch /\ run.planned = planned
         /\ run.decided = {} /\ run.accepted = {} /\ run.reflected = {}
<1>1. Len(direct) \in Nat /\ Len(decisions) \in Nat
  BY DEF TypeOK
<1>2. Absent \in Run /\ Absent.decided = {} /\ Absent.accepted = {}
      /\ Absent.reflected = {}
  BY DEF Absent, Run, Statuses
<1> DEFINE run == Frozen(status, batch, planned)
<1>3. run.status = status /\ run.batch = batch /\ run.planned = planned
      /\ run.directBase = Len(direct) /\ run.decisionBase = Len(decisions)
      /\ run.decided = {} /\ run.accepted = {} /\ run.reflected = {}
  BY <1>2 DEF Frozen, Run
<1>4. run \in Run
  BY <1>1, <1>2 DEF Frozen, Run
<1>5. QED  BY <1>3, <1>4

\* A call that moves within its batch is a call.
LEMMA CallFacts ==
  ASSUME TypeOK
  PROVE  /\ Idle \in Call
         /\ \A at \in {"adjudicate", "advance", "reflect", "record", "raised"},
               decided \in SUBSET Keys, cursor \in Nat,
               batch \in Batches \cup {NoBatch} :
              [call EXCEPT !.at = at, !.decided = decided, !.cursor = cursor,
                           !.batch = batch] \in Call
<1>1. Idle \in Call
  BY DEF Idle, Call
<1>2. call \in Call
  BY DEF TypeOK
<1>3. QED  BY <1>1, <1>2 DEF Call

\* Every step keeps the types.
LEMMA TypeStep ==
  ASSUME TypeOK, CallPlace, CallProgress, [Next]_vars
  PROVE  TypeOK'
<1> USE DEF TypeOK
<1>0. Idle \in Call /\ call \in Call /\ R \in Runs \cup {NoRun}
  BY CallFacts DEF Call, R
<1>1. \A r \in Runs : runs[r] \in Run
  OBVIOUS
<1>2. ASSUME NEW r \in Runs, Process(r)  PROVE TypeOK'
  <2>1. call' \in Call
    BY <1>0, <1>1, <1>2 DEF Process, Idle, Call, Run
  <2>2. QED  BY <1>2, <2>1 DEF Process
<1>3. CASE ExtractNothing
  <2>1. Frozen("completed", NoBatch, FALSE) \in Run
    BY FrozenFacts DEF Statuses
  <2>2. R \in Runs
    BY <1>3 DEF ExtractNothing, CallPlace
  <2>3. QED  BY <1>0, <1>3, <2>1, <2>2 DEF ExtractNothing, SetRun, Return
<1>4. ASSUME NEW batch \in Batches, Extract(batch)  PROVE TypeOK'
  <2>1. Frozen("extracted", batch, R \in Planned) \in Run
    <3>1. (R \in Planned) \in BOOLEAN
      OBVIOUS
    <3>2. QED  BY <3>1, FrozenFacts DEF Statuses
  <2>2. R \in Runs
    BY <1>4 DEF Extract, CallPlace
  <2>3. call' \in Call
    BY <1>0, <1>4 DEF Extract, Call
  <2>4. QED  BY <1>4, <2>1, <2>2, <2>3 DEF Extract, SetRun
<1>5. ASSUME NEW r \in Runs, NEW batch \in Batches, AdjudicateDirectly(r, batch)
      PROVE  TypeOK'
  <2>1. call' \in Call
    BY <1>0, <1>5 DEF AdjudicateDirectly, Idle, Call
  <2>2. QED  BY <1>5, <2>1 DEF AdjudicateDirectly
<1>6. ASSUME NEW i \in DOMAIN call.batch, Decide(i)  PROVE TypeOK'
  <2>1. DecisionOn(call.batch[i]) \in Decision
    BY <1>6, DecisionFacts DEF Decide
  <2>2. decisions' \in Seq(Decision)
    BY <1>6, <2>1 DEF Decide
  <2>3. call.batch[i].key \in Keys /\ i \in Nat
    BY CandidateFacts
  <2>4. call' \in Call
    BY <1>0, <1>6, <2>3 DEF Decide, Call
  <2>5. QED  BY <1>6, <2>2, <2>4 DEF Decide
<1>7. CASE RecordDecisions
  <2>1. R \in Runs /\ call.batch \in Batches
    BY <1>7 DEF RecordDecisions, CallPlace
  <2> DEFINE accepted == {record.key : record \in
                            {d \in StoredFor(R) : d.key \in call.decided
                                                  /\ d.outcome = "accepted"}}
             run == [runs[R] EXCEPT !.status = "adjudicated",
                       !.decided = KeysOf(call.batch), !.accepted = accepted]
  <2>2. accepted \subseteq Keys
    BY <1>0 DEF Call
  <2>3. KeysOf(call.batch) \subseteq Keys
    BY <2>1, KeysOfBatch
  <2>4. run \in Run
    <3>1. runs[R] \in Run
      BY <1>1, <2>1
    <3> HIDE DEF accepted
    <3>2. QED  BY <2>2, <2>3, <3>1 DEF Run, Statuses
  <2>5. runs' = [runs EXCEPT ![R] = run]
    BY <1>7 DEF RecordDecisions, SetRun
  <2>6. call' \in Call
    BY <1>0, <1>7 DEF RecordDecisions, Goto, Call
  <2> HIDE DEF run
  <2>7. QED  BY <1>7, <2>1, <2>4, <2>5, <2>6 DEF RecordDecisions
<1>8. CASE AdjudicationFails
  <2>1. R \in Runs
    BY <1>8 DEF AdjudicationFails, CallPlace
  <2>2. [runs[R] EXCEPT !.status = "failed"] \in Run
    BY <1>1, <2>1 DEF Run, Statuses
  <2>3. QED  BY <1>0, <1>8, <2>1, <2>2 DEF AdjudicationFails, SetRun, Return
<1>9. CASE AdvanceAfterAdjudication
  <2>1. R \in Runs
    BY <1>9 DEF AdvanceAfterAdjudication, CallPlace
  <2>2. \A st \in Statuses : [runs[R] EXCEPT !.status = st] \in Run
    BY <1>1, <2>1 DEF Run
  <2>3. [runs[R] EXCEPT !.status = "completed"] \in Run
        /\ [runs[R] EXCEPT !.status = "reflection_pending"] \in Run
    BY <2>2 DEF Statuses
  <2>4. call' \in Call
    <3>1. [call EXCEPT !.at = "reflect", !.cursor = 0] \in Call
      BY <1>0 DEF Call
    <3>2. QED  BY <1>0, <1>9, <3>1 DEF AdvanceAfterAdjudication, Goto, Return
  <2>5. QED  BY <1>9, <2>1, <2>3, <2>4 DEF AdvanceAfterAdjudication, SetRun
<1>10. ASSUME NEW k \in Keys, R \in Runs
       PROVE  [runs[R] EXCEPT !.status = "reflection_pending",
                              !.reflected = @ \cup {k}, !.failures = {}] \in Run
  BY <1>1, <1>10 DEF Run, Statuses
<1>11. ASSUME NEW i \in DOMAIN call.batch, SkipReflected(i)  PROVE TypeOK'
  <2>1. R \in Runs /\ i \in Nat /\ call.batch[i].key \in Keys
    BY <1>11, CandidateFacts DEF SkipReflected, CallPlace
  <2>2. call' \in Call
    BY <1>0, <1>11, <2>1 DEF SkipReflected, Call
  <2>3. runs' \in [Runs -> Run]
    BY <1>10, <1>11, <2>1 DEF SkipReflected, RecordReflectionOutcome, SetRun
  <2>4. QED  BY <1>11, <2>2, <2>3 DEF SkipReflected
<1>12. ASSUME NEW i \in DOMAIN call.batch, Reflect(i)  PROVE TypeOK'
  <2>1. R \in Runs /\ i \in Nat /\ call.batch[i].key \in Keys
    BY <1>12, CandidateFacts DEF Reflect, CallPlace
  <2>2. call' \in Call
    BY <1>0, <1>12, <2>1 DEF Reflect, Call
  <2>3. reflections' \subseteq Reflection
    <3>1. [run |-> R, key |-> call.batch[i].key, id |-> ""] \in Reflection
      BY <2>1 DEF Reflection
    <3>2. QED  BY <1>12, <3>1 DEF Reflect
  <2>4. QED  BY <1>12, <2>2, <2>3 DEF Reflect
<1>13. CASE RecordReflection
  <2>1. R \in Runs /\ call.batch[call.cursor].key \in Keys
    BY <1>13, CandidateFacts DEF RecordReflection, CallPlace, CallProgress
  <2>2. call' \in Call
    BY <1>0, <1>13 DEF RecordReflection, Call
  <2>3. runs' \in [Runs -> Run]
    BY <1>10, <1>13, <2>1 DEF RecordReflection, RecordReflectionOutcome, SetRun
  <2>4. QED  BY <1>13, <2>2, <2>3 DEF RecordReflection
<1>14. ASSUME NEW i \in DOMAIN call.batch, ReflectionFails(i)  PROVE TypeOK'
  <2>1. R \in Runs /\ call.batch[i].key \in Keys
    BY <1>14, CandidateFacts DEF ReflectionFails, CallPlace
  <2>2. [runs[R] EXCEPT !.status = "partial_failed",
                        !.failures = @ \cup {call.batch[i].key}] \in Run
    BY <1>1, <2>1 DEF Run, Statuses
  <2>3. QED
    BY <1>0, <1>14, <2>1, <2>2 DEF ReflectionFails, SetRun, AfterFailure, Return
<1>15. CASE CompleteReflections
  <2>1. R \in Runs
    BY <1>15 DEF CompleteReflections, CallPlace
  <2>2. [runs[R] EXCEPT !.status = "completed", !.failures = {}] \in Run
    BY <1>1, <2>1 DEF Run, Statuses
  <2>3. QED  BY <1>0, <1>15, <2>1, <2>2 DEF CompleteReflections, SetRun, Return
<1>16. ASSUME NEW r \in Runs, NEW k \in Keys, NEW id \in Interpretations,
              Interpret(r, k, id)
       PROVE  TypeOK'
  <2>1. [run |-> r, key |-> k, id |-> id] \in Reflection
    BY <1>16 DEF Reflection
  <2>2. QED  BY <1>16, <2>1 DEF Interpret
<1>17. ASSUME NEW event \in DirectEvents, RecordEvent(event)  PROVE TypeOK'
  BY <1>17 DEF RecordEvent
<1>18. CASE Leave
  BY <1>0, <1>18 DEF Leave, Return
<1>19. CASE UNCHANGED vars
  BY <1>19 DEF vars
<1>20. QED
  BY <1>2, <1>3, <1>4, <1>5, <1>6, <1>7, <1>8, <1>9, <1>11, <1>12, <1>13, <1>14,
     <1>15, <1>16, <1>17, <1>18, <1>19 DEF Next

-----------------------------------------------------------------------------
(* Every step keeps the runs, and the call, in agreement with the journals. *)

\* What one step has to show.
StepOK == RunInv' /\ CallPlace' /\ CallProgress' /\ \A r \in Runs : Progresses(r)

\* A run that is not written stays as it should be while the journals grow.
LEMMA Undisturbed ==
  ASSUME IInv, NEW r \in Runs, runs'[r] = runs[r],
         Elements(decisions) \subseteq Elements(decisions)',
         reflections \subseteq reflections',
         \A x \in reflections' \ reflections :
           x.run = r => x.key \in runs[r].accepted /\ runs[r].planned
  PROVE  RunOK(r)' /\ Progresses(r)
<1>1. RunOK(r)
  BY DEF IInv, RunInv
<1>2. \A k \in Keys : Stored(r, k) \subseteq Stored(r, k)'
  BY DEF Stored, StoredFor
<1>3. runs[r].decided \subseteq Keys
  BY DEF IInv, TypeOK, Run
<1>4. DecidedWhole(r)'
  BY <1>1, <1>2, <1>3 DEF RunOK, DecidedWhole
<1>5. ReflectedWhole(r)'
  <2>1. \A k : Reflected(r, k) => Reflected(r, k)'
    BY DEF Reflected
  <2>2. ReflectedWhole(r)
    BY <1>1 DEF RunOK
  <2>3. ASSUME NEW x \in reflections', x.run = r
        PROVE  x.key \in runs[r].accepted /\ runs[r].planned
    <3>1. CASE x \in reflections
      BY <2>2, <2>3, <3>1 DEF ReflectedWhole
    <3>2. CASE x \notin reflections
      BY <2>3, <3>2
    <3>3. QED  BY <3>1, <3>2
  <2>4. QED  BY <2>1, <2>2, <2>3 DEF ReflectedWhole
<1>6. QED  BY <1>1, <1>4, <1>5 DEF RunOK, Progresses

\* A step that writes no run.
LEMMA NoRunWritten ==
  ASSUME IInv, runs' = runs,
         Elements(decisions) \subseteq Elements(decisions)',
         reflections \subseteq reflections',
         \A x \in reflections' \ reflections :
           x.key \in runs[x.run].accepted /\ runs[x.run].planned
  PROVE  RunInv' /\ \A r \in Runs : Progresses(r)
BY Undisturbed DEF RunInv

\* A step that writes nothing but the run of its call.
LEMMA OneRunWritten ==
  ASSUME IInv, NEW o \in Runs, NEW run \in Run, runs' = [runs EXCEPT ![o] = run],
         UNCHANGED <<decisions, reflections>>,
         RunOK(o)', Progresses(o)
  PROVE  RunInv' /\ \A r \in Runs : Progresses(r)
<1>1. \A r \in Runs \ {o} : runs'[r] = runs[r]
  BY DEF IInv, TypeOK
<1>2. Elements(decisions) \subseteq Elements(decisions)'
  BY DEF Elements
<1>3. \A r \in Runs \ {o} : RunOK(r)' /\ Progresses(r)
  BY <1>1, <1>2, Undisturbed
<1>4. QED  BY <1>3 DEF RunInv

\* A call that has ended owes nothing.
LEMMA Idles ==
  ASSUME Return
  PROVE  CallPlace' /\ CallProgress'
BY DEF Return, Idle, CallPlace, CallProgress

\* The call's run is one of the runs, and is as it should be.
LEMMA WorksOnRun ==
  ASSUME IInv, call.at # "idle"
  PROVE  \E o \in Runs : o = R /\ runs[o] \in Run /\ RunOK(o)
BY DEF IInv, CallPlace, RunInv, TypeOK

\* A run that is frozen starts with nothing.
LEMMA FreezeStep ==
  ASSUME IInv, call.at = "extract", NEW o \in Runs, o = R,
         NEW status \in {"completed", "extracted"}, NEW planned \in BOOLEAN,
         NEW batch \in Batches \cup {NoBatch},
         status = "extracted" => batch \in Batches,
         status = "completed" => batch = NoBatch /\ ~planned,
         SetRun(Frozen(status, batch, planned)),
         UNCHANGED <<decisions, reflections>>
  PROVE  RunInv' /\ (\A r \in Runs : Progresses(r))
         /\ runs'[o].batch = batch /\ runs'[o].status = status
<1> DEFINE run == Frozen(status, batch, planned)
<1>1. /\ run \in Run
      /\ run.status = status /\ run.batch = batch /\ run.planned = planned
      /\ run.decided = {} /\ run.accepted = {} /\ run.reflected = {}
  BY FrozenFacts DEF IInv, Statuses
<1> HIDE DEF run
<1>2. runs' = [runs EXCEPT ![o] = run] /\ runs'[o] = run
  BY DEF SetRun, run, IInv, TypeOK
<1>3. /\ runs[o].status = "absent"
      /\ runs[o].decided = {} /\ runs[o].accepted = {} /\ runs[o].reflected = {}
      /\ \A x \in reflections : x.run # o
  BY DEF IInv, CallPlace, RunInv, RunOK, DecidedWhole, ReflectedWhole
<1>4. DecidedWhole(o)'
  BY <1>1, <1>2 DEF DecidedWhole
<1>5. ReflectedWhole(o)'
  BY <1>1, <1>2, <1>3 DEF ReflectedWhole
<1>6. RunOK(o)'
  BY <1>1, <1>2, <1>4, <1>5 DEF RunOK
<1>7. Progresses(o)
  BY <1>3 DEF Progresses
<1>8. QED  BY <1>1, <1>2, <1>6, <1>7, OneRunWritten

LEMMA ExtractNothingStep ==
  ASSUME IInv, ExtractNothing
  PROVE  StepOK
<1>1. PICK o \in Runs : o = R
  BY WorksOnRun DEF ExtractNothing
<1>2. RunInv' /\ \A r \in Runs : Progresses(r)
  BY <1>1, FreezeStep DEF ExtractNothing
<1>3. QED  BY <1>2, Idles DEF ExtractNothing, StepOK

LEMMA ExtractStep ==
  ASSUME IInv, NEW batch \in Batches, Extract(batch)
  PROVE  StepOK
<1>1. PICK o \in Runs : o = R
  BY WorksOnRun DEF Extract
<1>2. (o \in Planned) \in BOOLEAN
  OBVIOUS
<1>3. RunInv' /\ (\A r \in Runs : Progresses(r))
      /\ runs'[o].batch = batch /\ runs'[o].status = "extracted"
  BY <1>1, <1>2, FreezeStep DEF Extract
<1>4. /\ call'.at = "adjudicate" /\ call'.batch = batch /\ call'.run = o
      /\ call'.decided = call.decided
  BY <1>1 DEF Extract, IInv, TypeOK, Call, R
<1>5. CallPlace'
  BY <1>3, <1>4 DEF CallPlace, R
<1>6. CallProgress'
  BY <1>4 DEF CallProgress, CallPlace, IInv, Extract
<1>7. QED  BY <1>3, <1>5, <1>6 DEF StepOK

\* A step of the call alone.
LEMMA NothingWritten ==
  ASSUME IInv, UNCHANGED <<runs, decisions, reflections>>
  PROVE  RunInv' /\ \A r \in Runs : Progresses(r)
<1>1. Elements(decisions) \subseteq Elements(decisions)'
  BY DEF Elements
<1>2. QED  BY <1>1, NoRunWritten

\* The positions of a batch start at 1.
LEMMA Positions ==
  ASSUME NEW batch \in Batches \cup {NoBatch}, NEW j \in DOMAIN batch
  PROVE  j \in Nat /\ j > 0
<1>1. CASE batch \in Batches
  <2>1. batch \in Seq(Candidate)
    BY <1>1, ProcessingAssumption
  <2>2. QED  BY <2>1
<1>2. CASE batch = NoBatch
  BY <1>2 DEF NoBatch
<1>3. QED  BY <1>1, <1>2

LEMMA ProcessStep ==
  ASSUME IInv, NEW r \in Runs, Process(r)
  PROVE  StepOK
<1>1. /\ call'.run = r /\ call'.batch = runs[r].batch /\ call'.cursor = 0
      /\ call'.decided = {} /\ call'.contract = "run"
  BY DEF Process, Idle
<1>2. call'.at = CASE runs[r].status = "absent" -> "extract"
                   [] runs[r].status \in {"extracted", "failed"} -> "adjudicate"
                   [] runs[r].status = "adjudicated" -> "advance"
                   [] OTHER -> "reflect"
  BY DEF Process, Idle
<1>3. runs' = runs /\ runs[r] \in Run /\ RunOK(r) /\ runs[r].status # "completed"
  BY DEF Process, MayResume, IInv, TypeOK, RunInv
<1>4. \/ runs[r].status = "absent" /\ call'.at = "extract"
      \/ runs[r].status \in {"extracted", "failed"} /\ call'.at = "adjudicate"
      \/ runs[r].status = "adjudicated" /\ call'.at = "advance"
      \/ runs[r].status \in {"reflection_pending", "partial_failed"}
         /\ call'.at = "reflect"
  BY <1>2, <1>3 DEF Run, Statuses
<1>5. CallPlace'
  BY <1>1, <1>3, <1>4 DEF CallPlace, R, RunOK
<1>6. \A j \in DOMAIN call'.batch : j \in Nat /\ j > 0
  BY <1>1, <1>3, Positions DEF Run
<1>7. CallProgress'
  BY <1>1, <1>4, <1>6 DEF CallProgress
<1>8. QED  BY <1>5, <1>7, NothingWritten DEF Process, StepOK

LEMMA AdjudicateDirectlyStep ==
  ASSUME IInv, NEW r \in Runs, NEW batch \in Batches, AdjudicateDirectly(r, batch)
  PROVE  StepOK
<1>1. /\ call'.at = "adjudicate" /\ call'.run = r /\ call'.batch = batch
      /\ call'.decided = {} /\ call'.contract = "turn"
  BY DEF AdjudicateDirectly, Idle
<1>2. CallPlace' /\ CallProgress'
  BY <1>1 DEF CallPlace, CallProgress, R
<1>3. QED  BY <1>2, NothingWritten DEF AdjudicateDirectly, StepOK

LEMMA DecideStep ==
  ASSUME IInv, NEW i \in DOMAIN call.batch, Decide(i)
  PROVE  StepOK
<1> DEFINE key == call.batch[i].key
<1>1. TypeOK /\ CallPlace /\ CallProgress /\ call.at = "adjudicate" /\ R \in Runs
      /\ call.decided \subseteq Keys /\ key \in Keys /\ call \in Call
  BY CandidateFacts DEF IInv, Decide, CallPlace, TypeOK, Call
<1>2. /\ call'.at = "adjudicate" /\ call'.run = R /\ call'.batch = call.batch
      /\ call'.contract = call.contract /\ call'.decided = call.decided \cup {key}
  BY <1>1 DEF Decide, Call, R
<1>3. /\ Elements(decisions) \subseteq Elements(decisions)'
      /\ \A k \in Keys : Stored(R, k) # {} /\ k # key
                         => {d \in Elements(decisions)' : d.run = R /\ d.key = k} # {}
      /\ {d \in Elements(decisions)' : d.run = R /\ d.key = key} # {}
  <2>1. CASE Stored(R, key) # {} /\ UNCHANGED decisions
    BY <1>1, <2>1 DEF Stored, StoredFor, Elements
  <2>2. CASE decisions' = Append(decisions, DecisionOn(call.batch[i]))
    <3>1. DecisionOn(call.batch[i]) \in Decision
          /\ DecisionOn(call.batch[i]).run = R
          /\ DecisionOn(call.batch[i]).key = key
      BY <1>1, DecisionFacts
    <3>2. Elements(decisions)' = Elements(decisions) \cup {DecisionOn(call.batch[i])}
      BY <1>1, <2>2, <3>1, DecisionsGrow
    <3>3. QED  BY <3>1, <3>2 DEF Stored, StoredFor
  <2>3. QED  BY <2>1, <2>2 DEF Decide
<1>4. RunInv' /\ \A r \in Runs : Progresses(r)
  BY <1>3, NoRunWritten DEF Decide
<1>5. CallPlace'
  BY <1>1, <1>2 DEF CallPlace, Decide, R
<1>6. \A k \in call'.decided :
        k \in KeysOf(call.batch)
        /\ {d \in Elements(decisions)' : d.run = R /\ d.key = k} # {}
  BY <1>1, <1>2, <1>3, CandidateFacts DEF CallProgress
<1>7. CallProgress'
  BY <1>2, <1>6 DEF CallProgress, Stored, StoredFor, R
<1>8. QED  BY <1>4, <1>5, <1>7 DEF StepOK

\* When every candidate is decided, the stored decisions are those of the batch.
LEMMA RecordDecisionsStep ==
  ASSUME IInv, RecordDecisions
  PROVE  StepOK
<1>1. PICK o \in Runs : o = R /\ runs[o] \in Run /\ RunOK(o)
  BY WorksOnRun DEF RecordDecisions
<1>2. /\ call.batch \in Batches /\ runs[o].batch = call.batch
      /\ runs[o].status \in {"extracted", "failed"}
      /\ runs[o].decided = {} /\ runs[o].accepted = {} /\ runs[o].reflected = {}
      /\ \A x \in reflections : x.run # o
  BY <1>1 DEF IInv, CallPlace, RecordDecisions, RunOK, DecidedWhole, ReflectedWhole
<1> DEFINE accepted == {record.key : record \in
                          {d \in StoredFor(o) : d.key \in call.decided
                                                /\ d.outcome = "accepted"}}
           run == [runs[o] EXCEPT !.status = "adjudicated",
                     !.decided = KeysOf(call.batch), !.accepted = accepted]
<1>3. accepted \subseteq Keys /\ KeysOf(call.batch) \subseteq Keys
  BY <1>2, KeysOfBatch DEF IInv, TypeOK, Call
<1>4. runs' = [runs EXCEPT ![o] = run] /\ runs'[o] = run
  BY <1>1 DEF RecordDecisions, SetRun, IInv, TypeOK
<1>5. \A k \in Keys : k \in accepted <=>
        \E d \in Stored(o, k) : k \in call.decided /\ d.outcome = "accepted"
  BY DEF Stored
<1>6. /\ \A k \in KeysOf(call.batch) : k \in call.decided /\ Stored(o, k) # {}
      /\ call.decided \subseteq KeysOf(call.batch)
  BY <1>1 DEF RecordDecisions, AllDecided, Open, KeysOf, IInv, CallProgress
<1>7. \A d \in StoredFor(o) : Elements(d.batch) = Elements(call.batch)
  BY <1>1 DEF RecordDecisions, Conflict
<1>8. \A k \in KeysOf(call.batch) :
        \E d \in Stored(o, k) : Elements(d.batch) = Elements(call.batch)
                                /\ (d.outcome = "accepted" <=> k \in accepted)
  <2>1. SUFFICES ASSUME NEW k \in KeysOf(call.batch)
                 PROVE  \E d \in Stored(o, k) :
                          Elements(d.batch) = Elements(call.batch)
                          /\ (d.outcome = "accepted" <=> k \in accepted)
    OBVIOUS
  <2>2. \A d \in Stored(o, k) : Elements(d.batch) = Elements(call.batch)
    BY <1>7 DEF Stored
  <2>3. CASE k \in accepted
    BY <1>3, <1>5, <2>2, <2>3
  <2>4. CASE k \notin accepted
    BY <1>3, <1>5, <1>6, <2>2, <2>4
  <2>5. QED  BY <2>3, <2>4
<1> HIDE DEF accepted
<1>9. /\ run \in Run /\ run.status = "adjudicated" /\ run.batch = call.batch
      /\ run.decided = KeysOf(call.batch) /\ run.accepted = accepted
      /\ run.reflected = {} /\ run.planned = runs[o].planned
      /\ run.directBase = runs[o].directBase /\ run.decisionBase = runs[o].decisionBase
  BY <1>1, <1>2, <1>3 DEF Run, Statuses
<1> HIDE DEF run
<1>10. DecidedWhole(o)'
  <2>1. call.batch # NoBatch
    BY <1>2, ProcessingAssumption DEF NoBatch
  <2>2. \A k \in Keys : Stored(o, k)' = Stored(o, k)
    BY DEF RecordDecisions, Stored, StoredFor, Elements
  <2>3. \A k \in KeysOf(call.batch) :
          \E d \in Stored(o, k)' : Elements(d.batch) = Elements(call.batch)
                                   /\ (d.outcome = "accepted" <=> k \in accepted)
    BY <1>3, <1>8, <2>2
  <2>4. accepted \subseteq KeysOf(call.batch)
    BY <1>3, <1>5, <1>6
  <2>5. QED  BY <1>4, <1>9, <2>1, <2>3, <2>4 DEF DecidedWhole
<1>11. ReflectedWhole(o)'
  BY <1>2, <1>4, <1>9 DEF ReflectedWhole, RecordDecisions
<1>12. RunOK(o)'
  BY <1>2, <1>4, <1>9, <1>10, <1>11 DEF RunOK
<1>13. Progresses(o)
  BY <1>2, <1>4, <1>9 DEF Progresses
<1>14. RunInv' /\ \A r \in Runs : Progresses(r)
  BY <1>4, <1>9, <1>12, <1>13, OneRunWritten DEF RecordDecisions
<1>15. call'.at = "advance" /\ call'.run = o /\ call'.batch = call.batch
  BY <1>1 DEF RecordDecisions, Goto, IInv, TypeOK, Call, R
<1>16. CallPlace' /\ CallProgress'
  BY <1>2, <1>4, <1>9, <1>15 DEF CallPlace, CallProgress, R
<1>17. QED  BY <1>14, <1>16 DEF StepOK

LEMMA AdjudicationFailsStep ==
  ASSUME IInv, AdjudicationFails
  PROVE  StepOK
<1>1. PICK o \in Runs : o = R /\ runs[o] \in Run /\ RunOK(o)
  BY WorksOnRun DEF AdjudicationFails
<1>2. /\ runs[o].status \in {"extracted", "failed"}
      /\ runs[o].decided = {} /\ runs[o].accepted = {} /\ runs[o].reflected = {}
      /\ \A x \in reflections : x.run # o
  BY <1>1 DEF IInv, CallPlace, AdjudicationFails, RunOK, DecidedWhole, ReflectedWhole
<1> DEFINE run == [runs[o] EXCEPT !.status = "failed"]
<1>3. runs' = [runs EXCEPT ![o] = run] /\ runs'[o] = run
  BY <1>1 DEF AdjudicationFails, SetRun, IInv, TypeOK
<1>4. /\ run \in Run /\ run.status = "failed" /\ run.batch = runs[o].batch
      /\ run.decided = {} /\ run.accepted = {} /\ run.reflected = {}
      /\ run.planned = runs[o].planned
      /\ run.directBase = runs[o].directBase /\ run.decisionBase = runs[o].decisionBase
  BY <1>1, <1>2 DEF Run, Statuses
<1> HIDE DEF run
<1>5. DecidedWhole(o)' /\ ReflectedWhole(o)'
  BY <1>2, <1>3, <1>4 DEF DecidedWhole, ReflectedWhole, AdjudicationFails
<1>6. RunOK(o)' /\ Progresses(o)
  BY <1>1, <1>2, <1>3, <1>4, <1>5 DEF RunOK, Progresses
<1>7. RunInv' /\ \A r \in Runs : Progresses(r)
  BY <1>3, <1>4, <1>6, OneRunWritten DEF AdjudicationFails
<1>8. QED  BY <1>7, Idles DEF AdjudicationFails, StepOK

LEMMA AdvanceStep ==
  ASSUME IInv, AdvanceAfterAdjudication
  PROVE  StepOK
<1>1. PICK o \in Runs : o = R /\ runs[o] \in Run /\ RunOK(o)
  BY WorksOnRun DEF AdvanceAfterAdjudication
<1>2. runs[o].status = "adjudicated" /\ runs[o].reflected = {}
      /\ runs[o].batch \in Batches
  BY <1>1 DEF IInv, CallPlace, AdvanceAfterAdjudication, RunOK
<1>3. PICK status \in {"completed", "reflection_pending"} :
        /\ runs' = [runs EXCEPT ![o] = [runs[o] EXCEPT !.status = status]]
        /\ status = "completed" =>
             Return /\ (runs[o].accepted = {} \/ ~runs[o].planned)
        /\ status = "reflection_pending" =>
             Goto("reflect") /\ runs[o].accepted # {} /\ runs[o].planned
  BY <1>1 DEF AdvanceAfterAdjudication, SetRun
<1> DEFINE run == [runs[o] EXCEPT !.status = status]
<1>4. runs' = [runs EXCEPT ![o] = run] /\ runs'[o] = run
  BY <1>1, <1>3 DEF IInv, TypeOK
<1>5. /\ run \in Run /\ run.status = status /\ run.batch = runs[o].batch
      /\ run.decided = runs[o].decided /\ run.accepted = runs[o].accepted
      /\ run.reflected = {} /\ run.planned = runs[o].planned
      /\ run.directBase = runs[o].directBase /\ run.decisionBase = runs[o].decisionBase
  BY <1>1, <1>2 DEF Run, Statuses
<1> HIDE DEF run
<1>6. DecidedWhole(o)'
  <2>1. \A k \in Keys : Stored(o, k)' = Stored(o, k)
    BY DEF AdvanceAfterAdjudication, Stored, StoredFor, Elements
  <2>2. runs[o].batch # NoBatch /\ runs[o].decided \subseteq Keys
    BY <1>1, <1>2, ProcessingAssumption DEF NoBatch, Run
  <2>3. QED
    BY <1>1, <1>2, <1>4, <1>5, <2>1, <2>2 DEF DecidedWhole, RunOK
<1>7. ReflectedWhole(o)'
  BY <1>1, <1>2, <1>3, <1>4, <1>5
     DEF ReflectedWhole, RunOK, AdvanceAfterAdjudication
<1>8. RunOK(o)' /\ Progresses(o)
  BY <1>1, <1>2, <1>3, <1>4, <1>5, <1>6, <1>7 DEF RunOK, Progresses
<1>9. RunInv' /\ \A r \in Runs : Progresses(r)
  BY <1>4, <1>5, <1>8, OneRunWritten DEF AdvanceAfterAdjudication
<1>10. CallPlace' /\ CallProgress'
  <2>1. CASE status = "completed"
    BY <1>3, <2>1, Idles
  <2>2. CASE status = "reflection_pending"
    <3>1. /\ call'.at = "reflect" /\ call'.run = o /\ call'.batch = call.batch
          /\ call'.cursor = 0
      BY <1>1, <1>3, <2>2 DEF Goto, IInv, TypeOK, Call, R
    <3>2. call.batch = runs[o].batch
      BY <1>1 DEF IInv, CallPlace, AdvanceAfterAdjudication
    <3>3. CallPlace'
      BY <1>2, <1>4, <1>5, <2>2, <3>1, <3>2 DEF CallPlace, R
    <3>4. \A j \in DOMAIN call'.batch : j \in Nat /\ j > 0
      BY <1>2, <3>1, <3>2, Positions
    <3>5. CallProgress'
      BY <3>1, <3>4 DEF CallProgress
    <3>6. QED  BY <3>3, <3>5
  <2>3. QED  BY <2>1, <2>2
<1>11. QED  BY <1>9, <1>10 DEF StepOK

\* What the reflection stage writes into its run changes nothing but what was
\* reflected on and the status.
LEMMA ReflectionStage ==
  ASSUME IInv, call.at \in {"reflect", "record"}, NEW o \in Runs, o = R,
         NEW run \in Run, runs' = [runs EXCEPT ![o] = run],
         run.status \in {"reflection_pending", "partial_failed", "completed"},
         run.batch = runs[o].batch, run.planned = runs[o].planned,
         run.directBase = runs[o].directBase, run.decisionBase = runs[o].decisionBase,
         run.decided = runs[o].decided, run.accepted = runs[o].accepted,
         runs[o].reflected \subseteq run.reflected,
         run.reflected \subseteq run.accepted,
         \A k \in run.reflected : Reflected(o, k),
         run.status = "completed" => run.reflected = run.accepted,
         UNCHANGED <<decisions, reflections>>
  PROVE  RunInv' /\ (\A r \in Runs : Progresses(r)) /\ runs'[o] = run
<1>1. runs[o] \in Run /\ RunOK(o) /\ runs'[o] = run
  BY DEF IInv, RunInv, TypeOK
<1>2. runs[o].status \in {"reflection_pending", "partial_failed"}
      /\ runs[o].batch \in Batches /\ runs[o].batch # NoBatch
  BY <1>1, ProcessingAssumption DEF IInv, CallPlace, RunOK, NoBatch
<1>3. DecidedWhole(o)'
  <2>1. \A k \in Keys : Stored(o, k)' = Stored(o, k)
    BY DEF Stored, StoredFor, Elements
  <2>2. runs[o].decided \subseteq Keys
    BY <1>1 DEF Run
  <2>3. QED  BY <1>1, <1>2, <2>1, <2>2 DEF DecidedWhole, RunOK
<1>4. ReflectedWhole(o)'
  <2>1. \A k \in run.reflected : Reflected(o, k)'
    BY DEF Reflected
  <2>2. QED  BY <1>1, <1>2, <2>1 DEF ReflectedWhole, RunOK
<1>5. RunOK(o)' /\ Progresses(o)
  BY <1>1, <1>2, <1>3, <1>4 DEF RunOK, Progresses
<1>6. QED  BY <1>1, <1>5, OneRunWritten

\* Recording that a stored reflection decision is there.
LEMMA OutcomeRecorded ==
  ASSUME IInv, call.at \in {"reflect", "record"}, NEW o \in Runs, o = R,
         NEW k \in Keys, k \in runs[o].accepted, Reflected(o, k),
         RecordReflectionOutcome(k), UNCHANGED <<decisions, reflections>>
  PROVE  /\ RunInv' /\ \A r \in Runs : Progresses(r)
         /\ runs'[o].status = "reflection_pending" /\ runs'[o].batch = runs[o].batch
         /\ runs'[o].accepted = runs[o].accepted
         /\ runs'[o].reflected = runs[o].reflected \cup {k}
<1>1. runs[o] \in Run /\ RunOK(o)
  BY DEF IInv, RunInv, TypeOK
<1> DEFINE run == [runs[o] EXCEPT !.status = "reflection_pending",
                                  !.reflected = @ \cup {k}, !.failures = {}]
<1>2. /\ run \in Run /\ run.status = "reflection_pending"
      /\ run.batch = runs[o].batch /\ run.planned = runs[o].planned
      /\ run.directBase = runs[o].directBase /\ run.decisionBase = runs[o].decisionBase
      /\ run.decided = runs[o].decided /\ run.accepted = runs[o].accepted
      /\ run.reflected = runs[o].reflected \cup {k}
  BY <1>1 DEF Run, Statuses
<1>3. runs' = [runs EXCEPT ![o] = run]
  BY DEF RecordReflectionOutcome, SetRun
<1> HIDE DEF run
<1>4. \A x \in run.reflected : Reflected(o, x)
  BY <1>1, <1>2 DEF RunOK, ReflectedWhole
<1>5. run.reflected \subseteq run.accepted /\ runs[o].reflected \subseteq run.reflected
  BY <1>1, <1>2 DEF RunOK
<1>6. QED  BY <1>2, <1>3, <1>4, <1>5, ReflectionStage

\* A candidate of the batch to reflect on is accepted, and all before it are done.
LEMMA Reflecting ==
  ASSUME IInv, call.at \in {"reflect", "record"}
  PROVE  \E o \in Runs :
           /\ o = R /\ runs[o] \in Run /\ RunOK(o) /\ runs[o].batch = call.batch
           /\ runs[o].status \in {"reflection_pending", "partial_failed"}
           /\ call.batch \in Batches /\ call.cursor \in Nat
           /\ call.at = "reflect" =>
                \A i \in DOMAIN call.batch :
                  ToReflect(i) =>
                    /\ call.batch[i].key \in runs[o].accepted
                    /\ \A j \in DOMAIN call.batch :
                         j < i /\ call.batch[j].key \in runs[o].accepted
                           => call.batch[j].key \in runs[o].reflected
<1>1. PICK o \in Runs : o = R /\ runs[o] \in Run /\ RunOK(o)
  BY WorksOnRun
<1>2. /\ runs[o].batch = call.batch
      /\ runs[o].status \in {"reflection_pending", "partial_failed"}
      /\ call.batch \in Batches /\ call.cursor \in Nat
  BY <1>1 DEF IInv, CallPlace, TypeOK, Call
<1>3. ASSUME call.at = "reflect", NEW i \in DOMAIN call.batch, ToReflect(i)
      PROVE  /\ call.batch[i].key \in runs[o].accepted
             /\ \A j \in DOMAIN call.batch :
                  j < i /\ call.batch[j].key \in runs[o].accepted
                    => call.batch[j].key \in runs[o].reflected
  <2>1. call.batch[i].key \in runs[o].accepted
    BY <1>1, <1>3 DEF ToReflect, Left
  <2>2. ASSUME NEW j \in DOMAIN call.batch, j < i,
               call.batch[j].key \in runs[o].accepted
        PROVE  call.batch[j].key \in runs[o].reflected
    <3>1. i \in Nat /\ j \in Nat
      BY <1>2, Positions
    <3>2. ~(j > call.cursor)
      BY <1>1, <1>3, <2>2, <3>1 DEF ToReflect, Left
    <3>3. j < call.cursor \/ j = call.cursor
      BY <1>2, <3>1, <3>2
    <3>4. QED  BY <1>1, <1>3, <2>2, <3>3 DEF IInv, CallProgress
  <2>3. QED  BY <2>1, <2>2
<1>4. QED  BY <1>1, <1>2, <1>3

LEMMA SkipReflectedStep ==
  ASSUME IInv, NEW i \in DOMAIN call.batch, SkipReflected(i)
  PROVE  StepOK
<1> DEFINE k == call.batch[i].key
<1>1. PICK o \in Runs :
        /\ o = R /\ runs[o] \in Run /\ RunOK(o) /\ runs[o].batch = call.batch
        /\ runs[o].status \in {"reflection_pending", "partial_failed"}
        /\ call.batch \in Batches
        /\ k \in runs[o].accepted
        /\ \A j \in DOMAIN call.batch :
             j < i /\ call.batch[j].key \in runs[o].accepted
               => call.batch[j].key \in runs[o].reflected
  BY Reflecting DEF SkipReflected
<1>2. k \in Keys /\ Reflected(o, k) /\ call \in Call
  BY <1>1, CandidateFacts DEF SkipReflected, IInv, TypeOK
<1>3. CASE runs' = runs
  <2>1. RunInv' /\ \A r \in Runs : Progresses(r)
    BY <1>3, NothingWritten DEF SkipReflected
  <2>2. \/ k \in runs[o].reflected /\ call' = [call EXCEPT !.cursor = i]
        \/ call' = [call EXCEPT !.at = "raised"]
    <3>1. CASE AlreadyRecorded(k) /\ call' = [call EXCEPT !.cursor = i]
      BY <1>1, <3>1 DEF AlreadyRecorded
    <3>2. CASE call' = [call EXCEPT !.at = "raised"]
      BY <3>2
    <3>3. CASE ~AlreadyRecorded(k) /\ RecordReflectionOutcome(k)
               /\ call' = [call EXCEPT !.cursor = i]
      <4>1. runs'[o].reflected = runs[o].reflected \cup {k}
        BY <1>1, <1>2, <3>3, OutcomeRecorded DEF SkipReflected
      <4>2. QED  BY <1>3, <3>3, <4>1
    <3>4. QED  BY <3>1, <3>2, <3>3 DEF SkipReflected
  <2>3. CASE call' = [call EXCEPT !.at = "raised"]
    <3>1. call'.at = "raised" /\ call'.run = o /\ call'.batch = call.batch
      BY <1>1, <1>2, <2>3 DEF Call, R
    <3>2. CallPlace' /\ CallProgress'
      BY <1>1, <3>1 DEF CallPlace, CallProgress, R
    <3>3. QED  BY <2>1, <3>2 DEF StepOK
  <2>4. CASE k \in runs[o].reflected /\ call' = [call EXCEPT !.cursor = i]
    <3>1. /\ call'.at = "reflect" /\ call'.run = o /\ call'.batch = call.batch
          /\ call'.cursor = i
      BY <1>1, <1>2, <2>4 DEF Call, R, SkipReflected
    <3>2. CallPlace' /\ CallProgress'
      BY <1>1, <1>3, <2>4, <3>1 DEF CallPlace, CallProgress, R
    <3>3. QED  BY <2>1, <3>2 DEF StepOK
  <2>5. QED  BY <2>2, <2>3, <2>4
<1>4. CASE RecordReflectionOutcome(k) /\ call' = [call EXCEPT !.cursor = i]
  <2>1. /\ RunInv' /\ \A r \in Runs : Progresses(r)
        /\ runs'[o].status = "reflection_pending" /\ runs'[o].batch = runs[o].batch
        /\ runs'[o].accepted = runs[o].accepted
        /\ runs'[o].reflected = runs[o].reflected \cup {k}
    BY <1>1, <1>2, <1>4, OutcomeRecorded DEF SkipReflected
  <2>2. /\ call'.at = "reflect" /\ call'.run = o /\ call'.batch = call.batch
        /\ call'.cursor = i
    BY <1>1, <1>2, <1>4 DEF Call, R, SkipReflected
  <2>3. CallPlace' /\ CallProgress'
    BY <1>1, <2>1, <2>2 DEF CallPlace, CallProgress, R
  <2>4. QED  BY <2>1, <2>3 DEF StepOK
<1>5. QED  BY <1>3, <1>4 DEF SkipReflected

LEMMA ReflectStep ==
  ASSUME IInv, NEW i \in DOMAIN call.batch, Reflect(i)
  PROVE  StepOK
<1> DEFINE k == call.batch[i].key
           x == [run |-> R, key |-> k, id |-> ""]
<1>1. PICK o \in Runs :
        /\ o = R /\ runs[o] \in Run /\ RunOK(o) /\ runs[o].batch = call.batch
        /\ runs[o].status \in {"reflection_pending", "partial_failed"}
        /\ call.batch \in Batches
        /\ k \in runs[o].accepted
        /\ \A j \in DOMAIN call.batch :
             j < i /\ call.batch[j].key \in runs[o].accepted
               => call.batch[j].key \in runs[o].reflected
  BY Reflecting DEF Reflect
<1>2. x.run = o /\ x.key = k /\ x.id = "" /\ reflections' = reflections \cup {x}
  BY <1>1 DEF Reflect
<1> HIDE DEF x
<1>3. runs[o].planned /\ runs' = runs
  BY <1>1 DEF RunOK, Reflect
<1>4. Elements(decisions) \subseteq Elements(decisions)'
  BY DEF Reflect, Elements
<1>5. RunInv' /\ \A r \in Runs : Progresses(r)
  BY <1>1, <1>2, <1>3, <1>4, NoRunWritten
<1>6. /\ call'.at = "record" /\ call'.run = o /\ call'.batch = call.batch
      /\ call'.cursor = i
  BY <1>1 DEF Reflect, IInv, TypeOK, Call, R
<1>7. Reflected(o, k)'
  BY <1>2, <1>6 DEF Reflected
<1>8. CallPlace'
  BY <1>1, <1>3, <1>6 DEF CallPlace, R
<1>9. CallProgress'
  BY <1>1, <1>3, <1>6, <1>7 DEF CallProgress, R
<1>10. QED  BY <1>5, <1>8, <1>9 DEF StepOK

LEMMA RecordReflectionStep ==
  ASSUME IInv, RecordReflection
  PROVE  StepOK
<1> DEFINE k == call.batch[call.cursor].key
<1>1. PICK o \in Runs :
        /\ o = R /\ runs[o] \in Run /\ runs[o].batch = call.batch
        /\ runs[o].status \in {"reflection_pending", "partial_failed"}
        /\ call.batch \in Batches
  BY Reflecting DEF RecordReflection
<1>2. /\ call.cursor \in DOMAIN call.batch /\ k \in Keys
      /\ k \in runs[o].accepted /\ Reflected(o, k)
      /\ \A j \in DOMAIN call.batch :
           j < call.cursor /\ call.batch[j].key \in runs[o].accepted
             => call.batch[j].key \in runs[o].reflected
  BY <1>1, CandidateFacts DEF IInv, CallProgress, RecordReflection
<1>3. /\ RunInv' /\ \A r \in Runs : Progresses(r)
      /\ runs'[o].status = "reflection_pending" /\ runs'[o].batch = runs[o].batch
      /\ runs'[o].accepted = runs[o].accepted
      /\ runs'[o].reflected = runs[o].reflected \cup {k}
  BY <1>1, <1>2, OutcomeRecorded DEF RecordReflection
<1>4. /\ call'.at = "reflect" /\ call'.run = o /\ call'.batch = call.batch
      /\ call'.cursor = call.cursor
  BY <1>1 DEF RecordReflection, IInv, TypeOK, Call, R
<1>5. CallPlace' /\ CallProgress'
  BY <1>1, <1>2, <1>3, <1>4 DEF CallPlace, CallProgress, R
<1>6. QED  BY <1>3, <1>5 DEF StepOK

LEMMA ReflectionFailsStep ==
  ASSUME IInv, NEW i \in DOMAIN call.batch, ReflectionFails(i)
  PROVE  StepOK
<1> DEFINE k == call.batch[i].key
<1>1. call.at \in {"reflect", "record"} /\ k \in Keys
  BY CandidateFacts DEF ReflectionFails, IInv
<1>2. PICK o \in Runs : o = R /\ runs[o] \in Run /\ RunOK(o)
  BY <1>1, WorksOnRun
<1> DEFINE run == [runs[o] EXCEPT !.status = "partial_failed",
                                  !.failures = @ \cup {k}]
<1>3. /\ run \in Run /\ run.status = "partial_failed"
      /\ run.batch = runs[o].batch /\ run.planned = runs[o].planned
      /\ run.directBase = runs[o].directBase /\ run.decisionBase = runs[o].decisionBase
      /\ run.decided = runs[o].decided /\ run.accepted = runs[o].accepted
      /\ run.reflected = runs[o].reflected
  BY <1>1, <1>2 DEF Run, Statuses
<1>4. runs' = [runs EXCEPT ![o] = run]
  BY <1>2 DEF ReflectionFails, SetRun
<1> HIDE DEF run
<1>5. run.reflected \subseteq run.accepted /\ \A y \in run.reflected : Reflected(o, y)
  BY <1>2, <1>3 DEF RunOK, ReflectedWhole
<1>6. RunInv' /\ \A r \in Runs : Progresses(r)
  BY <1>1, <1>2, <1>3, <1>4, <1>5, ReflectionStage DEF ReflectionFails
<1>7. QED  BY <1>6, Idles DEF ReflectionFails, AfterFailure, StepOK

\* Nothing left to reflect on means that everything accepted was reflected on.
LEMMA CompleteReflectionsStep ==
  ASSUME IInv, CompleteReflections
  PROVE  StepOK
<1>1. PICK o \in Runs :
        /\ o = R /\ runs[o] \in Run /\ RunOK(o) /\ runs[o].batch = call.batch
        /\ runs[o].status \in {"reflection_pending", "partial_failed"}
        /\ call.batch \in Batches /\ call.cursor \in Nat
  BY Reflecting DEF CompleteReflections
<1>2. runs[o].reflected = runs[o].accepted
  <2>1. /\ runs[o].accepted \subseteq KeysOf(call.batch)
        /\ runs[o].reflected \subseteq runs[o].accepted
    BY <1>1, ProcessingAssumption DEF RunOK, DecidedWhole, NoBatch
  <2>2. ASSUME NEW k \in runs[o].accepted
        PROVE  k \in runs[o].reflected
    <3>1. PICK j \in DOMAIN call.batch : call.batch[j].key = k
      BY <2>1 DEF KeysOf
    <3>2. j \in Nat /\ ~(j > call.cursor)
      BY <1>1, <2>2, <3>1, Positions DEF CompleteReflections, Left
    <3>3. j < call.cursor \/ j = call.cursor
      BY <1>1, <3>2
    <3>4. QED  BY <1>1, <2>2, <3>1, <3>3 DEF IInv, CallProgress, CompleteReflections
  <2>3. QED  BY <2>1, <2>2
<1> DEFINE run == [runs[o] EXCEPT !.status = "completed", !.failures = {}]
<1>3. /\ run \in Run /\ run.status = "completed"
      /\ run.batch = runs[o].batch /\ run.planned = runs[o].planned
      /\ run.directBase = runs[o].directBase /\ run.decisionBase = runs[o].decisionBase
      /\ run.decided = runs[o].decided /\ run.accepted = runs[o].accepted
      /\ run.reflected = runs[o].reflected
  BY <1>1 DEF Run, Statuses
<1>4. runs' = [runs EXCEPT ![o] = run]
  BY <1>1 DEF CompleteReflections, SetRun
<1> HIDE DEF run
<1>5. \A y \in run.reflected : Reflected(o, y)
  BY <1>1, <1>3 DEF RunOK, ReflectedWhole
<1>6. RunInv' /\ \A r \in Runs : Progresses(r)
  BY <1>1, <1>2, <1>3, <1>4, <1>5, ReflectionStage DEF CompleteReflections
<1>7. QED  BY <1>6, Idles DEF CompleteReflections, StepOK

\* An explicit interpretation is about an event that was reflected on.
LEMMA InterpretStep ==
  ASSUME IInv, NEW r \in Runs, NEW k \in Keys, NEW id \in Interpretations,
         Interpret(r, k, id)
  PROVE  StepOK
<1> DEFINE x == [run |-> r, key |-> k, id |-> id]
<1>1. x.run = r /\ x.key = k /\ reflections' = reflections \cup {x}
  BY DEF Interpret
<1> HIDE DEF x
<1>2. k \in runs[r].accepted /\ runs[r].planned
  <2>1. Reflected(r, k) /\ ReflectedWhole(r)
    BY DEF Interpret, IInv, RunInv, RunOK
  <2>2. QED  BY <2>1 DEF Reflected, ReflectedWhole
<1>3. Elements(decisions) \subseteq Elements(decisions)'
  BY DEF Interpret, Elements
<1>4. RunInv' /\ \A o \in Runs : Progresses(o)
  BY <1>1, <1>2, <1>3, NoRunWritten DEF Interpret
<1>5. CallPlace' /\ CallProgress'
  BY DEF Interpret, CallPlace, CallProgress
<1>6. QED  BY <1>4, <1>5 DEF StepOK

LEMMA RecordEventStep ==
  ASSUME IInv, NEW event \in DirectEvents, RecordEvent(event)
  PROVE  StepOK
<1>1. RunInv' /\ \A r \in Runs : Progresses(r)
  BY NothingWritten DEF RecordEvent
<1>2. CallPlace' /\ CallProgress'
  BY DEF RecordEvent, CallPlace, CallProgress
<1>3. QED  BY <1>1, <1>2 DEF StepOK

\* Every step but stuttering.
LEMMA NextStep ==
  ASSUME IInv, Next
  PROVE  StepOK
<1>1. ASSUME Leave  PROVE StepOK
  BY <1>1, NothingWritten, Idles DEF Leave, StepOK
<1>2. QED
  BY <1>1, ProcessStep, ExtractNothingStep, ExtractStep, AdjudicateDirectlyStep,
     DecideStep, RecordDecisionsStep, AdjudicationFailsStep, AdvanceStep,
     SkipReflectedStep, ReflectStep, RecordReflectionStep, ReflectionFailsStep,
     CompleteReflectionsStep, InterpretStep, RecordEventStep DEF Next

LEMMA StutterStep ==
  ASSUME IInv, UNCHANGED vars
  PROVE  StepOK
<1>1. RunInv' /\ \A r \in Runs : Progresses(r)
  BY NothingWritten DEF vars
<1>2. CallPlace' /\ CallProgress'
  <2>1. call' = call /\ runs' = runs /\ decisions' = decisions
        /\ reflections' = reflections
    BY DEF vars
  <2>2. CallPlace /\ CallProgress
    BY DEF IInv
  <2>3. CallPlace'
    BY <2>1, <2>2 DEF CallPlace, R
  <2>4. \A k : Stored(R, k)' = Stored(R, k) /\ Reflected(R, k)' = Reflected(R, k)
    BY <2>1 DEF Stored, StoredFor, Elements, Reflected, R
  <2>5. CallProgress'
    BY <2>1, <2>2, <2>4 DEF CallProgress, R
  <2>6. QED  BY <2>3, <2>5
<1>3. QED  BY <1>1, <1>2 DEF StepOK

-----------------------------------------------------------------------------
(* Every Promise is settled once. *)

LEMMA SettledStep ==
  ASSUME IInv, [Next]_vars
  PROVE  SettledOnce'
<1>1. TypeOK /\ CallPlace /\ SettledOnce
  BY DEF IInv
<1>2. ASSUME NEW new \in SUBSET Event, History' = History \cup new,
             \A e, f \in new : e = f,
             \A e \in new : MayAppend(e, History)
      PROVE  SettledOnce'
  BY <1>1, <1>2 DEF SettledOnce, MayAppend, Settled
<1>3. ASSUME UNCHANGED <<direct, decisions>>  PROVE SettledOnce'
  <2>1. History' = History
    BY <1>3 DEF History, Elements
  <2>2. QED  BY <1>1, <2>1 DEF SettledOnce
<1>4. ASSUME NEW i \in DOMAIN call.batch, Decide(i)  PROVE SettledOnce'
  <2> DEFINE d == DecisionOn(call.batch[i])
  <2>1. /\ d \in Decision /\ \A e, f \in d.events : e = f
    BY <1>1, <1>4, DecisionFacts DEF Decide
  <2>2. CASE UNCHANGED decisions
    BY <1>3, <1>4, <2>2 DEF Decide
  <2>3. CASE /\ \A e \in d.events : MayAppend(e, History)
             /\ decisions' = Append(decisions, d)
    <3>1. Elements(decisions)' = Elements(decisions) \cup {d}
      BY <1>1, <2>1, <2>3, DecisionsGrow
    <3>2. Elements(direct)' = Elements(direct)
      BY <1>4 DEF Decide, Elements
    <3> HIDE DEF d
    <3>3. History' = History \cup d.events
      BY <3>1, <3>2 DEF History, EventsOf
    <3>4. d.events \in SUBSET Event
      BY <2>1 DEF Decision
    <3>5. QED  BY <1>2, <2>1, <2>3, <3>3, <3>4
  <2>4. QED  BY <1>4, <2>2, <2>3 DEF Decide
<1>5. ASSUME NEW event \in DirectEvents, RecordEvent(event)  PROVE SettledOnce'
  <2>1. event \in Event
    BY ProcessingAssumption
  <2>2. Elements(direct)' = Elements(direct) \cup {event}
    <3>1. Elements(Append(direct, event)) = Elements(direct) \cup {event}
      BY <1>1, ElementsAppend DEF TypeOK
    <3>2. QED  BY <1>5, <3>1 DEF RecordEvent, Elements
  <2>3. Elements(decisions)' = Elements(decisions)
    BY <1>5 DEF RecordEvent, Elements
  <2>4. History' = History \cup {event}
    BY <2>2, <2>3 DEF History, EventsOf
  <2> DEFINE new == {event}
  <2>5. /\ new \in SUBSET Event /\ History' = History \cup new
        /\ \A e, f \in new : e = f
        /\ \A e \in new : MayAppend(e, History)
    BY <1>5, <2>1, <2>4 DEF RecordEvent
  <2> HIDE DEF new
  <2>6. QED  BY <1>2, <2>5
<1>6. CASE UNCHANGED vars
  BY <1>3, <1>6 DEF vars
<1>7. QED
  BY <1>3, <1>4, <1>5, <1>6 DEF Next, Process, ExtractNothing, Extract,
     AdjudicateDirectly, RecordDecisions, AdjudicationFails,
     AdvanceAfterAdjudication, SkipReflected, Reflect, RecordReflection,
     ReflectionFails, CompleteReflections, Interpret, Leave

-----------------------------------------------------------------------------
(* The theorems. *)

LEMMA Initially ==
  ASSUME Init
  PROVE  IInv
<1> USE DEF Init
<1>1. Absent \in Run /\ Absent.status = "absent" /\ Absent.decided = {}
      /\ Absent.accepted = {} /\ Absent.reflected = {}
  BY DEF Absent, Run, Statuses
<1>2. TypeOK
  BY <1>1 DEF TypeOK, Idle, Call
<1>3. RunInv
  BY <1>1 DEF RunInv, RunOK, DecidedWhole, ReflectedWhole
<1>4. CallPlace /\ CallProgress
  BY DEF Idle, CallPlace, CallProgress
<1>5. SettledOnce
  BY DEF SettledOnce, History, Elements, EventsOf
<1>6. QED  BY <1>2, <1>3, <1>4, <1>5 DEF IInv

LEMMA Inductive ==
  ASSUME IInv, [Next]_vars
  PROVE  IInv' /\ \A r \in Runs : Progresses(r)
<1>1. StepOK
  BY NextStep, StutterStep
<1>2. TypeOK'
  BY TypeStep DEF IInv
<1>3. QED  BY <1>1, <1>2, SettledStep DEF StepOK, IInv

\* Every reachable state is well-typed.
THEOREM TypeCorrect == Spec => []TypeOK
<1>1. IInv => TypeOK
  BY DEF IInv
<1>2. QED  BY <1>1, Initially, Inductive, PTL DEF Spec

\* However often runs are interrupted and whatever other calls decide in between, a
\* run that names decisions names those of its whole batch, as they are stored.
THEOREM RunsAreDecidedWhole == Spec => []BatchDecidedWhole
<1>1. IInv => BatchDecidedWhole
  BY DEF IInv, RunInv, RunOK, BatchDecidedWhole
<1>2. QED  BY <1>1, Initially, Inductive, PTL DEF Spec

\* Batches decided against baselines that do not contain each other never settle a
\* Promise twice.
THEOREM PromisesAreSettledOnce == Spec => []SettledOnce
<1>1. IInv => SettledOnce
  BY DEF IInv
<1>2. QED  BY <1>1, Initially, Inductive, PTL DEF Spec

\* A completed run that planned reflection has reflected on all it accepted, and
\* nothing else is ever reflected on.
THEOREM ReflectionsAreComplete == Spec => []ReflectionsComplete
<1>1. IInv => ReflectionsComplete
  BY DEF IInv, RunInv, RunOK, ReflectionsComplete
<1>2. QED  BY <1>1, Initially, Inductive, PTL DEF Spec

\* No step takes back the frozen input, a decision, a reflection or a completed run.
THEOREM ProgressIsKept == Spec => RunsOnlyProgress
<1>1. IInv /\ [Next]_vars => [\A r \in Runs : Progresses(r)]_vars
  BY Inductive
<1>2. QED  BY <1>1, Initially, Inductive, PTL DEF Spec, RunsOnlyProgress

=============================================================================
