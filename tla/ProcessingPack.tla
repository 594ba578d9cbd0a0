---------------------------- MODULE ProcessingPack ----------------------------
(***************************************************************************)
(* What a MemoryPack carries of relationship processing, and what an import *)
(* demands of it.  An export waits for the guard, so it is taken between   *)
(* calls, but calls may have died half-way.  It carries the journals and    *)
(* runs as they are; an import replays every run against the prefixes it   *)
(* was frozen on and checks each reflection against its decision and the   *)
(* Persona Growth it was made under, so growth is added to the state here.  *)
(***************************************************************************)
EXTENDS RelationshipProcessing

CONSTANT PivotalKeys  \* candidates told with a reflection of their own

ASSUME PivotalAssumption == PivotalKeys \subseteq Keys

VARIABLES
  growth,   \* the status of the one Persona Growth proposal
  citing    \* the reflections whose provenance names it as approved

packVars == <<vars, growth, citing>>

GrowthStatuses == {"none", "pending", "approved", "rejected", "revoked"}

PackInit == Init /\ growth = "none" /\ citing = {}

New(new) == new \ reflections

\* _validate_reflection_decision: storage takes a reflection of an event that
\* exactly one decision accepted, and an interpretation of a reflection it has.
AcceptedOnce(id) ==
  Cardinality({n \in DOMAIN decisions : \E e \in decisions[n].events : e.id = id}) = 1
Storable(x) ==
  /\ AcceptedOnce(<<x.run, x.key>>)
  /\ x.id # "" => Reflected(x.run, x.key)

\* Faulty: a proposal counts before a host has approved it.
CiteProposed == citing' = citing \cup
  IF growth \in {"pending", "approved"} THEN New(reflections') ELSE {}

\* _reflection_request: whatever is approved at this moment is the context.
Cite == citing' = citing \cup
  IF growth = "approved" THEN New(reflections') ELSE {}

\* A step of relationship processing.
Step ==
  /\ Next
  /\ \A x \in New(reflections') : Storable(x)
  /\ Cite
  /\ UNCHANGED growth

\* Accepted events that growth can be argued from: reflected on formally, or told
\* with a reflection of their own.  How strong their signals are is left open.
Pivotal == {e \in EventsOf(Elements(decisions)) :
              e.id[2] \in PivotalKeys \/ Reflected(e.id[1], e.id[2])}

\* propose_persona_growth(): the history must support it.
ProposeGrowth ==
  /\ call.at = "idle" /\ growth = "none" /\ Pivotal # {}
  /\ growth' = "pending"
  /\ UNCHANGED <<vars, citing>>

\* decide_persona_growth(): a pending proposal is decided, an approved revoked.
DecideGrowth(status) ==
  /\ call.at = "idle"
  /\ \/ growth = "pending" /\ status \in {"approved", "rejected"}
     \/ growth = "approved" /\ status = "revoked"
  /\ growth' = status
  /\ UNCHANGED <<vars, citing>>

PackNext ==
  \/ Step
  \/ ProposeGrowth
  \/ \E status \in GrowthStatuses : DecideGrowth(status)

PackSpec == PackInit /\ [][PackNext]_packVars

-----------------------------------------------------------------------------
(* The canonical replay of a run *)

\* The order in which a batch is resolved when nothing of it is decided yet.
ResolutionOrder(batch) ==
  LET order[n \in 0..Len(batch)] ==
        IF n = 0 THEN <<>> ELSE
        LET done  == order[n - 1]
            known == {batch[done[m]].key : m \in DOMAIN done}
            open  == Open(batch, known)
            ready == {i \in open : \/ ~(batch[i].needs \subseteq KeysOf(batch))
                                   \/ batch[i].needs \subseteq known}
            after == {i \in ready : done # <<>> => i > done[n - 1]}
            next  == IF after # {} THEN after
                     ELSE IF ready # {} THEN ready ELSE open
        IN  Append(done, CHOOSE i \in next : \A j \in next : i <= j)
  IN  order[Len(batch)]

\* What a candidate becomes on top of what its batch has decided before it.
Replay(r, c, before) ==
  LET run        == runs[r]
      base       == Baseline(r, "run")
      dependable == \A k \in c.needs :
                      \E record \in before : record.key = k /\ record.outcome # "rejected"
      outcome    == IF dependable
                    THEN Verdict(c, base.direct \cup EventsOf(base.decisions \cup before))
                    ELSE "rejected"
  IN  [run |-> r, key |-> c.key, batch |-> run.batch, outcome |-> outcome,
       contract |-> "run",
       events |-> IF outcome = "accepted"
                  THEN {[id |-> <<r, c.key>>, occurrence |-> c.occurrence,
                         resolves |-> c.resolves]}
                  ELSE {}]

\* _reconstruct_batch_records: the decisions a run's batch must have led to.
Canonical(r) ==
  LET batch == runs[r].batch
      order == ResolutionOrder(batch)
      pass[n \in 0..Len(batch)] ==
        IF n = 0 THEN {}
        ELSE LET before == pass[n - 1]
             IN  before \cup {Replay(r, batch[order[n]], before)}
  IN  pass[Len(batch)]

-----------------------------------------------------------------------------
(* What an import verifies *)

\* The decisions a pack holds for the candidates of a run's batch.
Present(r) == {record \in StoredFor(r) : record.key \in KeysOf(runs[r].batch)}

\* The index of the pack: no identity names two decisions or two events, and
\* every event comes from a decision or from the direct journal, in its order.
Structured ==
  /\ \A m, n \in DOMAIN decisions :
       decisions[m].run = decisions[n].run /\ decisions[m].key = decisions[n].key => m = n
  /\ \A m, n \in DOMAIN direct : direct[m].id = direct[n].id => m = n
  /\ \A e, f \in History : e.id = f.id => e = f

\* Both journals are as long as a run's baseline says, and its own decisions
\* come after it.
BaselineStands(r) ==
  /\ runs[r].directBase <= Len(direct) /\ runs[r].decisionBase <= Len(decisions)
  /\ \A record \in Baseline(r, "run").decisions :
       ~(record.run = r /\ record.key \in KeysOf(runs[r].batch))

\* What is decided is the beginning of the canonical replay.
ReplaysAsPrefix(r) ==
  LET batch   == runs[r].batch
      order   == ResolutionOrder(batch)
      present == {n \in DOMAIN order : \E record \in Present(r) : record.key = batch[order[n]].key}
  IN  /\ present = 1..Cardinality(Present(r))
      /\ Present(r) \subseteq Canonical(r)

\* A run names all decisions of its batch and the events they accepted, or none
\* as long as it has not been adjudicated.
NamesItsDecisions(r) ==
  IF runs[r].decided = {}
  THEN runs[r].status \in {"extracted", "failed"}
  ELSE /\ runs[r].decided = KeysOf(runs[r].batch)
       /\ Present(r) = Canonical(r)
       /\ runs[r].accepted = {record.key : record \in
                                {d \in Canonical(r) : d.outcome = "accepted"}}

\* What a run says was reflected on is in the pack, and belongs to it.
NamesItsReflections(r) ==
  /\ \A k \in runs[r].reflected : Reflected(r, k) /\ k \in runs[r].accepted
  /\ runs[r].status = "completed" /\ runs[r].planned =>
       runs[r].reflected = runs[r].accepted

\* Decisions of processing runs are those of runs in the pack.
ReceiptsAreAttached ==
  \A record \in Elements(decisions) :
    record.contract = "run" => record \in Present(record.run)

\* RelationshipProcessingRun accepts its own record: what each status implies.
Constructible(run) ==
  /\ run.failures \subseteq run.accepted
  /\ Cardinality(run.reflected) + Cardinality(run.failures) <= Cardinality(run.accepted)
  /\ ~run.planned => /\ run.reflected = {} /\ run.failures = {}
                     /\ run.status \notin {"reflection_pending", "partial_failed"}
  /\ run.batch = NoBatch => run.status = "completed" /\ run.decided = {} /\ ~run.planned
  /\ run.status \in {"extracted", "failed"} =>
       run.decided = {} /\ run.accepted = {} /\ run.reflected = {} /\ run.failures = {}
  /\ run.status = "adjudicated" =>
       run.decided # {} /\ run.reflected = {} /\ run.failures = {}
  /\ run.status = "reflection_pending" => run.accepted # {} /\ run.failures = {}
  /\ run.status = "partial_failed" => run.accepted # {} /\ run.failures # {}
  /\ run.status = "completed" /\ run.batch # NoBatch =>
       /\ run.decided # {} /\ run.failures = {}
       /\ run.planned => Cardinality(run.reflected) = Cardinality(run.accepted)

\* Without its candidate a direct adjudication cannot be replayed; what it
\* accepted must have verified evidence, which for its batch is known here.
DirectHasEvidence ==
  \A record \in Elements(decisions) :
    record.contract = "turn" /\ record.outcome # "rejected" =>
      \E i \in DOMAIN record.batch : record.batch[i].key = record.key /\ record.batch[i].sound

RunVerifies(r) ==
  /\ Constructible(runs[r])
  /\ BaselineStands(r)
  /\ runs[r].batch # NoBatch => ReplaysAsPrefix(r) /\ NamesItsDecisions(r)
  /\ NamesItsReflections(r)

\* The growth of the pack is supported by events of the pack.
GrowthIsSupported == growth # "none" => Pivotal \subseteq History /\ Pivotal # {}

\* An original reflection is one that its run names.
OriginalIsAttached(x) == x.id = "" => x.key \in runs[x.run].reflected

\* It is bound to the one decision that accepted its event.
BoundToDecision(x) ==
  Cardinality({n \in DOMAIN decisions :
                 /\ \E e \in decisions[n].events : e.id = <<x.run, x.key>>
                 /\ decisions[n].run = x.run /\ decisions[n].outcome = "accepted"}) = 1

\* The growth it was made under is approved, word for word.
CitesStandingGrowth(x) == x \in citing => growth = "approved"

\* A correction comes after the reflection it corrects.
FollowsItsTarget(x) == x.id # "" => Reflected(x.run, x.key)

ReflectionVerifies(x) ==
  /\ OriginalIsAttached(x) /\ BoundToDecision(x)
  /\ CitesStandingGrowth(x) /\ FollowsItsTarget(x)

Importable ==
  /\ Structured /\ GrowthIsSupported
  /\ \A r \in Runs : runs[r].status # "absent" => RunVerifies(r)
  /\ ReceiptsAreAttached /\ DirectHasEvidence
  /\ \A x \in reflections : ReflectionVerifies(x)

-----------------------------------------------------------------------------
(* Properties *)

PackTypeOK ==
  /\ TypeOK
  /\ growth \in GrowthStatuses
  /\ citing \subseteq reflections

\* A host decided itself about a key of the batch that a run has frozen.
Overruled(r) ==
  \E record \in Present(r) : record.contract = "turn"

\* A call ended between storing a reflection and recording it in its run.
Torn(r) ==
  /\ runs[r].status \in {"reflection_pending", "partial_failed"}
  /\ \E k \in runs[r].accepted : Reflected(r, k) /\ k \notin runs[r].reflected

\* Growth that a reflection names was revoked since.
Disowned == growth = "revoked" /\ citing # {}

\* Nothing depends on what depends on something.
Shallow(batch) ==
  \A i, j \in DOMAIN batch : batch[j].key \in batch[i].needs => batch[j].needs = {}

\* Whenever a call has ended, and wherever it died, an export taken then can be
\* imported: unfinished runs have the beginning of their canonical decisions,
\* finished ones all of them and their reflections.  The exceptions are the
\* situations named above, in which the code's own import refuses its export.
RunsTravel ==
  /\ call.at = "idle" /\ ~Disowned
  /\ \A r \in Runs : ~Overruled(r) /\ ~Torn(r) /\ Shallow(runs[r].batch)
  => Importable

\* However often it is interrupted, a batch is decided in one order (docs/adr/0091
\* line 7).  Not so when dependencies are two deep: a decision found by a resumed
\* call counts as resolved at once, so a candidate may come before its turn.
ResolvedInOrder ==
  \A r \in Runs :
    runs[r].batch # NoBatch /\ ~Overruled(r) => ReplaysAsPrefix(r)

\* Decisions stay what they were frozen to be, here and in every copy.
FrozenForGood == DecidedAsFrozen /\ RunsTravel
=============================================================================
