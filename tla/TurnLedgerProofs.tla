-------------------------- MODULE TurnLedgerProofs --------------------------
(***************************************************************************)
(* Proofs about TurnLedger for any number of callers, Turns, outcomes and  *)
(* authorities.  IInv is inductive: every step either only moves one call  *)
(* (CallStep), or writes the ledger once (Creates, Transitions, Appends,   *)
(* Adjudicates), or changes the authorities in force (Decides).  What the  *)
(* other calls settled on survives each of these.                          *)
(***************************************************************************)
EXTENDS TurnLedger, TLAPS

(* Operations and types *)

\* What the operations of each kind carry.
LEMMA OperationShape ==
  ASSUME NEW op \in LifecycleOps \cup OtherOps
  PROVE  /\ op.turn \in TurnIds
         /\ op.kind \in {"begin", "record", "complete", "abandon", "attempt",
                         "adjudicate_source", "adjudicate_turn"}
         /\ op.kind = "begin" => op.opening \in Openings
         /\ op.kind = "record" =>
              op.opening \in Openings /\ \E r \in Replies : op.payload = Recorded(r)
         /\ op.kind = "complete" => op.payload \in Outcomes
         /\ op.kind = "abandon" => op.payload \in Reasons
         /\ op.kind = "attempt" => op.payload \in Attempts
  BY DEF LifecycleOps, OtherOps, Op

\* A payload that ends a Turn is of the kind its status needs.
LEMMA OutcomeIsNoReason ==
  ASSUME NEW o \in Outcome PROVE o \in Payloads /\ o \notin Reasons /\ o # NoPayload
  BY LedgerAssumption DEF Payloads

LEMMA RecordedIsOutcome ==
  ASSUME NEW r \in Replies PROVE Recorded(r) \in Outcome
  BY DEF Recorded, Outcome, Reviews, Dispositions

-----------------------------------------------------------------------------
(* Steps that move one call *)

\* What is true of a call stays true while ledger and authorities do.
LEMMA CallOKIsStable ==
  ASSUME UNCHANGED <<ledger, authority>>, NEW n, CallOK(n)
  PROVE  CallOK(n)'
  BY DEF CallOK, Placed, CreationIsSettled, TransitionIsSettled, AdjudicationIsSettled,
         Truthful, Available, ledger, authority, LifecycleOps, OtherOps

LEMMA CallStep ==
  ASSUME IInv, UNCHANGED <<ledger, authority>>,
         NEW c \in Callers, NEW n \in Call, CallOK(n),
         call' = [call EXCEPT ![c] = n],
         \/ guard' = guard
         \/ guard = c /\ guard' = Nobody
         \/ guard = Nobody /\ guard' = c,
         n.at \in Decisive => guard' = c
  PROVE  IInv'
<1>1. TypeOK'
  BY DEF IInv, TypeOK, ledger, authority, ValidLifecycle
<1>2. \A d \in Callers : call'[d] = IF d = c THEN n ELSE call[d]
  BY DEF IInv, TypeOK
<1>3. GuardIsHeld'
  BY <1>2, LedgerAssumption DEF IInv, GuardIsHeld, At
<1>4. \A d \in Callers : CallOK(call'[d])
  BY <1>2 DEF IInv
<1>5. (\A d \in Callers : CallOK(call[d]))'
  BY <1>4, CallOKIsStable
<1>6. (TurnIdentityIsCanonical /\ AttemptNumbersAreUnique)'
  BY DEF IInv, TurnIdentityIsCanonical, AttemptNumbersAreUnique, ledger
<1> QED
  BY <1>1, <1>3, <1>5, <1>6 DEF IInv

\* A call that returns.
LEMMA FinishStep ==
  ASSUME IInv, UNCHANGED <<ledger, authority>>,
         NEW c \in Callers, At(c) # "idle", NEW result \in Results, Finish(c, result),
         result = "ok" => Truthful([call[c] EXCEPT !.at = "done", !.result = result])
  PROVE  IInv'
<1> DEFINE n == [call[c] EXCEPT !.at = "done", !.result = result]
<1>1. call[c] \in Call /\ CallOK(call[c])
  BY DEF IInv, TypeOK
<1>2. /\ n \in Call /\ n.at = "done" /\ n.result = result /\ n.op = call[c].op
      /\ n.contract = call[c].contract
  BY <1>1 DEF Call, Positions
<1>3. CallOK(n)
  BY <1>1, <1>2 DEF CallOK, Placed, CreationIsSettled, TransitionIsSettled,
     AdjudicationIsSettled, Truthful, At
<1>4. call' = [call EXCEPT ![c] = n]
  BY DEF Finish, IInv, TypeOK, Call
<1>5. guard' = guard \/ (guard = c /\ guard' = Nobody)
  BY DEF Finish
<1> QED
  BY <1>2, <1>3, <1>4, <1>5, CallStep DEF Decisive

\* A refusal claims nothing.
LEMMA RefusalStep ==
  ASSUME IInv, UNCHANGED <<ledger, authority>>,
         NEW c \in Callers, At(c) # "idle", NEW result \in {"refused", "unauthorized"},
         Finish(c, result)
  PROVE  IInv'
  BY FinishStep DEF Results

\* A call that goes on, to a position its operation comes to.
LEMMA MoveStep ==
  ASSUME IInv, UNCHANGED <<ledger, authority, guard>>,
         NEW c \in Callers, NEW n \in Call, CallOK(n),
         call' = [call EXCEPT ![c] = n],
         n.at \in Decisive => guard = c
  PROVE  IInv'
  BY CallStep

-----------------------------------------------------------------------------
(* The actions that write nothing *)

LEMMA CallFacts ==
  ASSUME IInv, NEW c \in Callers
  PROVE  /\ call[c] \in Call /\ CallOK(call[c])
         /\ At(c) # "idle" =>
              /\ call[c].op \in LifecycleOps \cup OtherOps
              /\ Id(c) \in TurnIds /\ Existing(c) \in Turn
              /\ ValidLifecycle(Existing(c))
<1>1. call[c] \in Call /\ CallOK(call[c])
  BY DEF IInv, TypeOK
<1>2. At(c) # "idle" => call[c].op \in LifecycleOps \cup OtherOps
  BY <1>1 DEF CallOK, Placed, At
<1>3. At(c) # "idle" => Id(c) \in TurnIds
  BY <1>2, OperationShape DEF Id
<1> QED
  BY <1>1, <1>2, <1>3 DEF IInv, TypeOK, Existing

LEMMA InvokeKeeps ==
  ASSUME IInv, NEW c \in Callers, NEW op \in Ops, Invoke(c, op) PROVE IInv'
<1> DEFINE n == [IdleCall EXCEPT !.op = op, !.at = "start"]
<1>1. op \in LifecycleOps \cup OtherOps
  BY DEF Ops
<1>2. n \in Call /\ n.at = "start" /\ n.op = op /\ n.contract = "persisted"
  BY <1>1 DEF Call, IdleCall, Positions, Statuses, Baselines, Contracts, Results
<1>3. CallOK(n)
  BY <1>1, <1>2 DEF CallOK, Placed, CreationIsSettled, TransitionIsSettled,
     AdjudicationIsSettled, Truthful
<1> QED
  BY <1>2, <1>3, MoveStep DEF Invoke, Decisive

\* A call that leaves, at its end or by a crash.
LEMMA LeaveKeeps ==
  ASSUME IInv, NEW c \in Callers, Return(c) \/ Crash(c) PROVE IInv'
<1>1. IdleCall \in Call /\ IdleCall.at = "idle"
  BY DEF Call, IdleCall, Positions, Statuses, Baselines, Contracts, Results
<1>2. CallOK(IdleCall)
  BY <1>1 DEF CallOK, Placed, CreationIsSettled, TransitionIsSettled,
     AdjudicationIsSettled, Truthful
<1>3. guard' = guard \/ (guard = c /\ guard' = Nobody)
  BY DEF Return, Crash
<1> QED
  BY <1>1, <1>2, <1>3, CallStep DEF Return, Crash, Decisive

LEMMA EnterKeeps ==
  ASSUME IInv, NEW c \in Callers, Enter(c) PROVE IInv'
<1> DEFINE n == [call[c] EXCEPT !.at = IF @ = "start" THEN "look" ELSE "adjudicate"]
<1>1. call[c] \in Call /\ CallOK(call[c])
  BY CallFacts
<1>2. /\ n \in Call /\ n.op = call[c].op /\ n.contract = call[c].contract
      /\ n.at = IF At(c) = "start" THEN "look" ELSE "adjudicate"
  BY <1>1 DEF Call, Positions, At
<1>3. CallOK(n)
  BY <1>1, <1>2 DEF Enter, CallOK, Placed, CreationIsSettled, TransitionIsSettled,
     AdjudicationIsSettled, Truthful, At, Kind
<1>4. call' = [call EXCEPT ![c] = n]
  BY DEF Enter, IInv, TypeOK, Call
<1> QED
  BY <1>2, <1>3, <1>4, CallStep DEF Enter

\* Moving on to a position that settles nothing.
LEMMA GotoKeeps ==
  ASSUME IInv, UNCHANGED <<ledger, authority>>, NEW c \in Callers,
         NEW position \in Positions, Goto(c, position), At(c) # "idle", position # "done",
         position \in Decisive => guard = c,
         LET n == [call[c] EXCEPT !.at = position] IN
           Placed(n) /\ CreationIsSettled(n) /\ TransitionIsSettled(n)
             /\ AdjudicationIsSettled(n)
  PROVE  IInv'
<1> DEFINE n == [call[c] EXCEPT !.at = position]
<1>1. n \in Call /\ n.at = position
  BY CallFacts DEF Call
<1>2. CallOK(n)
  BY <1>1 DEF CallOK, Truthful
<1>3. call' = [call EXCEPT ![c] = n]
  BY DEF Goto, IInv, TypeOK, Call
<1> HIDE DEF n
<1> QED
  BY <1>1, <1>2, <1>3, MoveStep DEF Goto

LEMMA LookUpKeeps ==
  ASSUME IInv, NEW c \in Callers, LookUp(c) PROVE IInv'
<1>1. /\ call[c] \in Call /\ CallOK(call[c]) /\ At(c) = "look"
      /\ Kind(c) \in {"begin", "record"} /\ Existing(c) \in Turn
      /\ call[c].op \in LifecycleOps \cup OtherOps
  BY CallFacts DEF LookUp
<1>2. guard = c
  BY <1>1 DEF IInv, GuardIsHeld, Decisive
<1>3. CASE Goto(c, "capture")
  <2>1. Placed([call[c] EXCEPT !.at = "capture"])
    BY <1>1 DEF Call, Placed, Kind
  <2> QED
    BY <1>1, <1>2, <1>3, <2>1, GotoKeeps DEF LookUp, Positions, CreationIsSettled,
       TransitionIsSettled, AdjudicationIsSettled, Call
<1>4. CASE /\ Existing(c).status # "absent"
           /\ Kind(c) = "begin" => Existing(c).baseline # NoBaseline
           /\ call' = [call EXCEPT ![c].at = "create",
                ![c].baseline = IF Kind(c) = "begin" THEN Existing(c).baseline
                                                     ELSE NoBaseline]
           /\ UNCHANGED guard
  <2> DEFINE b == IF Kind(c) = "begin" THEN Existing(c).baseline ELSE NoBaseline
             n == [call[c] EXCEPT !.at = "create", !.baseline = b]
  <2>1. b \in Baselines
    BY <1>1 DEF Turn, Baselines
  <2>2. n \in Call /\ n.at = "create" /\ n.op = call[c].op /\ n.baseline = b
    BY <1>1, <2>1 DEF Call, Positions
  <2>3. CallOK(n)
    BY <1>1, <1>4, <2>2 DEF CallOK, Placed, CreationIsSettled, TransitionIsSettled,
       AdjudicationIsSettled, Truthful, Kind, Existing, Id
  <2>4. call' = [call EXCEPT ![c] = n]
    BY <1>4 DEF IInv, TypeOK, Call
  <2> HIDE DEF n
  <2> QED
    BY <1>2, <1>4, <2>2, <2>3, <2>4, MoveStep DEF LookUp
<1>5. CASE Finish(c, "refused")
  BY <1>1, <1>5, RefusalStep DEF LookUp
<1> QED
  BY <1>3, <1>4, <1>5 DEF LookUp

LEMMA CaptureKeeps ==
  ASSUME IInv, NEW c \in Callers, Capture(c) PROVE IInv'
<1>1. /\ call[c] \in Call /\ CallOK(call[c]) /\ At(c) = "capture"
      /\ Kind(c) \in {"begin", "record"}
      /\ call[c].op \in LifecycleOps \cup OtherOps
  BY CallFacts DEF Capture, CallOK, Placed, At, Kind
<1>2. guard = c
  BY <1>1 DEF IInv, GuardIsHeld, Decisive
<1>3. CASE Available(Id(c))
  <2> DEFINE b == IF Kind(c) = "begin" THEN approved ELSE NoBaseline
             n == [call[c] EXCEPT !.at = "create", !.baseline = b]
  <2>1. b \in Baselines
    BY DEF IInv, TypeOK, Baselines
  <2>2. n \in Call /\ n.at = "create" /\ n.op = call[c].op /\ n.baseline = b
    BY <1>1, <2>1 DEF Call, Positions
  <2>3. approved # NoBaseline
    BY LedgerAssumption DEF IInv, TypeOK
  <2>4. CallOK(n)
    BY <1>1, <1>3, <2>2, <2>3 DEF CallOK, Placed, CreationIsSettled, TransitionIsSettled,
       AdjudicationIsSettled, Truthful, Kind, Id
  <2>5. call' = [call EXCEPT ![c] = n]
    BY <1>3 DEF Capture, SourceSnapshot, IInv, TypeOK, Call
  <2> HIDE DEF n
  <2> QED
    BY <1>2, <1>3, <2>2, <2>4, <2>5, MoveStep DEF Capture
<1>4. CASE ~Available(Id(c))
  BY <1>1, <1>4, RefusalStep DEF Capture
<1> QED
  BY <1>3, <1>4

LEMMA ReadToCompleteKeeps ==
  ASSUME IInv, NEW c \in Callers, ReadToComplete(c) PROVE IInv'
<1> DEFINE turn == Existing(c)
           o    == Payload(c)
<1>1. /\ call[c] \in Call /\ CallOK(call[c]) /\ At(c) = "start" /\ Kind(c) = "complete"
      /\ turn \in Turn /\ call[c].op \in LifecycleOps \cup OtherOps
  BY CallFacts DEF ReadToComplete
<1>2. CASE Finish(c, "refused")
  BY <1>1, <1>2, RefusalStep DEF ReadToComplete
<1>3. CASE turn.status = "completed" /\ FinishIf(c, turn.ending = o)
  <2>1. CASE turn.ending = o
    <3>1. Truthful([call[c] EXCEPT !.at = "done", !.result = "ok"])
      BY <1>1, <1>3, <2>1 DEF Truthful, Call, Kind, Payload, Existing, Id
    <3> QED
      BY <1>1, <1>3, <2>1, <3>1, FinishStep DEF ReadToComplete, FinishIf, Results
  <2>2. CASE turn.ending # o
    BY <1>1, <1>3, <2>2, RefusalStep DEF ReadToComplete, FinishIf
  <2> QED
    BY <2>1, <2>2
<1>4. CASE /\ turn.status \in {"open", "abandoned"} /\ Reviewed(o)
           /\ BoundTo(o, turn.baseline)
           /\ call' = [call EXCEPT ![c].at = "check", ![c].seen = turn.status]
           /\ UNCHANGED guard
  <2> DEFINE n == [call[c] EXCEPT !.at = "check", !.seen = turn.status]
  <2>1. n \in Call /\ n.at = "check" /\ n.op = call[c].op
    BY <1>1, <1>4 DEF Call, Positions, Statuses
  <2>2. CallOK(n)
    BY <1>1, <1>4, <2>1 DEF CallOK, Placed, CreationIsSettled, TransitionIsSettled,
       AdjudicationIsSettled, Truthful, Kind, Payload, Existing, Id
  <2>3. call' = [call EXCEPT ![c] = n]
    BY <1>4 DEF IInv, TypeOK, Call
  <2> HIDE DEF n
  <2> QED
    BY <1>4, <2>1, <2>2, <2>3, MoveStep DEF ReadToComplete, Decisive
<1>5. CASE turn.status = "open" /\ ~Reviewed(o) /\ Goto(c, "transition")
  <2>1. LET n == [call[c] EXCEPT !.at = "transition"] IN
          Placed(n) /\ CreationIsSettled(n) /\ TransitionIsSettled(n)
            /\ AdjudicationIsSettled(n)
    BY <1>1, <1>5 DEF Call, Placed, CreationIsSettled, TransitionIsSettled,
       AdjudicationIsSettled, Kind, Payload, Existing, Id
  <2> QED
    BY <1>1, <1>5, <2>1, GotoKeeps DEF ReadToComplete, Positions, Decisive
<1> QED
  BY <1>2, <1>3, <1>4, <1>5 DEF ReadToComplete

LEMMA CheckEvidenceKeeps ==
  ASSUME IInv, NEW c \in Callers, CheckEvidence(c) PROVE IInv'
<1>1. call[c] \in Call /\ CallOK(call[c]) /\ At(c) = "check"
  BY CallFacts DEF CheckEvidence
<1>2. CASE Goto(c, "transition")
  <2>1. LET n == [call[c] EXCEPT !.at = "transition"] IN
          Placed(n) /\ CreationIsSettled(n) /\ TransitionIsSettled(n)
            /\ AdjudicationIsSettled(n)
    BY <1>1 DEF Call, CallOK, Placed, CreationIsSettled, TransitionIsSettled,
       AdjudicationIsSettled, At
  <2> QED
    BY <1>1, <1>2, <2>1, GotoKeeps DEF CheckEvidence, Positions, Decisive
<1>3. CASE Finish(c, "refused") \/ Finish(c, "unauthorized")
  BY <1>1, <1>3, RefusalStep DEF CheckEvidence
<1> QED
  BY <1>2, <1>3 DEF CheckEvidence

\* Found to be the very ending that was asked for.
LEMMA SameEndingKeeps ==
  ASSUME IInv, UNCHANGED <<ledger, authority>>, NEW c \in Callers, At(c) # "idle",
         Kind(c) \in {"complete", "abandon"}, FinishIf(c, SameEnding(c))
  PROVE  IInv'
<1>1. call[c] \in Call
  BY CallFacts
<1>2. CASE SameEnding(c)
  <2>1. Truthful([call[c] EXCEPT !.at = "done", !.result = "ok"])
    BY <1>1, <1>2 DEF Truthful, Call, SameEnding, TerminalStatus, Kind, Payload, Existing, Id
  <2> QED
    BY <1>2, <2>1, FinishStep DEF FinishIf, Results
<1>3. CASE ~SameEnding(c)
  BY <1>3, RefusalStep DEF FinishIf
<1> QED
  BY <1>2, <1>3

LEMMA RereadKeeps ==
  ASSUME IInv, NEW c \in Callers, Reread(c) PROVE IInv'
  BY CallFacts, SameEndingKeeps DEF Reread, CallOK, Placed, At, Kind

LEMMA ReadToAbandonKeeps ==
  ASSUME IInv, NEW c \in Callers, ReadToAbandon(c) PROVE IInv'
<1>1. /\ call[c] \in Call /\ CallOK(call[c]) /\ At(c) = "start" /\ Kind(c) = "abandon"
      /\ call[c].op \in LifecycleOps \cup OtherOps
  BY CallFacts DEF ReadToAbandon
<1>2. CASE Existing(c).status = "open"
  <2>1. LET n == [call[c] EXCEPT !.at = "transition"] IN
          Placed(n) /\ CreationIsSettled(n) /\ TransitionIsSettled(n)
            /\ AdjudicationIsSettled(n)
    BY <1>1, <1>2 DEF Call, Placed, CreationIsSettled, TransitionIsSettled,
       AdjudicationIsSettled, Kind, Existing, Id
  <2> QED
    BY <1>1, <1>2, <2>1, GotoKeeps DEF ReadToAbandon, Positions, Decisive
<1>3. CASE Existing(c).status # "open"
  BY <1>1, <1>3, SameEndingKeeps DEF ReadToAbandon
<1> QED
  BY <1>2, <1>3

LEMMA ReadToAttemptKeeps ==
  ASSUME IInv, NEW c \in Callers, ReadToAttempt(c) PROVE IInv'
<1>1. /\ call[c] \in Call /\ CallOK(call[c]) /\ At(c) = "start" /\ Kind(c) = "attempt"
      /\ call[c].op \in LifecycleOps \cup OtherOps
  BY CallFacts DEF ReadToAttempt
<1>2. CASE Existing(c).status = "open"
  <2>1. LET n == [call[c] EXCEPT !.at = "append"] IN
          Placed(n) /\ CreationIsSettled(n) /\ TransitionIsSettled(n)
            /\ AdjudicationIsSettled(n)
    BY <1>1, <1>2 DEF Call, Placed, CreationIsSettled, TransitionIsSettled,
       AdjudicationIsSettled, Kind, Existing, Id
  <2> QED
    BY <1>1, <1>2, <2>1, GotoKeeps DEF ReadToAttempt, Positions, Decisive
<1>3. CASE Existing(c).status # "open"
  BY <1>1, <1>3, RefusalStep DEF ReadToAttempt
<1> QED
  BY <1>2, <1>3

LEMMA ClassifySourceKeeps ==
  ASSUME IInv, NEW c \in Callers, ClassifySource(c) PROVE IInv'
<1>1. /\ call[c] \in Call /\ CallOK(call[c]) /\ At(c) = "look"
      /\ Kind(c) = "adjudicate_source" /\ call[c].op \in LifecycleOps \cup OtherOps
  BY CallFacts DEF ClassifySource
<1>2. guard = c
  BY <1>1 DEF IInv, GuardIsHeld, Decisive
<1> DEFINE contract == IF Existing(c).status = "absent" THEN "transient" ELSE "persisted"
           n == [call[c] EXCEPT !.at = "adjudicate", !.contract = contract]
<1>3. CASE /\ Existing(c).status \in {"absent", "completed"}
           /\ call' = [call EXCEPT ![c].at = "adjudicate", ![c].contract = contract]
           /\ UNCHANGED guard
  <2>1. n \in Call /\ n.at = "adjudicate" /\ n.op = call[c].op /\ n.contract = contract
    BY <1>1 DEF Call, Positions, Contracts
  <2>2. CallOK(n)
    BY <1>1, <1>3, <2>1 DEF CallOK, Placed, CreationIsSettled, TransitionIsSettled,
       AdjudicationIsSettled, Truthful, Kind, Existing, Id
  <2>3. call' = [call EXCEPT ![c] = n]
    BY <1>3 DEF IInv, TypeOK, Call
  <2> HIDE DEF n
  <2> QED
    BY <1>2, <1>3, <2>1, <2>2, <2>3, MoveStep DEF ClassifySource
<1>4. CASE Finish(c, "refused")
  BY <1>1, <1>4, RefusalStep DEF ClassifySource
<1> QED
  BY <1>3, <1>4 DEF ClassifySource

LEMMA ReadToAdjudicateKeeps ==
  ASSUME IInv, NEW c \in Callers, ReadToAdjudicate(c) PROVE IInv'
<1>1. /\ call[c] \in Call /\ CallOK(call[c]) /\ At(c) = "start"
      /\ Kind(c) = "adjudicate_turn" /\ call[c].op \in LifecycleOps \cup OtherOps
  BY CallFacts DEF ReadToAdjudicate
<1>2. CASE Existing(c).status = "completed"
  <2>1. LET n == [call[c] EXCEPT !.at = "lock"] IN
          Placed(n) /\ CreationIsSettled(n) /\ TransitionIsSettled(n)
            /\ AdjudicationIsSettled(n)
    BY <1>1, <1>2 DEF Call, CallOK, Placed, CreationIsSettled, TransitionIsSettled,
       AdjudicationIsSettled, At, Kind, Existing, Id
  <2> QED
    BY <1>1, <1>2, <2>1, GotoKeeps DEF ReadToAdjudicate, Positions, Decisive
<1>3. CASE Existing(c).status # "completed"
  BY <1>1, <1>3, RefusalStep DEF ReadToAdjudicate
<1> QED
  BY <1>2, <1>3

-----------------------------------------------------------------------------
(* The actions that write *)

\* How one Turn may change: it is created, or the open Turn ends.
Grows(before, after) ==
  \/ after = before
  \/ before.status = "absent" /\ after.status # "absent"
  \/ /\ before.status = "open" /\ after.status \in {"completed", "abandoned"}
     /\ after.opening = before.opening /\ after.baseline = before.baseline

\* What a call settled on survives whatever the others write: Turns only grow,
\* a Turn is created only under the guard, and then no one else decides.
LEMMA CallOKSurvives ==
  ASSUME IInv, UNCHANGED authority, NEW n \in Call, CallOK(n),
         \A t \in TurnIds : Grows(turns[t], turns'[t]) /\ attempts[t] \subseteq attempts'[t],
         adjudicated \subseteq adjudicated',
         n.at \in Decisive \cup {"lock"} /\ turns[n.op.turn].status = "absent" =>
           /\ turns'[n.op.turn].status = "absent"
           /\ adjudicated' = adjudicated
  PROVE  CallOK(n)'
<1>1. n.at # "idle" => n.op \in LifecycleOps \cup OtherOps /\ n.op.turn \in TurnIds
  BY OperationShape DEF CallOK, Placed
<1>2. Placed(n)'
  BY DEF CallOK, Placed, LifecycleOps, OtherOps
<1>3. CreationIsSettled(n)'
  BY <1>1 DEF CallOK, CreationIsSettled, Available, authority, Grows, Decisive
<1>4. TransitionIsSettled(n)'
  BY <1>1 DEF CallOK, TransitionIsSettled, Grows, IInv, TypeOK
<1>5. AdjudicationIsSettled(n)'
  BY <1>1 DEF CallOK, AdjudicationIsSettled, Grows, Decisive
<1>6. Truthful(n)'
  BY <1>1 DEF CallOK, Truthful, Grows, Placed
<1> QED
  BY <1>2, <1>3, <1>4, <1>5, <1>6 DEF CallOK

LEMMA WriteStep ==
  ASSUME IInv, UNCHANGED authority, NEW c \in Callers, At(c) # "idle", Finish(c, "ok"),
         \A t \in TurnIds : Grows(turns[t], turns'[t]) /\ attempts[t] \subseteq attempts'[t],
         adjudicated \subseteq adjudicated',
         (\E t \in TurnIds : turns[t].status = "absent" /\ turns'[t].status # "absent")
           \/ adjudicated' # adjudicated => guard = c,
         turns' \in [TurnIds -> Turn], \A t \in TurnIds : ValidLifecycle(turns'[t]),
         attempts' \in [TurnIds -> SUBSET Attempts],
         adjudicated' \subseteq TurnIds \X Contracts,
         Truthful(call[c])',
         TurnIdentityIsCanonical', AttemptNumbersAreUnique'
  PROVE  IInv'
<1> DEFINE n == [call[c] EXCEPT !.at = "done", !.result = "ok"]
<1>1. call[c] \in Call /\ CallOK(call[c])
  BY CallFacts
<1>2. /\ n \in Call /\ n.at = "done" /\ n.result = "ok" /\ n.op = call[c].op
      /\ n.contract = call[c].contract
  BY <1>1 DEF Call, Positions, Results
<1>3. call' = [call EXCEPT ![c] = n]
  BY DEF Finish, IInv, TypeOK, Call
<1>4. \A d \in Callers : call'[d] = IF d = c THEN n ELSE call[d]
  BY <1>3 DEF IInv, TypeOK
<1>5. TypeOK'
  BY <1>2, <1>3 DEF IInv, TypeOK, ValidLifecycle, authority, Finish
<1>6. GuardIsHeld'
  BY <1>2, <1>4, LedgerAssumption DEF IInv, GuardIsHeld, At, Finish, Decisive
<1>7. ASSUME NEW d \in Callers PROVE CallOK(call[d])'
  <2>1. CASE d = c
    <3>1. /\ call'[d].at = "done" /\ call'[d].op = call[c].op
          /\ call[c].op \in LifecycleOps \cup OtherOps
      BY <1>1, <1>2, <1>4, <2>1 DEF CallOK, Placed, At
    <3> QED
      BY <2>1, <3>1 DEF CallOK, Placed, CreationIsSettled, TransitionIsSettled,
         AdjudicationIsSettled, LifecycleOps, OtherOps
  <2>2. CASE d # c
    <3>1. call[d] \in Call /\ CallOK(call[d]) /\ call'[d] = call[d]
      BY <1>4, <2>2, CallFacts
    <3>2. ASSUME call[d].at \in Decisive \cup {"lock"},
                 turns[call[d].op.turn].status = "absent"
          PROVE  turns'[call[d].op.turn].status = "absent" /\ adjudicated' = adjudicated
      <4>1. call[d].op.turn \in TurnIds
        BY <3>1, <3>2, OperationShape DEF CallOK, Placed, Decisive
      <4>2. call[d].at # "lock"
        BY <3>1, <3>2 DEF CallOK, Placed, AdjudicationIsSettled
      <4>3. guard # c
        BY <2>2, <3>2, <4>2 DEF IInv, GuardIsHeld, At, Decisive
      <4> QED
        BY <3>2, <4>1, <4>3
    <3>3. call'[d] \in Call /\ CallOK(call'[d])
      BY <3>1
    <3> QED
      BY <3>1, <3>2, <3>3, CallOKSurvives
  <2> QED
    BY <2>1, <2>2
<1>8. (\A d \in Callers : CallOK(call[d]))'
  BY <1>7
<1> QED
  BY <1>5, <1>6, <1>8 DEF IInv

\* What the call's own part of the record becomes when it returns.
LEMMA FinishedCall ==
  ASSUME IInv, NEW c \in Callers, Finish(c, "ok")
  PROVE  /\ call'[c].at = "done" /\ call'[c].op = call[c].op
         /\ call'[c].contract = call[c].contract
  BY DEF Finish, IInv, TypeOK, Call

LEMMA CreateKeeps ==
  ASSUME IInv, NEW c \in Callers, Create(c) PROVE IInv'
<1> DEFINE t   == Id(c)
           new == NewTurn(c)
<1>1. /\ call[c] \in Call /\ CallOK(call[c]) /\ At(c) = "create"
      /\ Kind(c) \in {"begin", "record"} /\ call[c].op \in LifecycleOps \cup OtherOps
      /\ t \in TurnIds /\ turns \in [TurnIds -> Turn]
  BY CallFacts DEF Create, CallOK, Placed, At, Kind, IInv, TypeOK
<1>2. guard = c
  BY <1>1 DEF IInv, GuardIsHeld, Decisive
<1>3. /\ call[c].op.opening \in Openings /\ call[c].baseline \in Baselines
      /\ Kind(c) = "record" => Payload(c) \in Outcome
  BY <1>1, OperationShape, RecordedIsOutcome DEF Kind, Payload, Call
<1>4. CASE /\ Existing(c).status = "absent"
           /\ turns' = [turns EXCEPT ![t] = new]
           /\ Finish(c, "ok")
  <2>1. new \in Turn /\ new.status # "absent" /\ ValidLifecycle(new)
    <3>1. CASE Kind(c) = "begin"
      BY <1>1, <1>3, <3>1 DEF NewTurn, Turn, Statuses, Payloads, ValidLifecycle, CallOK,
         CreationIsSettled, At, Kind
    <3>2. CASE Kind(c) = "record"
      BY <1>1, <1>3, <3>2, OutcomeIsNoReason DEF NewTurn, Turn, Statuses, ValidLifecycle
    <3> QED
      BY <1>1, <3>1, <3>2
  <2>2. \A u \in TurnIds : turns'[u] = IF u = t THEN new ELSE turns[u]
    BY <1>1, <1>4
  <2>3. turns' \in [TurnIds -> Turn] /\ \A u \in TurnIds : ValidLifecycle(turns'[u])
    BY <1>1, <1>4, <2>1, <2>2 DEF IInv, TypeOK
  <2>4. \A u \in TurnIds : Grows(turns[u], turns'[u])
    BY <1>4, <2>1, <2>2 DEF Grows, Existing
  <2>5. Available(t)
    BY <1>1, <1>4 DEF CallOK, CreationIsSettled, At, Id, Existing
  <2>6. TurnIdentityIsCanonical'
    BY <2>2, <2>5 DEF IInv, TypeOK, TurnIdentityIsCanonical, Available, Create
  <2>7. Truthful(call[c])'
    BY <1>1, <1>4, <2>1, <2>2, FinishedCall DEF Truthful, NewTurn, Kind, Payload, Id,
       CallOK, CreationIsSettled, At
  <2>8. AttemptNumbersAreUnique' /\ attempts' = attempts
    BY DEF IInv, AttemptNumbersAreUnique, Create
  <2> QED
    BY <1>1, <1>2, <1>4, <2>3, <2>4, <2>6, <2>7, <2>8, WriteStep
       DEF Create, IInv, TypeOK
<1>5. CASE /\ Existing(c).status # "absent"
           /\ FinishIf(c, SameTurn(Existing(c), new))
           /\ UNCHANGED turns
  <2>1. CASE SameTurn(Existing(c), new)
    <3>1. Truthful([call[c] EXCEPT !.at = "done", !.result = "ok"])
      BY <1>1, <1>5, <2>1 DEF Truthful, SameTurn, NewTurn, Call, Kind, Payload, Id,
         Existing, CallOK, CreationIsSettled, At
    <3> QED
      BY <1>1, <1>5, <2>1, <3>1, FinishStep DEF Create, FinishIf, Results, ledger
  <2>2. CASE ~SameTurn(Existing(c), new)
    BY <1>1, <1>5, <2>2, RefusalStep DEF Create, FinishIf, ledger
  <2> QED
    BY <2>1, <2>2
<1> QED
  BY <1>4, <1>5 DEF Create

\* The transition that ends a Turn.
LEMMA TransitionKeeps ==
  ASSUME IInv, NEW c \in Callers, Transition(c) PROVE IInv'
<1> DEFINE t     == Id(c)
           after == [turns[t] EXCEPT !.status = TerminalStatus(c), !.ending = Payload(c)]
<1>1. /\ call[c] \in Call /\ CallOK(call[c]) /\ At(c) = "transition"
      /\ Kind(c) \in {"complete", "abandon"} /\ call[c].op \in LifecycleOps \cup OtherOps
      /\ t \in TurnIds /\ turns \in [TurnIds -> Turn] /\ ValidLifecycle(turns[t])
  BY CallFacts DEF Transition, CallOK, Placed, At, Kind, IInv, TypeOK
<1>2. CASE /\ UnchangedSinceRead(c)
           /\ turns' = [turns EXCEPT ![t].status = TerminalStatus(c),
                                     ![t].ending = Payload(c)]
           /\ Finish(c, "ok")
  <2>1. IF Kind(c) = "complete" THEN Payload(c) \in Outcome ELSE Payload(c) \in Reasons
    BY <1>1, OperationShape, LedgerAssumption DEF Kind, Payload
  <2>2. Payload(c) \in Payloads
    BY <2>1 DEF Payloads
  <2>3. /\ after \in Turn /\ after.status = TerminalStatus(c) /\ after.ending = Payload(c)
        /\ after.opening = turns[t].opening /\ after.baseline = turns[t].baseline
    BY <1>1, <2>2 DEF Turn, TerminalStatus, Statuses
  <2>4. turns' = [turns EXCEPT ![t] = after]
    BY <1>1, <1>2
  <2> HIDE DEF after
  <2>5. \A u \in TurnIds : turns'[u] = IF u = t THEN after ELSE turns[u]
    BY <1>1, <2>4
  <2>6. turns[t].status = "open" /\ turns[t].baseline # NoBaseline
    BY <1>1, <1>2 DEF UnchangedSinceRead, Existing, ValidLifecycle
  <2>7. ValidLifecycle(after)
    BY <2>1, <2>3, <2>6, OutcomeIsNoReason DEF ValidLifecycle, TerminalStatus
  <2>8. turns' \in [TurnIds -> Turn] /\ \A u \in TurnIds : ValidLifecycle(turns'[u])
    BY <1>1, <2>3, <2>4, <2>5, <2>7 DEF IInv, TypeOK
  <2>9. \A u \in TurnIds : Grows(turns[u], turns'[u])
    BY <2>3, <2>5, <2>6 DEF Grows, TerminalStatus
  <2>10. TurnIdentityIsCanonical'
    BY <2>5, <2>6 DEF IInv, TypeOK, TurnIdentityIsCanonical, Transition
  <2>11. Truthful(call[c])'
    BY <1>1, <1>2, <2>3, <2>5, FinishedCall DEF Truthful, TerminalStatus, Kind, Payload, Id
  <2>12. AttemptNumbersAreUnique' /\ attempts' = attempts
    BY DEF IInv, AttemptNumbersAreUnique, Transition
  <2>13. \A u \in TurnIds : turns[u].status = "absent" => turns'[u].status = "absent"
    BY <2>5, <2>6
  <2> QED
    BY <1>1, <1>2, <2>8, <2>9, <2>10, <2>11, <2>12, <2>13, WriteStep
       DEF Transition, IInv, TypeOK
<1>3. CASE Finish(c, "unauthorized") /\ UNCHANGED turns
  BY <1>1, <1>3, RefusalStep DEF Transition, ledger
<1>4. CASE Goto(c, "reread") /\ UNCHANGED turns
  <2>1. LET n == [call[c] EXCEPT !.at = "reread"] IN
          Placed(n) /\ CreationIsSettled(n) /\ TransitionIsSettled(n)
            /\ AdjudicationIsSettled(n)
    BY <1>1 DEF Call, CallOK, Placed, CreationIsSettled, TransitionIsSettled,
       AdjudicationIsSettled, At
  <2> QED
    BY <1>1, <1>4, <2>1, GotoKeeps DEF Transition, Positions, Decisive, ledger
<1> QED
  BY <1>2, <1>3, <1>4 DEF Transition

LEMMA AppendKeeps ==
  ASSUME IInv, NEW c \in Callers, Append(c) PROVE IInv'
<1> DEFINE t == Id(c)
<1>1. /\ call[c] \in Call /\ CallOK(call[c]) /\ At(c) = "append" /\ Kind(c) = "attempt"
      /\ call[c].op \in LifecycleOps \cup OtherOps
      /\ t \in TurnIds /\ attempts \in [TurnIds -> SUBSET Attempts]
  BY CallFacts DEF Append, CallOK, Placed, At, Kind, IInv, TypeOK
<1>2. CASE /\ Known(c) = {}
           /\ attempts' = [attempts EXCEPT ![t] = @ \cup {Payload(c)}]
           /\ Finish(c, "ok")
  <2>1. Payload(c) \in Attempts
    BY <1>1, OperationShape DEF Kind, Payload
  <2>2. \A u \in TurnIds :
          attempts'[u] = IF u = t THEN attempts[u] \cup {Payload(c)} ELSE attempts[u]
    BY <1>1, <1>2
  <2>3. attempts' \in [TurnIds -> SUBSET Attempts]
    BY <1>1, <1>2, <2>1
  <2>4. \A f \in attempts[t] : f.number # Payload(c).number
    BY <1>2 DEF Known
  <2>5. AttemptNumbersAreUnique'
    BY <2>2, <2>4 DEF IInv, AttemptNumbersAreUnique
  <2>6. turns' = turns /\ adjudicated' = adjudicated /\ UNCHANGED authority
    BY DEF Append
  <2>7. \A u \in TurnIds : Grows(turns[u], turns'[u]) /\ attempts[u] \subseteq attempts'[u]
    BY <2>2, <2>6 DEF Grows
  <2>8. Truthful(call[c])'
    BY <1>1, <1>2, <2>2, FinishedCall DEF Truthful, Kind, Payload, Id
  <2>9. TurnIdentityIsCanonical'
    BY <2>6 DEF IInv, TurnIdentityIsCanonical
  <2>10. \A u \in TurnIds : ValidLifecycle(turns'[u])
    BY <2>6 DEF IInv, TypeOK
  <2> QED
    BY <1>1, <1>2, <2>3, <2>5, <2>6, <2>7, <2>8, <2>9, <2>10, WriteStep DEF IInv, TypeOK
<1>3. CASE FinishIf(c, Appendable(c) /\ Payload(c) \in Known(c)) /\ UNCHANGED attempts
  <2>1. CASE Appendable(c) /\ Payload(c) \in Known(c)
    <3>1. Truthful([call[c] EXCEPT !.at = "done", !.result = "ok"])
      BY <1>1, <2>1 DEF Truthful, Known, Call, Kind, Payload, Id
    <3> QED
      BY <1>1, <1>3, <2>1, <3>1, FinishStep DEF Append, FinishIf, Results, ledger
  <2>2. CASE ~(Appendable(c) /\ Payload(c) \in Known(c))
    BY <1>1, <1>3, <2>2, RefusalStep DEF Append, FinishIf, ledger
  <2> QED
    BY <2>1, <2>2
<1> QED
  BY <1>2, <1>3 DEF Append

LEMMA AdjudicateKeeps ==
  ASSUME IInv, NEW c \in Callers, Adjudicate(c) PROVE IInv'
<1> DEFINE t == Id(c)
<1>1. /\ call[c] \in Call /\ CallOK(call[c]) /\ At(c) = "adjudicate"
      /\ Kind(c) \in {"adjudicate_source", "adjudicate_turn"}
      /\ call[c].op \in LifecycleOps \cup OtherOps /\ t \in TurnIds
  BY CallFacts DEF Adjudicate, CallOK, Placed, At, Kind
<1>2. guard = c
  BY <1>1 DEF IInv, GuardIsHeld, Decisive
<1>3. call[c].contract \in Contracts
  BY <1>1 DEF Call
<1>4. turns' = turns /\ attempts' = attempts /\ UNCHANGED authority
  BY DEF Adjudicate
<1>5. adjudicated' \subseteq TurnIds \X Contracts /\ adjudicated \subseteq adjudicated'
  BY <1>1, <1>3 DEF Adjudicate, IInv, TypeOK
<1>6. \A u \in TurnIds : Grows(turns[u], turns'[u]) /\ attempts[u] \subseteq attempts'[u]
  BY <1>4 DEF Grows
<1>7. Truthful(call[c])'
  BY <1>1, FinishedCall DEF Truthful, Adjudicate, Kind, Id
<1>8. TurnIdentityIsCanonical'
  BY <1>1, <1>3, <1>4 DEF IInv, TurnIdentityIsCanonical, Adjudicate, CallOK,
     AdjudicationIsSettled, At, Id, Contracts
<1>9. AttemptNumbersAreUnique'
  BY <1>4 DEF IInv, AttemptNumbersAreUnique
<1>10. Finish(c, "ok")
  BY DEF Adjudicate
<1> QED
  BY <1>1, <1>2, <1>4, <1>5, <1>6, <1>7, <1>8, <1>9, <1>10, WriteStep DEF IInv, TypeOK

\* Persona Growth is not decided while a call that creates a Turn has the guard.
LEMMA DecisionKeeps ==
  ASSUME IInv, NEW x \in Authorities, Approve(x) \/ Revoke(x) PROVE IInv'
<1>1. UNCHANGED <<ledger, guard, call>>
  BY DEF Approve, Revoke
<1>2. TypeOK'
  BY <1>1 DEF IInv, TypeOK, ValidLifecycle, Approve, Revoke, ledger
<1>3. approved' \ {Manifest} = approved \ {Manifest} \/ guard = Nobody
  BY DEF Approve, Revoke, MayDecide
<1>4. ASSUME NEW d \in Callers PROVE CallOK(call[d])'
  <2>1. CallOK(call[d]) /\ (call[d].at = "create" => guard = d)
    BY DEF IInv, GuardIsHeld, At, Decisive
  <2>2. CreationIsSettled(call[d])'
    BY <1>1, <1>3, <2>1, LedgerAssumption DEF CallOK, CreationIsSettled, Available, ledger
  <2>3. (/\ Placed(call[d]) /\ TransitionIsSettled(call[d])
         /\ AdjudicationIsSettled(call[d]) /\ Truthful(call[d]))'
    BY <1>1, <2>1 DEF CallOK, Placed, TransitionIsSettled, AdjudicationIsSettled, Truthful,
       ledger, LifecycleOps, OtherOps
  <2> QED
    BY <2>2, <2>3 DEF CallOK
<1>5. (\A d \in Callers : CallOK(call[d]))'
  BY <1>4
<1>6. (GuardIsHeld /\ TurnIdentityIsCanonical /\ AttemptNumbersAreUnique)'
  BY <1>1 DEF IInv, GuardIsHeld, At, TurnIdentityIsCanonical, AttemptNumbersAreUnique, ledger
<1> QED
  BY <1>2, <1>5, <1>6 DEF IInv

-----------------------------------------------------------------------------
(* The invariant *)

LEMMA InitInvariant == Init => IInv
<1> SUFFICES ASSUME Init PROVE IInv
  OBVIOUS
<1>1. NoTurn \in Turn /\ ValidLifecycle(NoTurn)
  BY DEF NoTurn, Turn, Statuses, Baselines, Payloads, ValidLifecycle
<1>2. IdleCall \in Call /\ IdleCall.at = "idle"
  BY DEF Call, IdleCall, Positions, Statuses, Baselines, Contracts, Results
<1>3. TypeOK
  BY <1>1, <1>2 DEF Init, TypeOK
<1>4. \A c \in Callers : CallOK(call[c])
  BY <1>2 DEF Init, CallOK, Placed, CreationIsSettled, TransitionIsSettled,
     AdjudicationIsSettled, Truthful
<1>5. GuardIsHeld /\ TurnIdentityIsCanonical /\ AttemptNumbersAreUnique
  BY <1>2 DEF Init, GuardIsHeld, At, Decisive, TurnIdentityIsCanonical,
     AttemptNumbersAreUnique
<1> QED
  BY <1>3, <1>4, <1>5 DEF IInv

LEMMA WorkKeeps == ASSUME IInv, NEW c \in Callers, Work(c) PROVE IInv'
  BY EnterKeeps, LookUpKeeps, CaptureKeeps, CreateKeeps, ReadToCompleteKeeps,
     CheckEvidenceKeeps, TransitionKeeps, RereadKeeps, ReadToAbandonKeeps,
     ReadToAttemptKeeps, AppendKeeps, ClassifySourceKeeps, ReadToAdjudicateKeeps,
     AdjudicateKeeps DEF Work

LEMMA NextInvariant == IInv /\ [Next]_vars => IInv'
<1> SUFFICES ASSUME IInv, [Next]_vars PROVE IInv'
  OBVIOUS
<1>1. CASE UNCHANGED vars
  <2>1. UNCHANGED <<ledger, authority, guard, call>>
    BY <1>1 DEF vars
  <2>2. TypeOK'
    BY <2>1 DEF IInv, TypeOK, ValidLifecycle, ledger, authority
  <2>3. \A d \in Callers : CallOK(call'[d])
    BY <2>1 DEF IInv
  <2>4. (\A d \in Callers : CallOK(call[d]))'
    BY <2>1, <2>3, CallOKIsStable
  <2>5. (GuardIsHeld /\ TurnIdentityIsCanonical /\ AttemptNumbersAreUnique)'
    BY <2>1 DEF IInv, GuardIsHeld, At, TurnIdentityIsCanonical, AttemptNumbersAreUnique,
       ledger
  <2> QED
    BY <2>2, <2>4, <2>5 DEF IInv
<1>2. ASSUME NEW c \in Callers,
             (\E op \in Ops : Invoke(c, op)) \/ Work(c) \/ Return(c) \/ Crash(c)
      PROVE  IInv'
  BY <1>2, InvokeKeeps, WorkKeeps, LeaveKeeps
<1>3. ASSUME NEW x \in Authorities, Approve(x) \/ Revoke(x) PROVE IInv'
  BY <1>3, DecisionKeeps
<1> QED
  BY <1>1, <1>2, <1>3 DEF Next

\* The inductive invariant holds in every reachable state.
THEOREM InvariantHolds == Spec => []IInv
  BY InitInvariant, NextInvariant, PTL DEF Spec

\* Every stored Turn has the shape its status demands.
THEOREM TypeIsCorrect == Spec => []TypeOK
  BY InvariantHolds, PTL DEF IInv

\* No turn id ever stands for a transient adjudication and for a stored Turn,
\* however begin_turn, record_turn and direct adjudication interleave.
THEOREM IdentityIsCanonical == Spec => []TurnIdentityIsCanonical
  BY InvariantHolds, PTL DEF IInv

\* A receipt is true when it is returned and stays true.
THEOREM ReceiptsAreTruthful == Spec => []ReceiptIsTruthful
<1>1. IInv => ReceiptIsTruthful
  BY DEF IInv, ReceiptIsTruthful, CallOK
<1> QED
  BY <1>1, InvariantHolds, PTL

\* Racing retries never store two failures under one attempt number.
THEOREM AttemptsAreUnique == Spec => []AttemptNumbersAreUnique
  BY InvariantHolds, PTL DEF IInv

\* No name in the ledger ever means two things.
THEOREM NamesStayCanonical == Spec => []NamesAreCanonical
<1>1. TurnIdentityIsCanonical /\ AttemptNumbersAreUnique => NamesAreCanonical
  BY DEF NamesAreCanonical
<1> QED
  BY <1>1, IdentityIsCanonical, AttemptsAreUnique, PTL

-----------------------------------------------------------------------------
(* Action properties *)

\* The only steps that change a Turn, and what they do to it.
LEMMA TurnWrites ==
  ASSUME Next, turns' # turns
  PROVE  \E c \in Callers :
           \/ /\ Create(c) /\ Existing(c).status = "absent"
              /\ turns' = [turns EXCEPT ![Id(c)] = NewTurn(c)]
           \/ /\ Transition(c) /\ UnchangedSinceRead(c) /\ Authorized(c)
              /\ turns' = [turns EXCEPT ![Id(c)].status = TerminalStatus(c),
                                        ![Id(c)].ending = Payload(c)]
<1>1. PICK c \in Callers :
        (\E op \in Ops : Invoke(c, op)) \/ Work(c) \/ Return(c) \/ Crash(c)
  BY DEF Next, Approve, Revoke, ledger
<1>2. Create(c) \/ Transition(c)
  BY <1>1 DEF Invoke, Return, Crash, Work, Enter, LookUp, Capture, SourceSnapshot, ReadToComplete,
     CheckEvidence, Reread, ReadToAbandon, ReadToAttempt, Append, ClassifySource,
     ReadToAdjudicate, Adjudicate, ledger
<1>3. CASE Create(c)
  BY <1>3 DEF Create
<1>4. CASE Transition(c)
  BY <1>4 DEF Transition
<1> QED
  BY <1>2, <1>3, <1>4

\* And those that change the reply attempts.
LEMMA AttemptWrites ==
  ASSUME Next, attempts' # attempts
  PROVE  \E c \in Callers :
           /\ Append(c) /\ Appendable(c) /\ turns' = turns
           /\ attempts' = [attempts EXCEPT ![Id(c)] = @ \cup {Payload(c)}]
<1>1. PICK c \in Callers :
        (\E op \in Ops : Invoke(c, op)) \/ Work(c) \/ Return(c) \/ Crash(c)
  BY DEF Next, Approve, Revoke, ledger
<1>2. Append(c)
  BY <1>1 DEF Invoke, Return, Crash, Work, Enter, LookUp, Capture, SourceSnapshot, ReadToComplete,
     CheckEvidence, Reread, ReadToAbandon, ReadToAttempt, Create, Transition,
     ClassifySource, ReadToAdjudicate, Adjudicate, ledger
<1> QED
  BY <1>2 DEF Append

\* Both kinds of write, Turn by Turn.
LEMMA TurnStep ==
  ASSUME IInv, Next, NEW t \in TurnIds, turns'[t] # turns[t]
  PROVE  \E c \in Callers :
           /\ t = Id(c) /\ call[c] \in Call /\ CallOK(call[c])
           /\ \/ /\ At(c) = "create" /\ guard = c
                 /\ turns[t].status = "absent" /\ turns'[t] = NewTurn(c)
              \/ /\ At(c) = "transition" /\ turns[t].status = "open" /\ Authorized(c)
                 /\ turns'[t] = [turns[t] EXCEPT !.status = TerminalStatus(c),
                                                 !.ending = Payload(c)]
<1>1. PICK c \in Callers :
        \/ /\ Create(c) /\ Existing(c).status = "absent"
           /\ turns' = [turns EXCEPT ![Id(c)] = NewTurn(c)]
        \/ /\ Transition(c) /\ UnchangedSinceRead(c) /\ Authorized(c)
           /\ turns' = [turns EXCEPT ![Id(c)].status = TerminalStatus(c),
                                     ![Id(c)].ending = Payload(c)]
  BY TurnWrites
<1>2. turns \in [TurnIds -> Turn] /\ call[c] \in Call /\ CallOK(call[c])
  BY CallFacts DEF IInv, TypeOK
<1>3. t = Id(c)
  BY <1>1, <1>2
<1>4. CASE Create(c) /\ turns' = [turns EXCEPT ![Id(c)] = NewTurn(c)]
  BY <1>1, <1>2, <1>3, <1>4
     DEF Create, Existing, IInv, GuardIsHeld, Decisive, Transition, At
<1>5. CASE /\ Transition(c) /\ UnchangedSinceRead(c) /\ Authorized(c)
           /\ turns' = [turns EXCEPT ![Id(c)].status = TerminalStatus(c),
                                     ![Id(c)].ending = Payload(c)]
  BY <1>2, <1>3, <1>5 DEF Transition, Existing, UnchangedSinceRead
<1> QED
  BY <1>1, <1>4, <1>5

\* A terminal Turn never changes, nor its attempts; the opening of a Turn and
\* the authority it was opened under never change.
THEOREM TurnsAreFinal == Spec => TurnIsFinal
<1>1. ASSUME IInv, Next, NEW t \in TurnIds PROVE Final(t)
  <2>1. turns[t] \in Turn
    BY <1>1 DEF IInv, TypeOK
  <2>2. ASSUME attempts'[t] # attempts[t] PROVE turns[t].status = "open"
    <3>1. PICK c \in Callers :
            /\ Appendable(c)
            /\ attempts' = [attempts EXCEPT ![Id(c)] = @ \cup {Payload(c)}]
      BY <1>1, <2>2, AttemptWrites
    <3>2. t = Id(c)
      BY <2>2, <3>1 DEF IInv, TypeOK
    <3> QED
      BY <3>1, <3>2 DEF Appendable, Existing
  <2>3. CASE turns'[t] = turns[t]
    BY <2>2, <2>3 DEF Final
  <2>4. CASE turns'[t] # turns[t]
    <3>1. \/ turns[t].status = "absent"
          \/ /\ turns[t].status = "open" /\ turns'[t].status # "absent"
             /\ turns'[t].opening = turns[t].opening
             /\ turns'[t].baseline = turns[t].baseline
      BY <1>1, <2>1, <2>4, TurnStep DEF Turn, TerminalStatus
    <3> QED
      BY <3>1 DEF Final
  <2> QED
    BY <2>3, <2>4
<1>2. IInv /\ [Next]_vars => [\A t \in TurnIds : Final(t)]_vars
  BY <1>1
<1> QED
  BY <1>2, InvariantHolds, PTL DEF Spec, TurnIsFinal

\* Reply attempts are added to open Turns only, although the Turn may have ended
\* between the caller's read and the append.
THEOREM AttemptsNeedAnOpenTurn == Spec => AttemptsOnlyWhileOpen
<1>1. ASSUME IInv, Next, NEW t \in TurnIds, attempts'[t] # attempts[t]
      PROVE  turns[t].status = "open"
  <2>1. PICK c \in Callers :
          /\ Appendable(c)
          /\ attempts' = [attempts EXCEPT ![Id(c)] = @ \cup {Payload(c)}]
    BY <1>1, AttemptWrites
  <2>2. t = Id(c)
    BY <1>1, <2>1 DEF IInv, TypeOK
  <2> QED
    BY <2>1, <2>2 DEF Appendable, Existing
<1>2. IInv /\ [Next]_vars =>
        [\A t \in TurnIds : attempts'[t] # attempts[t] => turns[t].status = "open"]_vars
  BY <1>1
<1> QED
  BY <1>2, InvariantHolds, PTL DEF Spec, AttemptsOnlyWhileOpen

\* A reviewed completion commits only under the authority of its opening.
THEOREM ReviewsAreAuthorized == Spec => ReviewedUnderAuthority
<1>1. ASSUME IInv, Next, NEW t \in TurnIds,
             turns[t].status = "open", turns'[t].status = "completed",
             Reviewed(turns'[t].ending)
      PROVE  /\ Manifest \in turns[t].baseline
             /\ turns[t].baseline \subseteq approved
             /\ turns'[t].ending.cites \subseteq turns[t].baseline
  <2>1. turns[t] \in Turn
    BY <1>1 DEF IInv, TypeOK
  <2>2. PICK c \in Callers :
          /\ t = Id(c) /\ CallOK(call[c]) /\ At(c) = "transition" /\ Authorized(c)
          /\ turns'[t] = [turns[t] EXCEPT !.status = TerminalStatus(c),
                                          !.ending = Payload(c)]
    BY <1>1, TurnStep
  <2>3. turns'[t].status = TerminalStatus(c) /\ turns'[t].ending = Payload(c)
    BY <2>1, <2>2 DEF Turn
  <2>4. Kind(c) = "complete" /\ Reviewed(Payload(c))
    BY <1>1, <2>2, <2>3 DEF TerminalStatus, CallOK, Placed, At, Kind
  <2>5. BoundTo(Payload(c), turns[t].baseline)
    BY <2>2, <2>4 DEF CallOK, TransitionIsSettled, At, Kind, Payload, Id
  <2> QED
    BY <2>2, <2>3, <2>4, <2>5 DEF Authorized, BoundTo, HasManifest, Existing
<1>2. IInv /\ [Next]_vars => [\A t \in TurnIds : UnderAuthority(t)]_vars
  BY <1>1 DEF UnderAuthority
<1> QED
  BY <1>2, InvariantHolds, PTL DEF Spec, ReviewedUnderAuthority

\* The guard keeps Persona Growth from changing between the snapshot a Turn is
\* opened from and its insertion.
THEOREM OpeningsAreCurrent == Spec => OpenedUnderCurrentGrowth
<1>1. ASSUME IInv, Next, NEW t \in TurnIds,
             turns[t].status = "absent", turns'[t].status = "open"
      PROVE  turns'[t].baseline \ {Manifest} = approved \ {Manifest}
  <2>1. PICK c \in Callers :
          /\ t = Id(c) /\ CallOK(call[c]) /\ At(c) = "create" /\ turns'[t] = NewTurn(c)
    BY <1>1, TurnStep
  <2>2. Kind(c) = "begin" /\ turns'[t].baseline = call[c].baseline
    BY <1>1, <2>1 DEF NewTurn
  <2> QED
    BY <1>1, <2>1, <2>2 DEF CallOK, CreationIsSettled, At, Kind, Id
<1>2. IInv /\ [Next]_vars =>
        [\A t \in TurnIds :
           turns[t].status = "absent" /\ turns'[t].status = "open"
             => turns'[t].baseline \ {Manifest} = approved \ {Manifest}]_vars
  BY <1>1
<1> QED
  BY <1>2, InvariantHolds, PTL DEF Spec, OpenedUnderCurrentGrowth

\* What a Turn is opened under and what its review rests on are in force at the
\* write, for any number of callers and authorities.
THEOREM AuthorityStaysCurrent == Spec => AuthorityIsCurrent
  BY ReviewsAreAuthorized, OpeningsAreCurrent DEF AuthorityIsCurrent

-----------------------------------------------------------------------------
(* TurnLedger implements TurnPromise. *)

\* What a refusal needs beyond IInv: whoever took a snapshot still finds no
\* Turn, whoever found one has its baseline, and a lost race was lost for good.
Settled(n) ==
  /\ n.at = "capture" => turns[n.op.turn].status = "absent"
  /\ n.at = "create" /\ n.op.kind = "begin" /\ turns[n.op.turn].status # "absent" =>
       n.baseline = turns[n.op.turn].baseline
  /\ n.at = "reread" => turns[n.op.turn].status # "open"

SettledInv == \A c \in Callers : Settled(call[c])

\* A Turn that is changed, but not created, was open and stays what it was opened as.
LEMMA TurnGoesOn ==
  ASSUME IInv, Next, NEW t \in TurnIds, turns'[t] # turns[t], turns[t].status # "absent"
  PROVE  turns[t].status = "open" /\ turns'[t].baseline = turns[t].baseline
<1>1. turns[t] \in Turn
  BY DEF IInv, TypeOK
<1>2. PICK c \in Callers :
        \/ turns[t].status = "absent"
        \/ /\ turns[t].status = "open"
           /\ turns'[t] = [turns[t] EXCEPT !.status = TerminalStatus(c),
                                           !.ending = Payload(c)]
  BY TurnStep, Zenon
<1>3. QED  BY <1>1, <1>2 DEF Turn

\* A Turn comes into being under the guard, in the last step of its call.
LEMMA Creation ==
  ASSUME IInv, Next, NEW t \in TurnIds,
         turns[t].status = "absent", turns'[t].status # "absent"
  PROVE  \E c \in Callers :
           guard = c /\ At(c) = "create" /\ call'[c].at = "done"
<1>1. PICK c \in Callers :
        \/ /\ Create(c) /\ Existing(c).status = "absent"
           /\ turns' = [turns EXCEPT ![Id(c)] = NewTurn(c)]
        \/ /\ Transition(c) /\ UnchangedSinceRead(c) /\ Authorized(c)
           /\ turns' = [turns EXCEPT ![Id(c)].status = TerminalStatus(c),
                                     ![Id(c)].ending = Payload(c)]
  BY TurnWrites
<1>2. turns \in [TurnIds -> Turn] /\ call \in [Callers -> Call]
  BY DEF IInv, TypeOK
<1>3. t = Id(c)
  BY <1>1, <1>2
<1>4. Create(c)
  BY <1>1, <1>3 DEF UnchangedSinceRead, Existing
<1>5. guard = c /\ At(c) = "create"
  BY <1>4 DEF Create, IInv, GuardIsHeld, Decisive
<1>6. call'[c].at = "done"
  BY <1>2, <1>4 DEF Create, FinishIf, Finish, Call
<1>7. QED  BY <1>5, <1>6

\* The steps that take a call to where it relies on what it read.
LEMMA Arrivals ==
  ASSUME IInv, Next, NEW c \in Callers, call'[c] # call[c],
         call'[c].at \in {"capture", "create", "reread"}
  PROVE  LookUp(c) \/ Capture(c) \/ (Transition(c) /\ call'[c].at = "reread")
<1>1. call \in [Callers -> Call]
  BY DEF IInv, TypeOK
<1>2. PICK d \in Callers :
        (\E op \in Ops : Invoke(d, op)) \/ Work(d) \/ Return(d) \/ Crash(d)
  BY DEF Next, Approve, Revoke
<1>3. CASE LookUp(d) \/ Capture(d)
  <2>1. \A x \in Callers : x # d => call'[x] = call[x]
    BY <1>1, <1>3 DEF LookUp, Capture, Finish, Goto
  <2>2. QED  BY <1>3, <2>1
<1>4. CASE Transition(d)
  <2>1. /\ \A x \in Callers : x # d => call'[x] = call[x]
        /\ call'[d].at \in {"done", "reread"}
    BY <1>1, <1>4 DEF Transition, Finish, Goto, Call
  <2>2. QED  BY <1>4, <2>1
<1>5. ASSUME \E n : /\ call' = [call EXCEPT ![d] = n]
                    /\ n.at \notin {"capture", "create", "reread"}
      PROVE  FALSE
  BY <1>1, <1>5
<1>6. CASE (\E op \in Ops : Invoke(d, op)) \/ Return(d) \/ Crash(d) \/ Enter(d)
  <2>1. IdleCall.at = "idle"
    BY DEF IdleCall
  <2>2. CASE Return(d) \/ Crash(d)
    BY <1>5, <2>1, <2>2 DEF Return, Crash
  <2>3. ASSUME NEW op \in Ops, Invoke(d, op) PROVE FALSE
    <3> DEFINE n == [IdleCall EXCEPT !.op = op, !.at = "start"]
    <3>1. call' = [call EXCEPT ![d] = n] /\ n.at = "start"
      BY <2>3 DEF Invoke, IdleCall
    <3>2. QED  BY <1>5, <3>1
  <2>4. CASE Enter(d)
    <3> DEFINE n == [call[d] EXCEPT !.at = IF @ = "start" THEN "look" ELSE "adjudicate"]
    <3>1. call' = [call EXCEPT ![d] = n] /\ n.at \in {"look", "adjudicate"}
      BY <1>1, <2>4 DEF Enter, Call
    <3>2. QED  BY <1>5, <3>1
  <2>5. QED  BY <1>6, <2>2, <2>3, <2>4
<1>7. ASSUME NEW result, Finish(d, result) PROVE FALSE
  <2> DEFINE n == [call[d] EXCEPT !.at = "done", !.result = result]
  <2>1. call' = [call EXCEPT ![d] = n] /\ n.at = "done"
    BY <1>1, <1>7 DEF Finish, Call
  <2>2. QED  BY <1>5, <2>1
<1>8. ASSUME NEW position, position \notin {"capture", "create", "reread"},
             Goto(d, position)
      PROVE  FALSE
  <2> DEFINE n == [call[d] EXCEPT !.at = position]
  <2>1. call' = [call EXCEPT ![d] = n] /\ n.at = position
    BY <1>1, <1>8 DEF Goto, Call
  <2>2. QED  BY <1>5, <1>8, <2>1
<1>9. CASE Create(d) \/ CheckEvidence(d) \/ Reread(d) \/ Append(d) \/ Adjudicate(d)
  BY <1>7, <1>8, <1>9 DEF Create, CheckEvidence, Reread, Append, Adjudicate, FinishIf
<1>10. CASE ReadToAbandon(d) \/ ReadToAttempt(d) \/ ReadToAdjudicate(d)
  BY <1>7, <1>8, <1>10 DEF ReadToAbandon, ReadToAttempt, ReadToAdjudicate, FinishIf
<1>11. CASE ReadToComplete(d)
  <2>1. CASE call' = [call EXCEPT ![d].at = "check", ![d].seen = Existing(d).status]
    BY <1>1, <1>5, <2>1 DEF Call
  <2>2. QED  BY <1>7, <1>8, <1>11, <2>1 DEF ReadToComplete, FinishIf
<1>12. CASE ClassifySource(d)
  <2> DEFINE n == [call[d] EXCEPT !.at = "adjudicate", !.contract =
                     IF Existing(d).status = "absent" THEN "transient" ELSE "persisted"]
  <2>1. CASE call' = [call EXCEPT ![d] = n]
    BY <1>1, <1>5, <2>1 DEF Call
  <2>2. QED  BY <1>1, <1>7, <1>12, <2>1 DEF ClassifySource
<1>13. QED
  BY <1>2, <1>3, <1>4, <1>6, <1>9, <1>10, <1>11, <1>12 DEF Work

LEMMA SettledKeeps ==
  ASSUME IInv, SettledInv, Next, NEW c \in Callers
  PROVE  Settled(call[c])'
<1>1. /\ call \in [Callers -> Call] /\ turns \in [TurnIds -> Turn]
      /\ call[c] \in Call /\ CallOK(call[c]) /\ Settled(call[c])
  BY CallFacts DEF IInv, TypeOK, SettledInv
<1>2. ASSUME call[c].at \in {"capture", "create", "reread"}
      PROVE  Id(c) \in TurnIds
  BY <1>2, CallFacts DEF At
<1>3. CASE call'[c] = call[c]
  <2>1. ASSUME call[c].at \in {"capture", "create"}, turns[Id(c)].status = "absent"
        PROVE  turns'[Id(c)].status = "absent"
    <3>1. guard = c
      BY <2>1 DEF IInv, GuardIsHeld, Decisive, At
    <3>2. ASSUME turns'[Id(c)].status # "absent" PROVE FALSE
      <4>1. PICK d \in Callers : guard = d /\ At(d) = "create" /\ call'[d].at = "done"
        BY <1>2, <2>1, <3>2, Creation
      <4>2. QED  BY <1>3, <2>1, <3>1, <4>1
    <3>3. QED  BY <3>2
  <2>2. ASSUME call[c].at \in {"create", "reread"}, turns[Id(c)].status # "absent"
        PROVE  /\ turns'[Id(c)].baseline = turns[Id(c)].baseline
               /\ turns[Id(c)].status # "open" => turns'[Id(c)] = turns[Id(c)]
    <3>1. CASE turns'[Id(c)] = turns[Id(c)]
      BY <3>1
    <3>2. CASE turns'[Id(c)] # turns[Id(c)]
      <4>1. PICK t \in TurnIds : t = Id(c)
        BY <1>2, <2>2
      <4>2. turns[t].status = "open" /\ turns'[t].baseline = turns[t].baseline
        BY <2>2, <3>2, <4>1, TurnGoesOn
      <4>3. QED  BY <4>1, <4>2
    <3>3. QED  BY <3>1, <3>2
  <2>3. call[c].at = "reread" => turns[Id(c)].status # "absent"
    BY <1>1 DEF CallOK, TransitionIsSettled, Id
  <2>4. QED  BY <1>1, <1>3, <2>1, <2>2, <2>3 DEF Settled, Id
<1>4. CASE call'[c] # call[c] /\ call'[c].at \in {"capture", "create", "reread"}
  <2>1. LookUp(c) \/ Capture(c) \/ (Transition(c) /\ call'[c].at = "reread")
    BY <1>4, Arrivals
  <2>2. CASE LookUp(c)
    BY <1>1, <1>4, <2>2 DEF LookUp, Goto, Finish, Settled, Existing, Id, At, Kind, ledger, Call
  <2>3. CASE Capture(c)
    BY <1>1, <1>4, <2>3 DEF Capture, Finish, Settled, Existing, Id, At, Kind, ledger, Call
  <2>4. CASE Transition(c) /\ call'[c].at = "reread"
    BY <1>1, <1>4, <2>4 DEF Transition, Finish, Goto, Settled, Existing, Id, At, Call,
       UnchangedSinceRead
  <2>5. QED  BY <2>1, <2>2, <2>3, <2>4
<1>5. CASE call'[c].at \notin {"capture", "create", "reread"}
  BY <1>5 DEF Settled
<1>6. QED  BY <1>3, <1>4, <1>5

LEMMA SettledInvariance == Spec => []SettledInv
<1>1. Init => SettledInv
  BY DEF Init, SettledInv, Settled, IdleCall
<1>2. IInv /\ SettledInv /\ [Next]_vars => SettledInv'
  <2>1. CASE UNCHANGED vars
    BY <2>1 DEF vars, ledger, SettledInv, Settled
  <2>2. CASE Next /\ IInv /\ SettledInv
    BY <2>2, SettledKeeps DEF SettledInv
  <2>3. QED  BY <2>1, <2>2
<1>3. QED  BY <1>1, <1>2, InvariantHolds, PTL DEF Spec

\* Calls the promise knows are told by their kind.
LEMMA LifecycleKinds ==
  ASSUME NEW op \in LifecycleOps \cup OtherOps
  PROVE  op \in LifecycleOps <=> op.kind \in {"begin", "record", "complete", "abandon"}
  BY DEF LifecycleOps, OtherOps, Op

\* What the host sees when one call changes.
LEMMA SeenCalls ==
  ASSUME IInv, NEW c \in Callers, NEW n, call' = [call EXCEPT ![c] = n]
  PROVE  /\ call'[c] = n
         /\ [d \in Callers |-> Awaited(call[d])]' =
              [[d \in Callers |-> Awaited(call[d])] EXCEPT ![c] = Awaited(n)]
<1>1. \A d \in Callers : call'[d] = IF d = c THEN n ELSE call[d]
  BY DEF IInv, TypeOK
<1>2. [d \in Callers |-> Awaited(call[d])]' = [d \in Callers |-> Awaited(call'[d])]
  BY DEF Awaited, LifecycleOps
<1>3. PICK a : a = Awaited(n)
  OBVIOUS
<1>4. \A d \in Callers : Awaited(call'[d]) = IF d = c THEN a ELSE Awaited(call[d])
  BY <1>1, <1>3
<1>5. [d \in Callers |-> Awaited(call'[d])] =
        [[d \in Callers |-> Awaited(call[d])] EXCEPT ![c] = a]
  BY <1>4
<1>6. QED  BY <1>1, <1>2, <1>3, <1>5

\* Steps the host does not see.
LEMMA Unseen ==
  ASSUME IInv, turns' = turns, NEW c \in Callers, NEW n,
         call' = [call EXCEPT ![c] = n], Awaited(n) = Awaited(call[c])
  PROVE  UNCHANGED Promise!vars
<1> DEFINE seen == [d \in Callers |-> Awaited(call[d])]
<1>1. seen' = [seen EXCEPT ![c] = Awaited(call[c])]
  BY SeenCalls
<1>2. seen' = seen
  BY <1>1
<1>3. [t \in TurnIds |-> Shown(turns[t])]' = [t \in TurnIds |-> Shown(turns[t])]
  BY DEF Shown
<1>4. QED  BY <1>2, <1>3 DEF Promise!vars

\* A call that goes on is still awaited.
LEMMA StillAwaited ==
  ASSUME IInv, turns' = turns, NEW c \in Callers, At(c) \notin {"idle", "done"}, NEW n,
         call' = [call EXCEPT ![c] = n], n.at \notin {"idle", "done"}, n.op = call[c].op
  PROVE  UNCHANGED Promise!vars
  BY Unseen DEF Awaited, At

\* A call at work on a lifecycle operation, as the promise sees it.
LEMMA Asked ==
  ASSUME IInv, NEW c \in Callers, At(c) \notin {"idle", "done"},
         call[c].op \in LifecycleOps
  PROVE  /\ Awaited(call[c]) = [kind |-> "asked", op |-> call[c].op]
         /\ Id(c) \in TurnIds
         /\ [t \in TurnIds |-> Shown(turns[t])][Id(c)] = Shown(Existing(c))
<1>1. Id(c) \in TurnIds
  BY OperationShape DEF Id
<1>2. QED  BY <1>1 DEF Awaited, At, Existing

\* It returns.
LEMMA Answered ==
  ASSUME IInv, NEW c \in Callers, call[c].op \in LifecycleOps, NEW result,
         Finish(c, result)
  PROVE  [d \in Callers |-> Awaited(call[d])]' =
           [[d \in Callers |-> Awaited(call[d])] EXCEPT ![c] =
              [kind |-> "answered", answer |-> IF result = "ok" THEN "ok" ELSE "no"]]
<1> DEFINE n == [call[c] EXCEPT !.at = "done", !.result = result]
<1>1. call[c] \in Call
  BY DEF IInv, TypeOK
<1>2. /\ call' = [call EXCEPT ![c] = n]
      /\ n.at = "done" /\ n.result = result /\ n.op = call[c].op
  BY <1>1 DEF Finish, Call, IInv, TypeOK
<1> HIDE DEF n
<1>3. PICK a : a = [kind |-> "answered", answer |-> IF result = "ok" THEN "ok" ELSE "no"]
  OBVIOUS
<1>4. Awaited(n) = a
  BY <1>2, <1>3 DEF Awaited
<1>5. [d \in Callers |-> Awaited(call[d])]' =
        [[d \in Callers |-> Awaited(call[d])] EXCEPT ![c] = a]
  BY <1>2, <1>4, SeenCalls
<1>6. QED  BY <1>3, <1>5

\* It returns successfully, for what was done already or is done now.
LEMMA AcceptStep ==
  ASSUME IInv, NEW c \in Callers, At(c) \notin {"idle", "done"},
         call[c].op \in LifecycleOps, Finish(c, "ok"), NEW turn,
         \/ turns' = turns /\ Promise!AlreadyDone(Shown(Existing(c)), call[c].op)
         \/ /\ turns' = [turns EXCEPT ![Id(c)] = turn]
            /\ Promise!Applicable(Shown(Existing(c)), call[c].op)
            /\ Shown(turn) = Promise!After(Shown(Existing(c)), call[c].op)
  PROVE  Promise!Next
<1> DEFINE record == [t \in TurnIds |-> Shown(turns[t])]
           seen   == [d \in Callers |-> Awaited(call[d])]
<1>1. /\ seen[c] = [kind |-> "asked", op |-> call[c].op]
      /\ Id(c) \in TurnIds /\ record[Id(c)] = Shown(Existing(c))
      /\ turns \in [TurnIds -> Turn]
  BY Asked DEF IInv, TypeOK
<1>2. seen' = [seen EXCEPT ![c] = [kind |-> "answered", answer |-> "ok"]]
  BY Answered
<1>3. turns' = turns => record' = record
  BY DEF Shown
<1>4. turns' = [turns EXCEPT ![Id(c)] = turn]
        => record' = [record EXCEPT ![Id(c)] = Shown(turn)]
  <2> SUFFICES ASSUME turns' = [turns EXCEPT ![Id(c)] = turn]
               PROVE  record' = [record EXCEPT ![Id(c)] = Shown(turn)]
    OBVIOUS
  <2>1. \A t \in TurnIds : turns'[t] = IF t = Id(c) THEN turn ELSE turns[t]
    BY <1>1
  <2>2. record' = [t \in TurnIds |-> Shown(turns'[t])]
    BY DEF Shown
  <2>3. PICK shown : shown = Shown(turn)
    OBVIOUS
  <2>4. \A t \in TurnIds : Shown(turns'[t]) = IF t = Id(c) THEN shown ELSE Shown(turns[t])
    BY <2>1, <2>3
  <2>5. [t \in TurnIds |-> Shown(turns'[t])] = [record EXCEPT ![Id(c)] = shown]
    BY <2>4
  <2>6. QED  BY <2>2, <2>3, <2>5
<1>5. Promise!Accept(c)
  BY <1>1, <1>2, <1>3, <1>4 DEF Promise!Accept, Promise!Answer, Id
<1>6. QED  BY <1>5 DEF Promise!Next

\* It is turned away.
LEMMA RefuseStep ==
  ASSUME IInv, NEW c \in Callers, At(c) \notin {"idle", "done"},
         call[c].op \in LifecycleOps, turns' = turns,
         NEW result, result # "ok", Finish(c, result),
         Promise!Refusable(Shown(Existing(c)), call[c].op)
  PROVE  Promise!Next
<1> DEFINE record == [t \in TurnIds |-> Shown(turns[t])]
           seen   == [d \in Callers |-> Awaited(call[d])]
<1>1. /\ seen[c] = [kind |-> "asked", op |-> call[c].op]
      /\ Id(c) \in TurnIds /\ record[Id(c)] = Shown(Existing(c))
  BY Asked
<1>2. seen' = [seen EXCEPT ![c] = [kind |-> "answered", answer |-> "no"]]
  BY Answered
<1>3. record' = record
  BY DEF Shown
<1>4. Promise!Refuse(c)
  BY <1>1, <1>2, <1>3 DEF Promise!Refuse, Promise!Answer, Id
<1>5. QED  BY <1>4 DEF Promise!Next

\* Other operations are not the promise's.
LEMMA OtherCalls ==
  ASSUME IInv, turns' = turns, NEW c \in Callers, call[c].op \notin LifecycleOps,
         NEW result, Finish(c, result)
  PROVE  UNCHANGED Promise!vars
<1> DEFINE n == [call[c] EXCEPT !.at = "done", !.result = result]
<1>1. call[c] \in Call
  BY DEF IInv, TypeOK
<1>2. call' = [call EXCEPT ![c] = n] /\ n.op = call[c].op
  BY <1>1 DEF Finish, Call, IInv, TypeOK
<1> HIDE DEF n
<1>3. Awaited(n) = Awaited(call[c])
  BY <1>2 DEF Awaited
<1>4. QED  BY <1>2, <1>3, Unseen

\* Each action is a step of the promise, or nothing the host sees.
LEMMA InvokeRefines ==
  ASSUME IInv, NEW c \in Callers, NEW op \in Ops, Invoke(c, op)
  PROVE  [Promise!Next]_(Promise!vars)
<1> DEFINE n == [IdleCall EXCEPT !.op = op, !.at = "start"]
           seen == [d \in Callers |-> Awaited(call[d])]
<1>1. /\ call' = [call EXCEPT ![c] = n] /\ n.at = "start" /\ n.op = op
      /\ turns' = turns /\ Awaited(call[c]) = [kind |-> "none"]
  BY DEF Invoke, IdleCall, ledger, Awaited, At
<1> HIDE DEF n
<1>2. CASE op \notin LifecycleOps
  <2>1. Awaited(n) = Awaited(call[c])
    BY <1>1, <1>2 DEF Awaited
  <2>2. QED  BY <1>1, <2>1, Unseen
<1>3. CASE op \in LifecycleOps
  <2>1. PICK a : a = [kind |-> "asked", op |-> op]
    OBVIOUS
  <2>2. Awaited(n) = a
    BY <1>1, <1>3, <2>1 DEF Awaited
  <2>3. seen' = [seen EXCEPT ![c] = a] /\ seen[c] = [kind |-> "none"]
    BY <1>1, <2>2, SeenCalls
  <2>4. op \in {o \in LifecycleOps : o.kind \in Offered}
    BY <1>3 DEF Ops
  <2>5. [t \in TurnIds |-> Shown(turns[t])]' = [t \in TurnIds |-> Shown(turns[t])]
    BY <1>1 DEF Shown
  <2>6. Promise!Call(c, op)
    BY <2>1, <2>3, <2>5 DEF Promise!Call, Promise!NoCall
  <2>7. QED  BY <2>4, <2>6 DEF Promise!Next
<1>4. QED  BY <1>2, <1>3

LEMMA LeaveRefines ==
  ASSUME IInv, NEW c \in Callers, Return(c) \/ Crash(c)
  PROVE  [Promise!Next]_(Promise!vars)
<1> DEFINE seen == [d \in Callers |-> Awaited(call[d])]
<1>1. /\ call' = [call EXCEPT ![c] = IdleCall] /\ turns' = turns
      /\ Awaited(IdleCall) = [kind |-> "none"]
  BY DEF Return, Crash, IdleCall, ledger, Awaited
<1>2. CASE Awaited(call[c]) = [kind |-> "none"]
  BY <1>1, <1>2, Unseen
<1>3. CASE Awaited(call[c]) # [kind |-> "none"]
  <2>1. PICK a : a = [kind |-> "none"]
    OBVIOUS
  <2>2. seen' = [seen EXCEPT ![c] = a] /\ seen[c] # a
    BY <1>1, <1>3, <2>1, SeenCalls
  <2>3. [t \in TurnIds |-> Shown(turns[t])]' = [t \in TurnIds |-> Shown(turns[t])]
    BY <1>1 DEF Shown
  <2>4. Promise!Leave(c)
    BY <2>1, <2>2, <2>3 DEF Promise!Leave, Promise!NoCall
  <2>5. QED  BY <2>4 DEF Promise!Next
<1>4. QED  BY <1>2, <1>3

LEMMA EnterRefines ==
  ASSUME IInv, NEW c \in Callers, Enter(c)
  PROVE  UNCHANGED Promise!vars
<1> DEFINE n == [call[c] EXCEPT !.at = IF @ = "start" THEN "look" ELSE "adjudicate"]
<1>1. call[c] \in Call
  BY DEF IInv, TypeOK
<1>2. /\ call' = [call EXCEPT ![c] = n] /\ n.at \in {"look", "adjudicate"}
      /\ n.op = call[c].op
  BY <1>1 DEF Enter, Call, IInv, TypeOK
<1>3. turns' = turns /\ At(c) \notin {"idle", "done"}
  BY DEF Enter, ledger
<1>4. QED  BY <1>2, <1>3, StillAwaited

\* Moving on is not seen.
LEMMA GotoRefines ==
  ASSUME IInv, NEW c \in Callers, At(c) \notin {"idle", "done"}, turns' = turns,
         NEW position, position \notin {"idle", "done"}, Goto(c, position)
  PROVE  UNCHANGED Promise!vars
<1> DEFINE n == [call[c] EXCEPT !.at = position]
<1>1. call[c] \in Call
  BY DEF IInv, TypeOK
<1>2. call' = [call EXCEPT ![c] = n] /\ n.at = position /\ n.op = call[c].op
  BY <1>1 DEF Goto, Call, IInv, TypeOK
<1>3. QED  BY <1>2, StillAwaited

\* What a call of each kind finds, in the promise's words.
LEMMA Findings ==
  ASSUME IInv, NEW c \in Callers, At(c) # "idle", NEW turn \in Turn, ValidLifecycle(turn)
  PROVE  /\ Shown(turn).status = turn.status
         /\ turn.status # "absent" =>
              /\ Shown(turn).opening = turn.opening
              /\ Shown(turn).begun = (turn.baseline # NoBaseline)
         /\ turn.status \in {"completed", "abandoned"} => Shown(turn).ending = turn.ending
         /\ Promise!Applicable(Shown(turn), call[c].op) <=>
              turn.status = IF Kind(c) \in {"begin", "record"} THEN "absent" ELSE "open"
         /\ Kind(c) = "begin" =>
              (Promise!AlreadyDone(Shown(turn), call[c].op) <=>
                 /\ turn.status # "absent" /\ turn.baseline # NoBaseline
                 /\ turn.opening = call[c].op.opening)
         /\ Kind(c) = "record" =>
              (Promise!AlreadyDone(Shown(turn), call[c].op) <=>
                 /\ turn.status = "completed" /\ turn.baseline = NoBaseline
                 /\ turn.opening = call[c].op.opening /\ turn.ending = Payload(c))
         /\ Kind(c) \in {"complete", "abandon"} =>
              (Promise!AlreadyDone(Shown(turn), call[c].op) <=>
                 turn.status = TerminalStatus(c) /\ turn.ending = Payload(c))
<1>1. turn.status \in Statuses
  BY DEF Turn
<1>2. /\ Shown(turn).status = turn.status
      /\ turn.status # "absent" =>
           /\ Shown(turn).opening = turn.opening
           /\ Shown(turn).begun = (turn.baseline # NoBaseline)
      /\ turn.status \in {"completed", "abandoned"} => Shown(turn).ending = turn.ending
  BY <1>1 DEF Shown, Statuses
<1>3. Promise!Applicable(Shown(turn), call[c].op) <=>
        turn.status = IF Kind(c) \in {"begin", "record"} THEN "absent" ELSE "open"
  BY <1>2 DEF Promise!Applicable, Kind
<1>4. Kind(c) = "begin" =>
        (Promise!AlreadyDone(Shown(turn), call[c].op) <=>
           /\ turn.status # "absent" /\ turn.baseline # NoBaseline
           /\ turn.opening = call[c].op.opening)
  BY <1>2 DEF Promise!AlreadyDone, Kind
<1>5. Kind(c) = "record" =>
        (Promise!AlreadyDone(Shown(turn), call[c].op) <=>
           /\ turn.status = "completed" /\ turn.baseline = NoBaseline
           /\ turn.opening = call[c].op.opening /\ turn.ending = Payload(c))
  <2> SUFFICES ASSUME Kind(c) = "record"
               PROVE  Promise!AlreadyDone(Shown(turn), call[c].op) <=>
                        /\ turn.status = "completed" /\ turn.baseline = NoBaseline
                        /\ turn.opening = call[c].op.opening /\ turn.ending = Payload(c)
    OBVIOUS
  <2>1. Promise!AlreadyDone(Shown(turn), call[c].op) <=>
          turn.status # "absent" /\ Shown(turn) = Promise!Recorded(call[c].op)
    BY <1>2 DEF Promise!AlreadyDone, Kind
  <2>2. ASSUME Shown(turn) = Promise!Recorded(call[c].op), turn.status # "absent"
        PROVE  /\ turn.status = "completed" /\ turn.baseline = NoBaseline
               /\ turn.opening = call[c].op.opening /\ turn.ending = Payload(c)
    <3>1. PICK r : r = Promise!Recorded(call[c].op)
      OBVIOUS
    <3>2. /\ r.status = "completed" /\ r.opening = call[c].op.opening
          /\ r.ending = Payload(c) /\ r.begun = FALSE
      BY <3>1 DEF Promise!Recorded, Payload
    <3>3. /\ turn.status = "completed" /\ turn.opening = call[c].op.opening
          /\ turn.ending = Payload(c)
      BY <1>2, <2>2, <3>1, <3>2
    <3>4. turn.baseline = NoBaseline
      <4>1. FALSE = (turn.baseline # NoBaseline)
        BY <1>2, <2>2, <3>1, <3>2, Zenon
      <4>2. QED  BY <4>1
    <3>5. QED  BY <3>3, <3>4
  <2>3. ASSUME turn.status = "completed", turn.baseline = NoBaseline,
               turn.opening = call[c].op.opening, turn.ending = Payload(c)
        PROVE  Shown(turn) = Promise!Recorded(call[c].op)
    BY <2>3 DEF Promise!Recorded, Payload, Shown
  <2>4. QED  BY <2>1, <2>2, <2>3
<1>6. Kind(c) \in {"complete", "abandon"} =>
        (Promise!AlreadyDone(Shown(turn), call[c].op) <=>
           turn.status = TerminalStatus(c) /\ turn.ending = Payload(c))
  <2> SUFFICES ASSUME Kind(c) \in {"complete", "abandon"}
               PROVE  Promise!AlreadyDone(Shown(turn), call[c].op) <=>
                        turn.status = TerminalStatus(c) /\ turn.ending = Payload(c)
    OBVIOUS
  <2>1. Promise!Result(call[c].op.kind) = TerminalStatus(c)
    BY DEF Promise!Result, TerminalStatus, Kind
  <2>2. Promise!AlreadyDone(Shown(turn), call[c].op) <=>
          /\ turn.status # "absent" /\ Shown(turn).status = TerminalStatus(c)
          /\ Shown(turn).ending = Payload(c)
    BY <1>2, <2>1 DEF Promise!AlreadyDone, Kind, Payload
  <2>3. TerminalStatus(c) \in {"completed", "abandoned"}
    BY DEF TerminalStatus
  <2>4. QED  BY <1>2, <2>2, <2>3
<1>7. QED  BY <1>2, <1>3, <1>4, <1>5, <1>6

\* What a call at work is, for the actions below.
LEMMA AtWork ==
  ASSUME IInv, NEW c \in Callers, At(c) \notin {"idle", "done"}
  PROVE  /\ call[c] \in Call /\ CallOK(call[c])
         /\ call[c].op \in LifecycleOps \cup OtherOps
         /\ call[c].op \in LifecycleOps <=>
              Kind(c) \in {"begin", "record", "complete", "abandon"}
         /\ Id(c) \in TurnIds /\ Existing(c) \in Turn /\ ValidLifecycle(Existing(c))
<1>1. /\ call[c] \in Call /\ CallOK(call[c])
      /\ call[c].op \in LifecycleOps \cup OtherOps
      /\ Id(c) \in TurnIds /\ Existing(c) \in Turn /\ ValidLifecycle(Existing(c))
  BY CallFacts
<1>2. QED  BY <1>1, LifecycleKinds DEF Kind

\* An answer that is the truth about an unchanged Turn is a step of the promise.
LEMMA AnsweredTruly ==
  ASSUME IInv, NEW c \in Callers, At(c) \notin {"idle", "done"}, turns' = turns,
         Kind(c) \in {"begin", "record", "complete", "abandon"}, NEW condition,
         FinishIf(c, condition),
         condition => Promise!AlreadyDone(Shown(Existing(c)), call[c].op),
         ~condition => Promise!Refusable(Shown(Existing(c)), call[c].op)
  PROVE  Promise!Next
<1>1. call[c].op \in LifecycleOps
  BY AtWork
<1>2. CASE condition
  <2>1. Finish(c, "ok")
    BY <1>2 DEF FinishIf
  <2>2. QED  BY <1>1, <1>2, <2>1, AcceptStep
<1>3. CASE ~condition
  <2>1. Finish(c, "refused")
    BY <1>3 DEF FinishIf
  <2>2. QED  BY <1>1, <1>3, <2>1, RefuseStep
<1>4. QED  BY <1>2, <1>3

LEMMA LookUpRefines ==
  ASSUME IInv, NEW c \in Callers, LookUp(c)
  PROVE  [Promise!Next]_(Promise!vars)
<1>1. /\ At(c) = "look" /\ Kind(c) \in {"begin", "record"} /\ turns' = turns
  BY DEF LookUp, ledger
<1>2. /\ call[c] \in Call /\ call[c].op \in LifecycleOps
      /\ Existing(c) \in Turn /\ ValidLifecycle(Existing(c))
  BY <1>1, AtWork
<1>3. CASE Goto(c, "capture")
  BY <1>1, <1>3, GotoRefines
<1>4. CASE call' = [call EXCEPT ![c].at = "create",
             ![c].baseline = IF Kind(c) = "begin" THEN Existing(c).baseline
                                                  ELSE NoBaseline]
  <2> DEFINE n == [call[c] EXCEPT !.at = "create", !.baseline =
                     IF Kind(c) = "begin" THEN Existing(c).baseline ELSE NoBaseline]
  <2>1. call' = [call EXCEPT ![c] = n] /\ n.at = "create" /\ n.op = call[c].op
    BY <1>2, <1>4 DEF Call, IInv, TypeOK
  <2>2. QED  BY <1>1, <2>1, StillAwaited
<1>5. CASE /\ Existing(c).status # "absent" /\ Kind(c) = "begin"
           /\ Existing(c).baseline = NoBaseline /\ Finish(c, "refused")
  <2>1. Promise!Refusable(Shown(Existing(c)), call[c].op)
    BY <1>1, <1>2, <1>5, Findings DEF Promise!Refusable
  <2>2. QED  BY <1>1, <1>2, <1>5, <2>1, RefuseStep
<1>6. QED  BY <1>3, <1>4, <1>5 DEF LookUp

LEMMA CaptureRefines ==
  ASSUME IInv, SettledInv, NEW c \in Callers, Capture(c)
  PROVE  [Promise!Next]_(Promise!vars)
<1>1. At(c) = "capture" /\ turns' = turns
  BY DEF Capture, ledger
<1>2. /\ call[c] \in Call /\ CallOK(call[c])
      /\ Existing(c) \in Turn /\ ValidLifecycle(Existing(c))
  BY <1>1, AtWork
<1>3. Kind(c) \in {"begin", "record"} /\ call[c].op \in LifecycleOps
  BY <1>1, <1>2, AtWork DEF CallOK, Placed, At, Kind
<1>4. CASE Available(Id(c))
  <2> DEFINE n == [call[c] EXCEPT !.at = "create", !.baseline =
                     IF Kind(c) = "begin" THEN SourceSnapshot.approved_growth
                                           ELSE NoBaseline]
  <2>1. call' = [call EXCEPT ![c] = n] /\ n.at = "create" /\ n.op = call[c].op
    BY <1>2, <1>4 DEF Capture, Call, IInv, TypeOK
  <2>2. QED  BY <1>1, <2>1, StillAwaited
<1>5. CASE ~Available(Id(c))
  <2>1. Existing(c).status = "absent"
    BY <1>1 DEF SettledInv, Settled, At, Existing, Id
  <2>2. Promise!Refusable(Shown(Existing(c)), call[c].op)
    BY <1>1, <1>2, <1>3, <2>1, Findings DEF Promise!Refusable, Kind
  <2>3. Finish(c, "refused")
    BY <1>5 DEF Capture
  <2>4. QED  BY <1>1, <1>3, <2>2, <2>3, RefuseStep
<1>6. QED  BY <1>4, <1>5

LEMMA CreateRefines ==
  ASSUME IInv, SettledInv, NEW c \in Callers, Create(c)
  PROVE  [Promise!Next]_(Promise!vars)
<1>1. At(c) = "create"
  BY DEF Create
<1>2. /\ call[c] \in Call /\ CallOK(call[c])
      /\ Existing(c) \in Turn /\ ValidLifecycle(Existing(c))
  BY <1>1, AtWork
<1>3. Kind(c) \in {"begin", "record"} /\ call[c].op \in LifecycleOps
  BY <1>1, <1>2, AtWork DEF CallOK, Placed, At, Kind
<1>4. /\ Kind(c) = "record" => call[c].baseline = NoBaseline
      /\ Kind(c) = "begin" => call[c].baseline # NoBaseline
      /\ Kind(c) = "begin" /\ Existing(c).status # "absent" =>
           call[c].baseline = Existing(c).baseline
  BY <1>1, <1>2 DEF CallOK, CreationIsSettled, SettledInv, Settled, At, Kind, Existing, Id
<1>5. CASE /\ Existing(c).status = "absent"
           /\ turns' = [turns EXCEPT ![Id(c)] = NewTurn(c)] /\ Finish(c, "ok")
  <2>1. Promise!Applicable(Shown(Existing(c)), call[c].op)
    BY <1>1, <1>2, <1>3, <1>5, Findings
  <2>2. Shown(NewTurn(c)) = Promise!After(Shown(Existing(c)), call[c].op)
    <3>1. CASE Kind(c) = "begin"
      BY <1>4, <3>1 DEF NewTurn, Shown, Promise!After, Promise!Opened, Kind
    <3>2. CASE Kind(c) = "record"
      BY <1>4, <3>2 DEF NewTurn, Shown, Promise!After, Promise!Recorded, Kind, Payload
    <3>3. QED  BY <1>3, <3>1, <3>2
  <2>3. QED  BY <1>1, <1>3, <1>5, <2>1, <2>2, AcceptStep
<1>6. CASE /\ Existing(c).status # "absent" /\ turns' = turns
           /\ FinishIf(c, SameTurn(Existing(c), NewTurn(c)))
  <2>1. SameTurn(Existing(c), NewTurn(c))
          <=> Promise!AlreadyDone(Shown(Existing(c)), call[c].op)
    <3>1. CASE Kind(c) = "begin"
      <4>1. NewTurn(c) = [status |-> "open", opening |-> call[c].op.opening,
                          baseline |-> call[c].baseline, ending |-> NoPayload]
        BY <3>1 DEF NewTurn
      <4>2. SameTurn(Existing(c), NewTurn(c)) <=> Existing(c).opening = call[c].op.opening
        BY <1>4, <1>6, <3>1, <4>1 DEF SameTurn
      <4>3. QED  BY <1>1, <1>2, <1>4, <1>6, <3>1, <4>2, Findings
    <3>2. CASE Kind(c) = "record"
      <4>1. NewTurn(c) = [status |-> "completed", opening |-> call[c].op.opening,
                          baseline |-> NoBaseline, ending |-> Payload(c)]
        BY <1>4, <3>2 DEF NewTurn
      <4>2. SameTurn(Existing(c), NewTurn(c)) <=>
              /\ Existing(c).opening = call[c].op.opening
              /\ Existing(c).baseline = NoBaseline
              /\ Existing(c).status = "completed" /\ Existing(c).ending = Payload(c)
        BY <4>1 DEF SameTurn
      <4>3. QED  BY <1>1, <1>2, <3>2, <4>2, Findings
    <3>3. QED  BY <1>3, <3>1, <3>2
  <2>2. ~Promise!Applicable(Shown(Existing(c)), call[c].op)
    BY <1>1, <1>2, <1>3, <1>6, Findings
  <2>3. ~SameTurn(Existing(c), NewTurn(c)) =>
          Promise!Refusable(Shown(Existing(c)), call[c].op)
    BY <2>1, <2>2 DEF Promise!Refusable
  <2>4. QED  BY <1>1, <1>3, <1>6, <2>1, <2>3, AnsweredTruly
<1>7. QED  BY <1>5, <1>6 DEF Create

LEMMA ReadToCompleteRefines ==
  ASSUME IInv, NEW c \in Callers, ReadToComplete(c)
  PROVE  [Promise!Next]_(Promise!vars)
<1>1. At(c) = "start" /\ Kind(c) = "complete" /\ turns' = turns
  BY DEF ReadToComplete, ledger
<1>2. /\ call[c] \in Call /\ call[c].op \in LifecycleOps
      /\ Existing(c) \in Turn /\ ValidLifecycle(Existing(c))
  BY <1>1, AtWork
<1> DEFINE turn == Existing(c)
           bad  == Reviewed(Payload(c)) /\ ~BoundTo(Payload(c), turn.baseline)
<1>3. CASE Goto(c, "transition")
  BY <1>1, <1>3, GotoRefines
<1>4. CASE call' = [call EXCEPT ![c].at = "check", ![c].seen = turn.status]
  <2> DEFINE n == [call[c] EXCEPT !.at = "check", !.seen = turn.status]
  <2>1. call' = [call EXCEPT ![c] = n] /\ n.at = "check" /\ n.op = call[c].op
    BY <1>2, <1>4 DEF Call, IInv, TypeOK
  <2>2. QED  BY <1>1, <2>1, StillAwaited
<1>5. CASE turn.status = "completed" /\ FinishIf(c, turn.ending = Payload(c))
  <2>1. turn.ending = Payload(c) <=> Promise!AlreadyDone(Shown(turn), call[c].op)
    BY <1>1, <1>2, <1>5, Findings DEF TerminalStatus
  <2>2. ~Promise!Applicable(Shown(turn), call[c].op)
    BY <1>1, <1>2, <1>5, Findings
  <2>3. turn.ending # Payload(c) => Promise!Refusable(Shown(turn), call[c].op)
    BY <2>1, <2>2 DEF Promise!Refusable
  <2>4. QED  BY <1>1, <1>5, <2>1, <2>3, AnsweredTruly
<1>6. CASE /\ Finish(c, "refused")
           /\ turn.status \in {"absent", "abandoned", "open"} \/ bad
  <2>1. bad => Promise!Refusable(Shown(turn), call[c].op)
    BY <1>1 DEF Promise!Refusable, Kind, Payload
  <2>2. turn.status \in {"absent", "abandoned", "open"} =>
          Promise!Refusable(Shown(turn), call[c].op)
    BY <1>1, <1>2, Findings DEF Promise!Refusable, TerminalStatus, Kind
  <2>3. QED  BY <1>1, <1>2, <1>6, <2>1, <2>2, RefuseStep
<1>7. QED  BY <1>3, <1>4, <1>5, <1>6 DEF ReadToComplete

LEMMA CheckEvidenceRefines ==
  ASSUME IInv, NEW c \in Callers, CheckEvidence(c)
  PROVE  [Promise!Next]_(Promise!vars)
<1>1. At(c) = "check" /\ turns' = turns
  BY DEF CheckEvidence, ledger
<1>2. Kind(c) = "complete" /\ Reviewed(Payload(c)) /\ call[c].op \in LifecycleOps
  BY <1>1, AtWork DEF CallOK, Placed, At, Kind, Payload
<1>3. Promise!Refusable(Shown(Existing(c)), call[c].op)
  BY <1>2 DEF Promise!Refusable, Kind, Payload
<1>4. CASE Goto(c, "transition")
  BY <1>1, <1>4, GotoRefines
<1>5. CASE Finish(c, "refused") \/ Finish(c, "unauthorized")
  BY <1>1, <1>2, <1>3, <1>5, RefuseStep
<1>6. QED  BY <1>4, <1>5 DEF CheckEvidence

LEMMA TransitionRefines ==
  ASSUME IInv, NEW c \in Callers, Transition(c)
  PROVE  [Promise!Next]_(Promise!vars)
<1>1. At(c) = "transition"
  BY DEF Transition
<1>2. /\ call[c] \in Call /\ CallOK(call[c]) /\ Id(c) \in TurnIds
      /\ Existing(c) \in Turn /\ ValidLifecycle(Existing(c))
  BY <1>1, AtWork
<1>3. Kind(c) \in {"complete", "abandon"} /\ call[c].op \in LifecycleOps
  BY <1>1, <1>2, AtWork DEF CallOK, Placed, At, Kind
<1>4. CASE /\ UnchangedSinceRead(c) /\ Finish(c, "ok")
           /\ turns' = [turns EXCEPT ![Id(c)].status = TerminalStatus(c),
                                     ![Id(c)].ending = Payload(c)]
  <2> DEFINE new == [Existing(c) EXCEPT !.status = TerminalStatus(c),
                                        !.ending = Payload(c)]
  <2>1. turns' = [turns EXCEPT ![Id(c)] = new]
    BY <1>2, <1>4 DEF Existing, IInv, TypeOK
  <2>2. /\ new.status = TerminalStatus(c) /\ new.ending = Payload(c)
        /\ new.opening = Existing(c).opening /\ new.baseline = Existing(c).baseline
    BY <1>2 DEF Turn
  <2> HIDE DEF new
  <2>3. Existing(c).status = "open"
    BY <1>4 DEF UnchangedSinceRead
  <2>4. Promise!Applicable(Shown(Existing(c)), call[c].op)
    BY <1>1, <1>2, <1>3, <2>3, Findings
  <2>5. /\ TerminalStatus(c) \in {"completed", "abandoned"}
        /\ Promise!Result(call[c].op.kind) = TerminalStatus(c)
    BY <1>3 DEF TerminalStatus, Promise!Result, Kind
  <2>6. Shown(new) = [status |-> TerminalStatus(c), opening |-> Existing(c).opening,
                      begun |-> Existing(c).baseline # NoBaseline, ending |-> Payload(c)]
    BY <2>2, <2>5 DEF Shown
  <2>7. Shown(Existing(c)) = [status |-> "open", opening |-> Existing(c).opening,
                              begun |-> Existing(c).baseline # NoBaseline]
    BY <2>3 DEF Shown
  <2>8. Promise!After(Shown(Existing(c)), call[c].op) =
          Promise!Sealed(Shown(Existing(c)), TerminalStatus(c), Payload(c))
    BY <1>3, <2>5 DEF Promise!After, Kind, Payload
  <2>9. Shown(new) = Promise!After(Shown(Existing(c)), call[c].op)
    BY <2>6, <2>7, <2>8 DEF Promise!Sealed
  <2>10. QED  BY <1>1, <1>3, <1>4, <2>1, <2>4, <2>9, AcceptStep
<1>5. CASE ~Authorized(c) /\ Finish(c, "unauthorized") /\ turns' = turns
  <2>1. Promise!Refusable(Shown(Existing(c)), call[c].op)
    BY <1>5 DEF Authorized, Promise!Refusable, Kind, Payload
  <2>2. QED  BY <1>1, <1>3, <1>5, <2>1, RefuseStep
<1>6. CASE Goto(c, "reread") /\ turns' = turns
  BY <1>1, <1>6, GotoRefines
<1>7. QED  BY <1>4, <1>5, <1>6 DEF Transition

\* A Turn that is not open is compared with the ending that was asked for.
LEMMA ComparesEnding ==
  ASSUME IInv, NEW c \in Callers, At(c) \notin {"idle", "done"}, turns' = turns,
         Kind(c) \in {"complete", "abandon"}, Existing(c).status # "open",
         FinishIf(c, SameEnding(c))
  PROVE  Promise!Next
<1>1. Existing(c) \in Turn /\ ValidLifecycle(Existing(c))
  BY AtWork
<1>2. SameEnding(c) <=> Promise!AlreadyDone(Shown(Existing(c)), call[c].op)
  BY <1>1, Findings DEF SameEnding
<1>3. ~Promise!Applicable(Shown(Existing(c)), call[c].op)
  BY <1>1, Findings
<1>4. ~SameEnding(c) => Promise!Refusable(Shown(Existing(c)), call[c].op)
  BY <1>2, <1>3 DEF Promise!Refusable
<1>5. QED  BY <1>2, <1>4, AnsweredTruly

LEMMA EndingsRefine ==
  ASSUME IInv, SettledInv, NEW c \in Callers, Reread(c) \/ ReadToAbandon(c)
  PROVE  [Promise!Next]_(Promise!vars)
<1>1. CASE Reread(c)
  <2>1. At(c) = "reread" /\ turns' = turns /\ FinishIf(c, SameEnding(c))
    BY <1>1 DEF Reread, ledger
  <2>2. Kind(c) \in {"complete", "abandon"}
    BY <2>1, AtWork DEF CallOK, Placed, At, Kind
  <2>3. Existing(c).status # "open"
    BY <2>1 DEF SettledInv, Settled, At, Existing, Id
  <2>4. QED  BY <2>1, <2>2, <2>3, ComparesEnding
<1>2. CASE ReadToAbandon(c)
  <2>1. At(c) = "start" /\ Kind(c) = "abandon" /\ turns' = turns
    BY <1>2 DEF ReadToAbandon, ledger
  <2>2. CASE Goto(c, "transition")
    BY <2>1, <2>2, GotoRefines
  <2>3. CASE Existing(c).status # "open" /\ FinishIf(c, SameEnding(c))
    BY <2>1, <2>3, ComparesEnding
  <2>4. QED  BY <1>2, <2>2, <2>3 DEF ReadToAbandon
<1>3. QED  BY <1>1, <1>2

\* Reply attempts and adjudications are not part of the promise.
LEMMA OthersRefine ==
  ASSUME IInv, NEW c \in Callers,
         ReadToAttempt(c) \/ Append(c) \/ ClassifySource(c) \/ ReadToAdjudicate(c)
           \/ Adjudicate(c)
  PROVE  UNCHANGED Promise!vars
<1>1. At(c) \in {"start", "append", "look", "adjudicate"} /\ turns' = turns
  BY DEF ReadToAttempt, Append, ClassifySource, ReadToAdjudicate, Adjudicate, ledger
<1>2. call[c] \in Call /\ CallOK(call[c])
  BY <1>1, AtWork
<1>3. Kind(c) \notin {"begin", "record", "complete", "abandon"}
  BY <1>2 DEF ReadToAttempt, Append, ClassifySource, ReadToAdjudicate, Adjudicate,
     CallOK, Placed, At, Kind
<1>4. call[c].op \notin LifecycleOps
  BY <1>1, <1>3, AtWork
<1>5. ASSUME NEW result, Finish(c, result) PROVE UNCHANGED Promise!vars
  BY <1>1, <1>4, <1>5, OtherCalls
<1>6. ASSUME NEW position, position \notin {"idle", "done"}, Goto(c, position)
      PROVE  UNCHANGED Promise!vars
  BY <1>1, <1>6, GotoRefines
<1>7. CASE ReadToAttempt(c) \/ Append(c) \/ ReadToAdjudicate(c) \/ Adjudicate(c)
  BY <1>5, <1>6, <1>7 DEF ReadToAttempt, Append, ReadToAdjudicate, Adjudicate, FinishIf
<1>8. CASE ClassifySource(c)
  <2> DEFINE n == [call[c] EXCEPT !.at = "adjudicate", !.contract =
                     IF Existing(c).status = "absent" THEN "transient" ELSE "persisted"]
  <2>1. CASE call' = [call EXCEPT ![c].at = "adjudicate", ![c].contract =
               IF Existing(c).status = "absent" THEN "transient" ELSE "persisted"]
    <3>1. call' = [call EXCEPT ![c] = n] /\ n.at = "adjudicate" /\ n.op = call[c].op
      BY <1>2, <2>1 DEF Call, IInv, TypeOK
    <3>2. QED  BY <1>1, <3>1, StillAwaited
  <2>2. QED  BY <1>5, <1>8, <2>1 DEF ClassifySource
<1>9. QED  BY <1>7, <1>8

LEMMA StepRefines ==
  ASSUME IInv, SettledInv, [Next]_vars
  PROVE  [Promise!Next]_(Promise!vars)
<1>1. CASE UNCHANGED <<turns, call>>
  <2>1. [t \in TurnIds |-> Shown(turns[t])]' = [t \in TurnIds |-> Shown(turns[t])]
    BY <1>1 DEF Shown
  <2>2. [d \in Callers |-> Awaited(call[d])]' = [d \in Callers |-> Awaited(call[d])]
    BY <1>1 DEF Awaited, LifecycleOps
  <2>3. QED  BY <2>1, <2>2 DEF Promise!vars
<1>2. CASE \E x \in Authorities : Approve(x) \/ Revoke(x)
  BY <1>1, <1>2 DEF Approve, Revoke, ledger
<1>3. ASSUME NEW c \in Callers,
             (\E op \in Ops : Invoke(c, op)) \/ Work(c) \/ Return(c) \/ Crash(c)
      PROVE  [Promise!Next]_(Promise!vars)
  <2>1. CASE Work(c)
    BY <2>1, EnterRefines, LookUpRefines, CaptureRefines, CreateRefines,
       ReadToCompleteRefines, CheckEvidenceRefines, TransitionRefines, EndingsRefine,
       OthersRefine DEF Work
  <2>2. QED  BY <1>3, <2>1, InvokeRefines, LeaveRefines
<1>4. QED  BY <1>1, <1>2, <1>3 DEF Next, vars, ledger

LEMMA InitRefines == Init => Promise!Init
<1> SUFFICES ASSUME Init PROVE Promise!Init
  OBVIOUS
<1>1. \A t \in TurnIds : Shown(turns[t]) = [status |-> "absent"]
  BY DEF Init, NoTurn, Shown
<1>2. \A c \in Callers : Awaited(call[c]) = [kind |-> "none"]
  BY DEF Init, IdleCall, Awaited
<1>3. QED  BY <1>1, <1>2 DEF Promise!Init, Promise!Nothing, Promise!NoCall

\* However callers interleave, crash and retry, every begin, record, complete and
\* abandon happens at one instant, or is refused for a reason the promise allows.
THEOREM PromiseIsKept == Spec => ImplementsPromise
  BY InitRefines, StepRefines, InvariantHolds, SettledInvariance, PTL
     DEF Spec, ImplementsPromise, Promise!Spec
=============================================================================
