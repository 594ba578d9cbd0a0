--------------------------- MODULE ArchivalProofs ---------------------------
(***************************************************************************)
(* Proofs about Archival for any number of archivals, coordinators,        *)
(* batches, attempts, crashes and faults.                                  *)
(***************************************************************************)
EXTENDS Archival, TLAPS

-----------------------------------------------------------------------------
(* What the record values of the store are, field by field. *)

\* A claim keeps phase and binding, mints a token newer than any before, and
\* counts an attempt only when there is one left to count.
LEMMA ClaimedFacts ==
  ASSUME NEW r \in Record,
         r.status # "processing" => Attempts(r) < MaxAttempts
  PROVE  LET n == Claimed(r) IN
         /\ n \in Record
         /\ n.status = "processing"
         /\ n.phase = r.phase /\ n.binding = r.binding
         /\ n.version = r.version + 1 /\ n.token = r.version + 1
         /\ n.extraction >= r.extraction
         /\ n.phase = "extraction" /\ ~n.recovered => n.extraction = r.extraction + 1
         /\ n.phase = "extraction" => n.commit = r.commit
<1>1. r.version \in Nat /\ r.extraction \in Counts /\ r.commit \in Counts /\ r.phase \in Phases
  BY DEF Record
<1>2. /\ r.extraction + Count(r, "extraction") \in Counts
      /\ r.extraction + Count(r, "extraction") >= r.extraction
      /\ r.commit + Count(r, "commit") \in Counts
  BY <1>1, BoundsAssumption DEF Attempts, Counts, Count, Recovering, Phases
<1>3. /\ r.phase = "extraction" /\ ~Recovering(r) => Count(r, "extraction") = 1
      /\ r.phase = "extraction" => Count(r, "commit") = 0
  BY DEF Count
<1>4. r.version + 1 \in Nat /\ ClaimPermit(r) \in Nat
  BY <1>1 DEF ClaimPermit
<1>5. Recovering(r) \in BOOLEAN /\ "processing" \in Statuses
  BY DEF Recovering, Statuses
<1>6. Claimed(r) \in Record
  BY <1>2, <1>4, <1>5 DEF Claimed, Record
<1>7. /\ Claimed(r).status = "processing"
      /\ Claimed(r).phase = r.phase /\ Claimed(r).binding = r.binding
      /\ Claimed(r).version = r.version + 1 /\ Claimed(r).token = r.version + 1
      /\ Claimed(r).extraction = r.extraction + Count(r, "extraction")
      /\ Claimed(r).commit = r.commit + Count(r, "commit")
      /\ Claimed(r).recovered = Recovering(r)
  BY DEF Claimed, Record
<1>8. /\ Claimed(r).extraction >= r.extraction
      /\ Claimed(r).phase = "extraction" /\ ~Claimed(r).recovered
           => Claimed(r).extraction = r.extraction + 1
      /\ Claimed(r).phase = "extraction" => Claimed(r).commit = r.commit
  <2>1. Count(r, "commit") = 0 => r.commit + Count(r, "commit") = r.commit
    BY <1>1 DEF Counts
  <2>2. QED  BY <1>2, <1>3, <1>7, <2>1
<1>9. QED  BY <1>6, <1>7, <1>8

\* A binding moves the copy to the commit phase with its first commit attempt.
LEMMA BoundFacts ==
  ASSUME NEW r \in Record, NEW b \in Batches, r.commit = 0
  PROVE  LET n == Bound(r, b) IN
         /\ n \in Record
         /\ n.status = r.status /\ n.token = r.token
         /\ n.phase = "commit" /\ n.binding = b
         /\ n.version = r.version + 1
         /\ n.extraction = r.extraction
<1>1. r.commit + 1 \in Counts  BY BoundsAssumption DEF Counts
<1>2. r.version + 1 \in Nat /\ "commit" \in Phases /\ b \in Bindings
  BY DEF Record, Phases, Bindings
<1>3. QED  BY <1>1, <1>2 DEF Bound, Record

\* A completed record keeps its phase, binding and counters.
LEMMA CompletedFacts ==
  ASSUME NEW r \in Record
  PROVE  LET n == Completed(r) IN
         /\ n \in Record
         /\ n.status = "completed" /\ n.token = 0
         /\ n.phase = r.phase /\ n.binding = r.binding
         /\ n.version = r.version + 1
         /\ n.extraction = r.extraction /\ n.commit = r.commit
<1>1. r.version + 1 \in Nat /\ "completed" \in Statuses  BY DEF Record, Statuses
<1>2. QED  BY <1>1 DEF Completed, Released, Record

\* A failed record keeps its phase, binding and counters, and waits for a retry
\* only with attempts left.
LEMMA FailedFacts ==
  ASSUME NEW r \in Record, NEW retryable \in BOOLEAN
  PROVE  LET n == Failed(r, retryable) IN
         /\ n \in Record
         /\ n.status \in {"retry_wait", "failed"} /\ n.token = 0
         /\ n.phase = r.phase /\ n.binding = r.binding
         /\ n.version = r.version + 1
         /\ n.extraction = r.extraction /\ n.commit = r.commit
         /\ n.status = "retry_wait" => Attempts(n) < MaxAttempts
<1> DEFINE s == FailureStatus(r, retryable)
<1>1. /\ s \in Statuses /\ s \in {"retry_wait", "failed"}
      /\ s = "retry_wait" => Attempts(r) < MaxAttempts
  BY DEF Statuses, FailureStatus
<1>2. r.version + 1 \in Nat
  BY DEF Record
<1> HIDE DEF s
<1>3. /\ Failed(r, retryable) \in Record
      /\ Failed(r, retryable).status = s /\ Failed(r, retryable).token = 0
      /\ Failed(r, retryable).phase = r.phase
      /\ Failed(r, retryable).binding = r.binding
      /\ Failed(r, retryable).version = r.version + 1
      /\ Failed(r, retryable).extraction = r.extraction
      /\ Failed(r, retryable).commit = r.commit
  BY <1>1, <1>2 DEF Failed, Released, Record, s
<1>4. Attempts(Failed(r, retryable)) = Attempts(r)
  BY <1>3 DEF Attempts
<1>5. QED  BY <1>1, <1>3, <1>4
-----------------------------------------------------------------------------
(* What the steps do to the in-flight work. *)

LEMMA InitialValues ==
  NoRecord \in Record /\ IdleTask \in Task /\ NoConsumer \in ConsumerLease
<1>1. /\ "absent" \in Statuses /\ "extraction" \in Phases /\ 0 \in Counts
      /\ NoBatch \in Bindings
  BY BoundsAssumption DEF Statuses, Phases, Counts, Bindings
<1>2. NoRecord \in Record
  BY <1>1 DEF NoRecord, Record
<1>3. "idle" \in Positions /\ AnyOne \in Targets
  BY DEF Positions, Targets
<1>4. IdleTask \in Task
  BY <1>2, <1>3 DEF IdleTask, Task
<1>5. NoConsumer \in ConsumerLease
  BY DEF NoConsumer, ConsumerLease, Owners
<1>6. QED  BY <1>2, <1>4, <1>5

\* Moving a coordinator to another position leaves its record copy alone.
LEMMA GotoFacts ==
  ASSUME task \in [Coordinators -> Task], NEW c \in Coordinators,
         NEW position \in Positions, Goto(c, position)
  PROVE  /\ task' \in [Coordinators -> Task]
         /\ task'[c].at = position
         /\ task'[c].id = task[c].id /\ task'[c].copy = task[c].copy
         /\ \A d \in Coordinators : d # c => task'[d] = task[d]
  BY DEF Goto, Task

\* A coordinator that finishes with an archival no longer works on any.
LEMMA FinishFacts ==
  ASSUME task \in [Coordinators -> Task], NEW c \in Coordinators, Finish(c)
  PROVE  /\ task' \in [Coordinators -> Task]
         /\ task'[c].at \notin Working
         /\ \A d \in Coordinators : d # c => task'[d] = task[d]
<1>1. PICK position \in {"loop", "release"} :
        task' = [task EXCEPT ![c].at = position, ![c].id = AnyOne,
                             ![c].copy = NoRecord]
  BY DEF Finish
<1>2. position \in Positions /\ position \notin Working /\ AnyOne \in Targets
  BY DEF Positions, Working, Targets
<1>3. QED  BY <1>1, <1>2, InitialValues DEF Task

\* A coordinator that goes idle does not either.
LEMMA IdleFacts ==
  ASSUME task \in [Coordinators -> Task], NEW c \in Coordinators,
         task' = [task EXCEPT ![c] = IdleTask]
  PROVE  /\ task' \in [Coordinators -> Task]
         /\ task'[c].at \notin Working
         /\ \A d \in Coordinators : d # c => task'[d] = task[d]
  BY InitialValues DEF IdleTask, Working

-----------------------------------------------------------------------------
(* Two shapes of step cover the specification: the quiet ones, that change no *)
(* record, and the writing ones, that give one record its next version.      *)

LEMMA QuietStep ==
  ASSUME IInv, TypeOK',
         UNCHANGED <<records, artifacts, publications, extractions>>,
         liveLeases' \subseteq liveLeases,
         \A d \in Coordinators :
           task'[d].at \in Working =>
             /\ task[d].at \in Working
             /\ task'[d].id = task[d].id /\ task'[d].copy = task[d].copy
             /\ task'[d].at \in {"claimed", "bound"} => task'[d].at = task[d].at
             /\ task'[d].at \notin {"claimed", "bound"} =>
                  Copy(d).phase = "extraction"
  PROVE  IInv'
<1>1. RecordShape' /\ PublishedWithReceipt' /\ ExtractionsCounted'
      /\ RetryHasAttemptsLeft'
  BY DEF IInv, RecordShape, PublishedWithReceipt, ExtractionsCounted,
         RetryHasAttemptsLeft, Attempts
<1>2. CopyIsVersioned'
  BY DEF IInv, CopyIsVersioned, Id, Copy
<1>3. TokensAreUnique'
  BY DEF IInv, TokensAreUnique, Id, Copy
<1>4. ClaimIsUnspent'
  <2>1. "claimed" \in Working
    BY DEF Working
  <2>2. QED  BY <2>1 DEF IInv, ClaimIsUnspent, Id, Copy, Extractable
<1>5. QED  BY <1>1, <1>2, <1>3, <1>4 DEF IInv

\* What the next version n of record a has to look like.
NextVersion(a, n) ==
  /\ n \in Record
  /\ n.version = records[a].version + 1
  /\ n.extraction >= records[a].extraction
  /\ n.status # "absent"
  /\ n.status = "pending" => n.phase = "extraction" /\ n.extraction = 0
  /\ n.status = "completed" => n.phase = "commit"
  /\ n.status = "processing" <=> n.token # 0
  /\ n.phase = "commit" <=> n.binding # NoBatch
  /\ n.phase = "extraction" => n.commit = 0
  /\ n.token <= n.version
  /\ n.status = "retry_wait" => Attempts(n) < MaxAttempts

LEMMA RecordStep ==
  ASSUME IInv, NEW a \in Archivals, NEW n, NextVersion(a, n),
         records' = [records EXCEPT ![a] = n],
         liveLeases' \subseteq liveLeases \cup {a},
         a \in liveLeases' => n.status = "processing",
         UNCHANGED extractions
  PROVE  RecordShape' /\ ExtractionsCounted' /\ RetryHasAttemptsLeft'
<1>1. /\ records'[a] = n
      /\ \A b \in Archivals : b # a => records'[b] = records[b]
  BY DEF IInv, TypeOK
<1>2. RecordShape'
  <2> SUFFICES ASSUME NEW b \in Archivals
               PROVE  LET r == records'[b] IN
                      /\ r.status = "absent" => r = NoRecord
                      /\ r.status = "pending" =>
                           r.phase = "extraction" /\ r.extraction = 0
                      /\ r.status = "completed" => r.phase = "commit"
                      /\ r.status = "processing" <=> r.token # 0
                      /\ r.phase = "commit" <=> r.binding # NoBatch
                      /\ r.phase = "extraction" => r.commit = 0
                      /\ r.token <= r.version
                      /\ b \in liveLeases' => r.status = "processing"
    BY DEF RecordShape
  <2>1. CASE b = a  BY <1>1, <2>1 DEF NextVersion
  <2>2. CASE b # a  BY <1>1, <2>2 DEF IInv, RecordShape
  <2>3. QED  BY <2>1, <2>2
<1>3. ExtractionsCounted'
  <2>1. extractions[a] <= n.extraction
    BY DEF IInv, TypeOK, ExtractionsCounted, NextVersion, Record, Counts
  <2>2. QED  BY <1>1, <2>1 DEF IInv, ExtractionsCounted
<1>4. RetryHasAttemptsLeft'
  BY <1>1 DEF IInv, RetryHasAttemptsLeft, NextVersion, Attempts
<1>5. QED  BY <1>2, <1>3, <1>4

\* After a write the copies of everyone but the writer are of older versions.
LEMMA OthersStep ==
  ASSUME IInv, NEW a \in Archivals, NEW n, NextVersion(a, n),
         records' = [records EXCEPT ![a] = n],
         NEW d \in Coordinators, task'[d] = task[d], task[d].at \in Working
  PROVE  /\ Id(d)' \in Archivals
         /\ Copy(d)'.status = "processing"
         /\ Copy(d)'.token # 0
         /\ Copy(d)'.token <= Copy(d)'.version
         /\ Copy(d)'.version <= records'[Id(d)'].version
         /\ Copy(d)'.version = records'[Id(d)'].version =>
              Copy(d)' = records'[Id(d)']
         /\ task'[d].at \notin {"claimed", "bound"} => Copy(d)'.phase = "extraction"
         /\ task'[d].at = "bound" => Copy(d)'.phase = "commit"
<1>1. Id(d)' = Id(d) /\ Copy(d)' = Copy(d)
  BY DEF Id, Copy
<1>2. Copy(d) \in Record /\ records[a] \in Record
  BY DEF IInv, TypeOK, Copy, Task
<1>3. CASE Id(d) = a
  BY <1>1, <1>2, <1>3 DEF IInv, TypeOK, CopyIsVersioned, NextVersion, Record
<1>4. CASE Id(d) # a
  BY <1>1, <1>4 DEF IInv, TypeOK, CopyIsVersioned
<1>5. QED  BY <1>3, <1>4

\* A write whose writer is done with the archival (a submission has no writer).
LEMMA RetireStep ==
  ASSUME IInv, TypeOK', NEW a \in Archivals, NEW n, NextVersion(a, n),
         n.token \in {0, records[a].token},
         records' = [records EXCEPT ![a] = n],
         liveLeases' \subseteq liveLeases \cup {a},
         a \in liveLeases' => n.status = "processing",
         UNCHANGED extractions,
         PublishedWithReceipt',
         \A d \in Coordinators :
           task'[d].at \in Working => task'[d] = task[d]
  PROVE  IInv'
<1>1. RecordShape' /\ ExtractionsCounted' /\ RetryHasAttemptsLeft'
  BY RecordStep
<1>2. CopyIsVersioned'
  <2> SUFFICES ASSUME NEW d \in Coordinators, task'[d].at \in Working
               PROVE  /\ Id(d)' \in Archivals
                      /\ Copy(d)'.status = "processing"
                      /\ Copy(d)'.token # 0
                      /\ Copy(d)'.token <= Copy(d)'.version
                      /\ Copy(d)'.version <= records'[Id(d)'].version
                      /\ Copy(d)'.version = records'[Id(d)'].version =>
                           Copy(d)' = records'[Id(d)']
                      /\ task'[d].at \notin {"claimed", "bound"} =>
                           Copy(d)'.phase = "extraction"
                      /\ task'[d].at = "bound" => Copy(d)'.phase = "commit"
    BY DEF CopyIsVersioned
  <2>1. task'[d] = task[d] /\ task[d].at \in Working
    OBVIOUS
  <2>2. QED  BY <2>1, OthersStep
<1>3. TokensAreUnique'
  BY DEF IInv, TokensAreUnique, Id, Copy
<1>4. ClaimIsUnspent'
  <2> SUFFICES ASSUME NEW d \in Coordinators, task'[d].at = "claimed",
                      Extractable(Copy(d)'),
                      Copy(d)'.token = records'[Id(d)'].token
               PROVE  extractions[Id(d)'] < records'[Id(d)'].extraction
    BY DEF ClaimIsUnspent, Extractable
  <2>1. /\ task'[d] = task[d] /\ task[d].at \in Working
        /\ Id(d)' = Id(d) /\ Copy(d)' = Copy(d)
    BY DEF Working, Id, Copy
  <2>2. Id(d) \in Archivals /\ Copy(d).token # 0
    BY <2>1 DEF IInv, CopyIsVersioned
  <2>3. CASE Id(d) # a
    <3>1. records'[Id(d)] = records[Id(d)]
      BY <2>2, <2>3 DEF IInv, TypeOK
    <3>2. QED  BY <2>1, <2>2, <3>1 DEF IInv, ClaimIsUnspent
  <2>4. CASE Id(d) = a
    <3>1. records'[a] = n
      BY DEF IInv, TypeOK
    <3>2. n.token = records[a].token
      BY <2>1, <2>2, <2>4, <3>1
    <3>3. extractions[a] < records[a].extraction
      BY <2>1, <2>4, <3>1, <3>2 DEF IInv, ClaimIsUnspent
    <3>4. /\ extractions[a] \in Nat /\ records[a].extraction \in Nat
          /\ n.extraction \in Nat /\ n.extraction >= records[a].extraction
      BY BoundsAssumption DEF IInv, TypeOK, NextVersion, Record, Counts
    <3>5. QED  BY <2>1, <2>4, <3>1, <3>3, <3>4
  <2>5. QED  BY <2>3, <2>4
<1>5. QED  BY <1>1, <1>2, <1>3, <1>4 DEF IInv

-----------------------------------------------------------------------------
(* Type correctness of each step. *)

LEMMA AcquireType ==
  ASSUME NEW c \in Coordinators, Acquire(c)
  PROVE  consumer' \in ConsumerLease
  BY DEF Acquire, ConsumerLease, Owners

LEMMA RenewType ==
  ASSUME TypeOK, NEW c \in Coordinators, RenewLeases(c) \/ CannotRenewLeases(c)
  PROVE  consumer' \in ConsumerLease
  BY AcquireType DEF RenewLeases, CannotRenewLeases, TypeOK

LEMMA RecordWriteType ==
  ASSUME TypeOK, NEW a \in Archivals, NEW n \in Record,
         records' = [records EXCEPT ![a] = n]
  PROVE  records' \in [Archivals -> Record]
  BY DEF TypeOK

-----------------------------------------------------------------------------
(* The steps that change no record. *)

LEMMA BeginInv ==
  ASSUME IInv, NEW c \in Coordinators, NEW target \in Targets, Begin(c, target)
  PROVE  IInv'
<1>1. /\ task' \in [Coordinators -> Task]
      /\ task'[c].at \notin Working
      /\ \A d \in Coordinators : d # c => task'[d] = task[d]
  <2>1. "loop" \in Positions /\ "loop" \notin Working
    BY DEF Positions, Working
  <2>2. [IdleTask EXCEPT !.at = "loop", !.target = target] \in Task
    BY <2>1, InitialValues DEF Task
  <2>3. [IdleTask EXCEPT !.at = "loop", !.target = target].at = "loop"
    BY DEF IdleTask
  <2>4. QED  BY <2>1, <2>2, <2>3 DEF Begin, IInv, TypeOK
<1>2. TypeOK'
  BY <1>1, AcquireType DEF Begin, IInv, TypeOK, store, life, history, budget
<1>3. QED
  BY <1>1, <1>2, QuietStep
     DEF Begin, IInv, CopyIsVersioned, store, history

LEMMA LoopInv ==
  ASSUME IInv, NEW c \in Coordinators,
         NextRound(c) \/ NothingToClaim(c) \/ Release(c)
  PROVE  IInv'
<1>1. /\ task' \in [Coordinators -> Task]
      /\ task'[c].at \notin Working
      /\ \A d \in Coordinators : d # c => task'[d] = task[d]
  <2>1. {"claim", "release"} \subseteq Positions \ Working
    BY DEF Positions, Working
  <2>2. QED
    BY <2>1, GotoFacts, IdleFacts
       DEF NextRound, NothingToClaim, Release, IInv, TypeOK
<1>2. consumer' \in ConsumerLease
  BY AcquireType, InitialValues
     DEF NextRound, NothingToClaim, Release, IInv, TypeOK
<1>3. TypeOK'
  BY <1>1, <1>2 DEF NextRound, NothingToClaim, Release, IInv, TypeOK, store,
                    life, history, budget
<1>4. QED
  BY <1>1, <1>3, QuietStep
     DEF NextRound, NothingToClaim, Release, IInv, CopyIsVersioned, store, history

LEMMA HeartbeatInv ==
  ASSUME IInv, NEW c \in Coordinators, Heartbeat(c)
  PROVE  IInv'
<1>1. /\ task' \in [Coordinators -> Task]
      /\ task[c].at = "extracting" /\ task'[c].at \in {"extracting", "lost"}
      /\ task'[c].id = task[c].id /\ task'[c].copy = task[c].copy
      /\ \A d \in Coordinators : d # c => task'[d] = task[d]
  <2>1. "lost" \in Positions
    BY DEF Positions, Working
  <2>2. QED  BY <2>1, GotoFacts DEF Heartbeat, IInv, TypeOK
<1>2. TypeOK'
  BY <1>1, RenewType DEF Heartbeat, IInv, TypeOK, store, life, history, budget
<1>3. "extracting" \in Working
  BY DEF Working
<1>4. QED
  BY <1>1, <1>2, <1>3, QuietStep
     DEF Heartbeat, IInv, CopyIsVersioned, store, history

LEMMA FinishExtractionInv ==
  ASSUME IInv, NEW c \in Coordinators, FinishExtraction(c)
  PROVE  IInv'
<1>1. /\ task' \in [Coordinators -> Task]
      /\ task[c].at \in {"extracting", "lost"}
      /\ \/ task'[c].at \notin Working
         \/ /\ task'[c].at = "extracted"
            /\ task'[c].id = task[c].id /\ task'[c].copy = task[c].copy
      /\ \A d \in Coordinators : d # c => task'[d] = task[d]
  <2>1. "extracted" \in Positions
    BY DEF Positions, Working
  <2>2. QED  BY <2>1, GotoFacts, FinishFacts DEF FinishExtraction, IInv, TypeOK
<1>2. TypeOK'
  BY <1>1, RenewType
     DEF FinishExtraction, IInv, TypeOK, store, life, history, budget
<1>3. {"extracting", "lost"} \subseteq Working
  BY DEF Working
<1>4. QED
  BY <1>1, <1>2, <1>3, QuietStep
     DEF FinishExtraction, IInv, CopyIsVersioned, store, history

\* Closing, the clock and everything that merely drops a claim.
LEMMA LeaveInv ==
  ASSUME IInv, NEW c \in Coordinators,
         StoreError(c) \/ PermitLapses(c) \/ Crash(c)
  PROVE  IInv'
<1>1. /\ task' \in [Coordinators -> Task]
      /\ task'[c].at \notin Working
      /\ \A d \in Coordinators : d # c => task'[d] = task[d]
  <2>1. CASE StoreError(c)
    <3>1. "release" \in Positions /\ "release" \notin Working /\ AnyOne \in Targets
      BY DEF Positions, Working, Targets
    <3>2. QED
      BY <2>1, <3>1, InitialValues DEF StoreError, IInv, TypeOK, Task
  <2>2. CASE PermitLapses(c)
    BY <2>2, FinishFacts DEF PermitLapses, IInv, TypeOK
  <2>3. CASE Crash(c)
    BY <2>3, IdleFacts DEF Crash, IInv, TypeOK
  <2>4. QED  BY <2>1, <2>2, <2>3
<1>2. consumer' \in ConsumerLease /\ crashes' \in Nat /\ faults' \in Nat
  BY DEF StoreError, PermitLapses, Crash, IInv, TypeOK, ConsumerLease, Owners
<1>3. accepting' \subseteq Coordinators /\ closeReport' \in [Coordinators -> Reports]
  <2>1. "open" \in Reports
    BY DEF Reports
  <2>2. QED
    BY <2>1 DEF StoreError, PermitLapses, Crash, IInv, TypeOK, life
<1>4. TypeOK'
  BY <1>1, <1>2, <1>3
     DEF StoreError, PermitLapses, Crash, IInv, TypeOK, store, history
<1>5. QED
  BY <1>1, <1>4, QuietStep
     DEF StoreError, PermitLapses, Crash, IInv, CopyIsVersioned, store, history

LEMMA CloseInv ==
  ASSUME IInv, NEW c \in Coordinators, CloseStart(c) \/ CloseReturn(c)
  PROVE  IInv'
<1>1. closeReport' \in [Coordinators -> Reports]
  <2>1. {"closing", "stopped", "timed_out"} \subseteq Reports
    BY DEF Reports
  <2>2. QED  BY <2>1 DEF CloseStart, CloseReturn, IInv, TypeOK
<1>2. TypeOK'
  BY <1>1 DEF CloseStart, CloseReturn, IInv, TypeOK, store, history, budget
<1>3. QED
  BY <1>2, QuietStep
     DEF CloseStart, CloseReturn, IInv, CopyIsVersioned, store, history

LEMMA TimeInv ==
  ASSUME IInv, Time
  PROVE  IInv'
<1>1. TypeOK'
  <2>1. ASSUME NEW a \in Archivals, LeaseExpires(a)  PROVE TypeOK'
    BY <2>1 DEF LeaseExpires, SpendUnless, IInv, TypeOK, life, history
  <2>2. ASSUME NEW a \in Archivals, PermitExpires(a)  PROVE TypeOK'
    BY <2>2 DEF PermitExpires, IInv, TypeOK, life, history
  <2>3. ASSUME NEW a \in Archivals, RetryDue(a)  PROVE TypeOK'
    BY <2>3 DEF RetryDue, IInv, TypeOK, life, history, budget
  <2>4. ASSUME ConsumerExpires  PROVE TypeOK'
    <3>1. consumer' \in ConsumerLease
      BY <2>4 DEF ConsumerExpires, IInv, TypeOK, ConsumerLease
    <3>2. faults' \in Nat
      BY <2>4 DEF ConsumerExpires, SpendUnless, IInv, TypeOK
    <3>3. QED
      BY <2>4, <3>1, <3>2 DEF ConsumerExpires, IInv, TypeOK, store, life, history
  <2>5. QED  BY <2>1, <2>2, <2>3, <2>4 DEF Time
<1>2. /\ UNCHANGED <<records, artifacts, publications, extractions, task>>
      /\ liveLeases' \subseteq liveLeases
  BY DEF Time, LeaseExpires, PermitExpires, RetryDue, ConsumerExpires, store,
         history
<1>3. QED  BY <1>1, <1>2, QuietStep DEF IInv, CopyIsVersioned

-----------------------------------------------------------------------------
(* The steps that start an extraction or write a record. *)

LEMMA SubmitInv ==
  ASSUME IInv, NEW a \in Archivals, Submit(a)
  PROVE  IInv'
<1> DEFINE n == [NoRecord EXCEPT !.status = "pending", !.version = 1]
<1>1. /\ records[a] = NoRecord /\ records' = [records EXCEPT ![a] = n]
  BY DEF Submit, IInv, RecordShape
<1>2. /\ n \in Record /\ n.status = "pending" /\ n.version = 1 /\ n.token = 0
      /\ n.phase = "extraction" /\ n.binding = NoBatch
      /\ n.extraction = 0 /\ n.commit = 0
  <2>1. "pending" \in Statuses
    BY DEF Statuses
  <2>2. QED  BY <2>1, InitialValues DEF NoRecord, Record
<1>3. NextVersion(a, n)
  BY <1>1, <1>2 DEF NextVersion, NoRecord
<1>4. TypeOK'
  BY <1>1, <1>2, RecordWriteType
     DEF Submit, IInv, TypeOK, life, history, budget
<1>5. a \notin liveLeases
  BY <1>1 DEF IInv, RecordShape, NoRecord
<1>6. PublishedWithReceipt'
  <2>1. records'[a] = n /\ \A b \in Archivals : b # a => records'[b] = records[b]
    BY <1>1 DEF IInv, TypeOK
  <2>2. publications[a] = 0 /\ artifacts[a] = NoBatch
    BY <1>1 DEF IInv, PublishedWithReceipt, NoRecord
  <2>3. QED
    BY <1>2, <2>1, <2>2 DEF Submit, IInv, PublishedWithReceipt, history
<1>7. n.token \in {0, records[a].token} /\ UNCHANGED <<task, liveLeases, extractions>>
  BY <1>2 DEF Submit, history
<1> HIDE DEF n
<1>8. QED  BY <1>1, <1>3, <1>4, <1>5, <1>6, <1>7, RetireStep

LEMMA StartExtractionInv ==
  ASSUME IInv, NEW c \in Coordinators, StartExtraction(c)
  PROVE  IInv'
<1>1. CASE UNCHANGED extractions /\ CannotRenewLeases(c) /\ Finish(c)
  <2>1. /\ task' \in [Coordinators -> Task]
        /\ task'[c].at \notin Working
        /\ \A d \in Coordinators : d # c => task'[d] = task[d]
    BY <1>1, FinishFacts DEF IInv, TypeOK
  <2>2. TypeOK'
    BY <1>1, <2>1, RenewType
       DEF StartExtraction, IInv, TypeOK, store, life, budget
  <2>3. QED
    BY <1>1, <2>1, <2>2, QuietStep
       DEF StartExtraction, IInv, CopyIsVersioned, store
<1>2. CASE /\ RenewLeases(c) /\ Goto(c, "extracting")
           /\ extractions' = [extractions EXCEPT ![Id(c)] = @ + 1]
  <2>1. /\ task' \in [Coordinators -> Task]
        /\ task[c].at = "claimed" /\ task'[c].at = "extracting"
        /\ task'[c].id = task[c].id /\ task'[c].copy = task[c].copy
        /\ \A d \in Coordinators : d # c => task'[d] = task[d]
    <3>1. "extracting" \in Positions
      BY DEF Positions, Working
    <3>2. QED  BY <1>2, <3>1, GotoFacts DEF StartExtraction, IInv, TypeOK
  <2>2. "claimed" \in Working /\ "extracting" \in Working
    BY DEF Working
  <2>3. /\ Id(c) \in Archivals
        /\ Copy(c).token = records[Id(c)].token
        /\ Extractable(Copy(c))
    BY <1>2, <2>1, <2>2
       DEF StartExtraction, RenewLeases, CanRenew, IInv, CopyIsVersioned
  <2>4. /\ extractions[Id(c)] < records[Id(c)].extraction
        /\ extractions[Id(c)] \in Nat /\ records[Id(c)].extraction \in Nat
    BY <2>1, <2>3, BoundsAssumption
       DEF IInv, ClaimIsUnspent, TypeOK, Record, Counts
  <2>5. /\ extractions' \in [Archivals -> Nat]
        /\ extractions'[Id(c)] = extractions[Id(c)] + 1
        /\ \A b \in Archivals : b # Id(c) => extractions'[b] = extractions[b]
    BY <1>2, <2>3, <2>4 DEF IInv, TypeOK
  <2>6. TypeOK'
    BY <1>2, <2>1, <2>5, RenewType
       DEF StartExtraction, IInv, TypeOK, store, life, budget
  <2>7. UNCHANGED <<records, artifacts, liveLeases, publications>>
    BY DEF StartExtraction, store
  <2>8. RecordShape' /\ PublishedWithReceipt' /\ RetryHasAttemptsLeft'
    BY <2>7 DEF IInv, RecordShape, PublishedWithReceipt, RetryHasAttemptsLeft,
                Attempts
  <2>9. ExtractionsCounted'
    BY <2>4, <2>5, <2>7 DEF IInv, ExtractionsCounted
  <2>10. CopyIsVersioned'
    BY <2>1, <2>2, <2>3, <2>7 DEF IInv, CopyIsVersioned, Id, Copy, Extractable
  <2>11. TokensAreUnique'
    BY <2>1, <2>2 DEF IInv, TokensAreUnique, Id, Copy
  <2>12. ClaimIsUnspent'
    <3> SUFFICES ASSUME NEW d \in Coordinators, task'[d].at = "claimed",
                        Extractable(Copy(d)'),
                        Copy(d)'.token = records'[Id(d)'].token
                 PROVE  extractions'[Id(d)'] < records'[Id(d)'].extraction
      BY DEF ClaimIsUnspent, Extractable
    <3>1. d # c /\ task'[d] = task[d] /\ Id(d)' = Id(d) /\ Copy(d)' = Copy(d)
      BY <2>1 DEF Id, Copy
    <3>2. Id(d) # Id(c)
      BY <2>1, <2>2, <2>3, <2>7, <3>1 DEF IInv, TokensAreUnique
    <3>3. Id(d) \in Archivals
      BY <2>2, <3>1 DEF IInv, CopyIsVersioned
    <3>4. QED
      BY <2>5, <2>7, <3>1, <3>2, <3>3 DEF IInv, ClaimIsUnspent
  <2>13. QED
    BY <2>6, <2>8, <2>9, <2>10, <2>11, <2>12 DEF IInv
<1>3. QED  BY <1>1, <1>2 DEF StartExtraction

LEMMA ClaimInv ==
  ASSUME IInv, NEW c \in Coordinators, Claim(c)
  PROVE  IInv'
<1>1. PICK a \in Archivals :
        /\ ArchivalReady(a)
        /\ records' = [records EXCEPT ![a] = Claimed(records[a])]
        /\ liveLeases' = liveLeases \cup {a}
        /\ livePermits' = IF records[a].phase = "commit"
                            THEN livePermits \cup {a} ELSE livePermits \ {a}
        /\ due' = due \ {a}
        /\ task' = [task EXCEPT ![c].at = "claimed", ![c].id = a,
                                ![c].copy = Claimed(records[a])]
  BY DEF Claim, Candidates
<1> DEFINE r == records[a]
           n == Claimed(records[a])
<1>2. r \in Record
  BY DEF IInv, TypeOK
<1>3. r.status # "processing" => Attempts(r) < MaxAttempts
  BY <1>1, BoundsAssumption
     DEF ArchivalReady, IInv, RecordShape, RetryHasAttemptsLeft, Attempts
<1>4. /\ n \in Record
      /\ n.status = "processing"
      /\ n.phase = r.phase /\ n.binding = r.binding
      /\ n.version = r.version + 1 /\ n.token = r.version + 1
      /\ n.extraction >= r.extraction
      /\ n.phase = "extraction" /\ ~n.recovered => n.extraction = r.extraction + 1
      /\ n.phase = "extraction" => n.commit = r.commit
  BY <1>2, <1>3, ClaimedFacts
<1> HIDE DEF n
<1>5. r.version \in Nat /\ r.extraction \in Nat
  BY <1>2, BoundsAssumption DEF Record, Counts
<1>6. NextVersion(a, n)
  BY <1>4, <1>5 DEF NextVersion, IInv, RecordShape
<1>7. /\ task' \in [Coordinators -> Task]
      /\ task'[c].at = "claimed" /\ task'[c].id = a /\ task'[c].copy = n
      /\ \A d \in Coordinators : d # c => task'[d] = task[d]
  <2>1. "claimed" \in Positions /\ a \in Targets
    BY DEF Positions, Working, Targets
  <2>2. task' = [task EXCEPT ![c].at = "claimed", ![c].id = a, ![c].copy = n]
    BY <1>1 DEF n
  <2>3. QED  BY <1>4, <2>1, <2>2 DEF IInv, TypeOK, Task
<1>8. /\ records'[a] = n
      /\ \A b \in Archivals : b # a => records'[b] = records[b]
  BY <1>1 DEF IInv, TypeOK, n
<1>9. TypeOK'
  <2>1. records' \in [Archivals -> Record]
    BY <1>1, <1>4, RecordWriteType DEF IInv, n
  <2>2. QED
    BY <1>1, <1>7, <2>1 DEF Claim, IInv, TypeOK, life, history, budget
<1>10. RecordShape' /\ ExtractionsCounted' /\ RetryHasAttemptsLeft'
  <2>1. UNCHANGED extractions
    BY DEF Claim, history
  <2>2. records' = [records EXCEPT ![a] = n]
    BY <1>1 DEF n
  <2>3. QED  BY <1>1, <1>4, <1>6, <2>1, <2>2, RecordStep
<1>11. PublishedWithReceipt'
  <2>1. r.status # "completed" /\ n.status # "completed"
    BY <1>1, <1>4 DEF ArchivalReady
  <2>2. QED
    BY <1>8, <2>1 DEF Claim, IInv, PublishedWithReceipt, history
<1>12. CopyIsVersioned'
  <2> SUFFICES ASSUME NEW d \in Coordinators, task'[d].at \in Working
               PROVE  /\ Id(d)' \in Archivals
                      /\ Copy(d)'.status = "processing"
                      /\ Copy(d)'.token # 0
                      /\ Copy(d)'.token <= Copy(d)'.version
                      /\ Copy(d)'.version <= records'[Id(d)'].version
                      /\ Copy(d)'.version = records'[Id(d)'].version =>
                           Copy(d)' = records'[Id(d)']
                      /\ task'[d].at \notin {"claimed", "bound"} =>
                           Copy(d)'.phase = "extraction"
                      /\ task'[d].at = "bound" => Copy(d)'.phase = "commit"
    BY DEF CopyIsVersioned
  <2>1. CASE d = c
    <3>1. Id(d)' = a /\ Copy(d)' = n
      BY <1>7, <2>1 DEF Id, Copy
    <3>2. QED  BY <1>4, <1>5, <1>7, <1>8, <2>1, <3>1
  <2>2. CASE d # c
    <3>1. records' = [records EXCEPT ![a] = n]
      BY <1>1 DEF n
    <3>2. QED  BY <1>6, <1>7, <2>2, <3>1, OthersStep
  <2>3. QED  BY <2>1, <2>2
<1>13. ASSUME NEW d \in Coordinators, d # c, task'[d].at \in Working, Id(d)' = a
       PROVE  Copy(d)'.token # n.token
  <2>1. Id(d) = a /\ Copy(d)' = Copy(d) /\ task[d].at \in Working
    BY <1>7, <1>13 DEF Id, Copy
  <2>2. Copy(d) \in Record
    BY DEF IInv, TypeOK, Task, Copy
  <2>3. Copy(d).token <= Copy(d).version /\ Copy(d).version <= r.version
    BY <2>1 DEF IInv, CopyIsVersioned
  <2>4. QED  BY <1>4, <1>5, <2>1, <2>2, <2>3 DEF Record
<1>14. TokensAreUnique'
  <2>1. Id(c)' = a /\ Copy(c)' = n
    BY <1>7 DEF Id, Copy
  <2>2. QED
    BY <1>7, <1>13, <2>1 DEF IInv, TokensAreUnique, Id, Copy
<1>15. ClaimIsUnspent'
  <2> SUFFICES ASSUME NEW d \in Coordinators, task'[d].at = "claimed",
                      Extractable(Copy(d)'),
                      Copy(d)'.token = records'[Id(d)'].token
               PROVE  extractions'[Id(d)'] < records'[Id(d)'].extraction
    BY DEF ClaimIsUnspent, Extractable
  <2>1. "claimed" \in Working /\ extractions' = extractions
    BY DEF Working, Claim, history
  <2>2. CASE d = c
    <3>1. Id(d)' = a /\ Copy(d)' = n /\ n.extraction = r.extraction + 1
      BY <1>4, <1>7, <2>2 DEF Id, Copy, Extractable
    <3>2. extractions[a] <= r.extraction /\ extractions[a] \in Nat
      BY DEF IInv, ExtractionsCounted, TypeOK
    <3>3. QED  BY <1>5, <1>8, <2>1, <3>1, <3>2
  <2>3. CASE d # c
    <3>1. Id(d)' = Id(d) /\ Copy(d)' = Copy(d) /\ task[d].at = "claimed"
      BY <1>7, <2>3 DEF Id, Copy
    <3>2. Id(d) \in Archivals /\ Id(d) # a
      BY <1>8, <1>13, <2>1, <2>3, <3>1 DEF IInv, CopyIsVersioned
    <3>3. QED  BY <1>8, <2>1, <3>1, <3>2 DEF IInv, ClaimIsUnspent
  <2>4. QED  BY <2>2, <2>3
<1>16. QED
  BY <1>9, <1>10, <1>11, <1>12, <1>14, <1>15 DEF IInv

\* A validated writer holds the current version of the record.
LEMMA CurrentCopy ==
  ASSUME IInv, NEW c \in Coordinators, task[c].at \in Working,
         ValidUpdate(Id(c), Copy(c)) \/ ValidCommit(Id(c), Copy(c))
  PROVE  /\ Id(c) \in Archivals
         /\ Copy(c) = records[Id(c)]
         /\ Copy(c) \in Record
         /\ Copy(c).status = "processing"
  BY DEF IInv, TypeOK, CopyIsVersioned, ValidUpdate, ValidCommit

LEMMA StoreBindingFacts ==
  ASSUME IInv, NEW c \in Coordinators, task[c].at = "extracted",
         NEW b \in Batches, StoreBinding(c, b)
  PROVE  LET n == Bound(Copy(c), b) IN
         /\ Id(c) \in Archivals
         /\ Copy(c) = records[Id(c)]
         /\ NextVersion(Id(c), n)
         /\ n.status = "processing" /\ n.token = Copy(c).token
         /\ n.phase = "commit" /\ n.extraction = Copy(c).extraction
         /\ n.version = Copy(c).version + 1
         /\ records' = [records EXCEPT ![Id(c)] = n]
         /\ records' \in [Archivals -> Record]
<1> DEFINE n == Bound(Copy(c), b)
<1>1. "extracted" \in Working
  BY DEF Working
<1>2. /\ Id(c) \in Archivals /\ Copy(c) = records[Id(c)] /\ Copy(c) \in Record
      /\ Copy(c).status = "processing"
  BY <1>1, CurrentCopy DEF StoreBinding
<1>3. Copy(c).phase = "extraction" /\ Copy(c).commit = 0 /\ Copy(c).token # 0
  BY <1>1, <1>2 DEF IInv, CopyIsVersioned, RecordShape
<1>4. /\ n \in Record
      /\ n.status = Copy(c).status /\ n.token = Copy(c).token
      /\ n.phase = "commit" /\ n.binding = b
      /\ n.version = Copy(c).version + 1
      /\ n.extraction = Copy(c).extraction
  BY <1>2, <1>3, BoundFacts
<1>5. records' = [records EXCEPT ![Id(c)] = n]
  BY DEF StoreBinding
<1> HIDE DEF n
<1>6. b # NoBatch
  BY NamesAssumption
<1>7. /\ Copy(c).extraction \in Nat /\ Copy(c).version \in Nat
      /\ Copy(c).token <= Copy(c).version /\ Copy(c).token \in Nat
  BY <1>1, <1>2, BoundsAssumption DEF IInv, CopyIsVersioned, Record, Counts
<1>8. NextVersion(Id(c), n)
  BY <1>2, <1>3, <1>4, <1>6, <1>7 DEF NextVersion
<1>9. records' \in [Archivals -> Record]
  BY <1>2, <1>4, <1>5, RecordWriteType DEF IInv
<1>10. QED  BY <1>2, <1>4, <1>5, <1>8, <1>9 DEF n

\* A write that neither starts nor ends in COMPLETED publishes nothing.
LEMMA UnpublishedWrite ==
  ASSUME IInv, NEW a \in Archivals, NEW n,
         records' = [records EXCEPT ![a] = n],
         records[a].status # "completed", n.status # "completed",
         UNCHANGED <<artifacts, publications>>
  PROVE  PublishedWithReceipt'
<1>1. records'[a] = n /\ \A b \in Archivals : b # a => records'[b] = records[b]
  BY DEF IInv, TypeOK
<1>2. QED  BY <1>1 DEF IInv, PublishedWithReceipt

LEMMA BindInv ==
  ASSUME IInv, NEW c \in Coordinators, Bind(c)
  PROVE  IInv'
<1>1. CASE UNCHANGED store /\ Finish(c)
  <2>1. /\ task' \in [Coordinators -> Task]
        /\ task'[c].at \notin Working
        /\ \A d \in Coordinators : d # c => task'[d] = task[d]
    BY <1>1, FinishFacts DEF IInv, TypeOK
  <2>2. TypeOK'
    BY <1>1, <2>1 DEF Bind, IInv, TypeOK, store, life, history, budget
  <2>3. QED
    BY <1>1, <2>1, <2>2, QuietStep
       DEF Bind, IInv, CopyIsVersioned, store, history
<1>2. ASSUME NEW b \in Batches, StoreBinding(c, b),
             task' = [task EXCEPT ![c].at = "bound", ![c].copy = Bound(Copy(c), b)]
      PROVE  IInv'
  <2> DEFINE n == Bound(Copy(c), b)
             a == Id(c)
  <2>1. task[c].at = "extracted"
    BY DEF Bind
  <2>2. /\ a \in Archivals
        /\ Copy(c) = records[a]
        /\ NextVersion(a, n)
        /\ n.status = "processing" /\ n.token = Copy(c).token
        /\ n.phase = "commit" /\ n.extraction = Copy(c).extraction
        /\ n.version = Copy(c).version + 1
        /\ records' = [records EXCEPT ![a] = n]
        /\ records' \in [Archivals -> Record]
    BY <1>2, <2>1, StoreBindingFacts
  <2>3. task' = [task EXCEPT ![c].at = "bound", ![c].copy = n]
    BY <1>2
  <2>4. /\ UNCHANGED <<artifacts, publications, extractions, liveLeases, due,
                       consumer, life, budget>>
        /\ livePermits' = livePermits \cup {a}
    BY <1>2 DEF Bind, StoreBinding, history
  <2> HIDE DEF n, a
  <2>5. "bound" \in Positions /\ "bound" \in Working /\ "extracted" \in Working
    BY DEF Positions, Working
  <2>6. /\ task' \in [Coordinators -> Task]
        /\ task'[c].at = "bound" /\ task'[c].copy = n /\ task'[c].id = task[c].id
        /\ \A d \in Coordinators : d # c => task'[d] = task[d]
    BY <2>2, <2>3, <2>5 DEF IInv, TypeOK, Task, NextVersion
  <2>7. Id(c)' = a /\ Copy(c)' = n /\ Id(c) = a
    BY <2>6 DEF Id, Copy, a
  <2>8. /\ records'[a] = n
        /\ \A x \in Archivals : x # a => records'[x] = records[x]
    BY <2>2 DEF IInv, TypeOK
  <2>9. TypeOK'
    BY <2>2, <2>4, <2>6 DEF IInv, TypeOK, life, budget
  <2>10. RecordShape' /\ ExtractionsCounted' /\ RetryHasAttemptsLeft'
    BY <2>2, <2>4, RecordStep
  <2>11. PublishedWithReceipt'
    <3>1. records[a].status # "completed"
      BY <2>1, <2>2, <2>5, <2>7 DEF IInv, CopyIsVersioned
    <3>2. QED  BY <2>2, <2>4, <3>1, UnpublishedWrite
  <2>12. CopyIsVersioned'
    <3> SUFFICES ASSUME NEW d \in Coordinators, task'[d].at \in Working
                 PROVE  /\ Id(d)' \in Archivals
                        /\ Copy(d)'.status = "processing"
                        /\ Copy(d)'.token # 0
                        /\ Copy(d)'.token <= Copy(d)'.version
                        /\ Copy(d)'.version <= records'[Id(d)'].version
                        /\ Copy(d)'.version = records'[Id(d)'].version =>
                             Copy(d)' = records'[Id(d)']
                        /\ task'[d].at \notin {"claimed", "bound"} =>
                             Copy(d)'.phase = "extraction"
                        /\ task'[d].at = "bound" => Copy(d)'.phase = "commit"
      BY DEF CopyIsVersioned
    <3>1. CASE d = c
      <4>1. n.version <= n.version
        BY <2>2 DEF NextVersion, Record
      <4>2. n.token # 0 /\ n.token <= n.version
        BY <2>2 DEF NextVersion
      <4>3. QED  BY <2>2, <2>6, <2>7, <2>8, <3>1, <4>1, <4>2
    <3>2. CASE d # c
      BY <2>2, <2>6, <3>2, OthersStep
    <3>3. QED  BY <3>1, <3>2
  <2>13. TokensAreUnique'
    BY <2>1, <2>2, <2>5, <2>6, <2>7 DEF IInv, TokensAreUnique, Id, Copy
  <2>14. ClaimIsUnspent'
    <3> SUFFICES ASSUME NEW d \in Coordinators, task'[d].at = "claimed",
                        Extractable(Copy(d)'),
                        Copy(d)'.token = records'[Id(d)'].token
                 PROVE  extractions'[Id(d)'] < records'[Id(d)'].extraction
      BY DEF ClaimIsUnspent, Extractable
    <3>1. d # c /\ Id(d)' = Id(d) /\ Copy(d)' = Copy(d) /\ task[d].at = "claimed"
      BY <2>6 DEF Id, Copy
    <3>2. Id(d) \in Archivals /\ records'[Id(d)].token = records[Id(d)].token
          /\ records'[Id(d)].extraction = records[Id(d)].extraction
      BY <2>2, <2>8, <3>1 DEF IInv, CopyIsVersioned, Working
    <3>3. QED  BY <2>4, <3>1, <3>2 DEF IInv, ClaimIsUnspent
  <2>15. QED
    BY <2>9, <2>10, <2>11, <2>12, <2>13, <2>14 DEF IInv
<1>3. QED  BY <1>1, <1>2 DEF Bind

LEMMA BindThenErrorInv ==
  ASSUME IInv, NEW c \in Coordinators, BindThenError(c)
  PROVE  IInv'
<1>1. PICK b \in Batches : StoreBinding(c, b)
  BY DEF BindThenError
<1> DEFINE n == Bound(Copy(c), b)
           a == Id(c)
<1>2. task[c].at = "extracted"
  BY DEF BindThenError
<1>3. /\ a \in Archivals
      /\ Copy(c) = records[a]
      /\ NextVersion(a, n)
      /\ n.status = "processing" /\ n.token = Copy(c).token
      /\ records' = [records EXCEPT ![a] = n]
      /\ records' \in [Archivals -> Record]
  BY <1>1, <1>2, StoreBindingFacts
<1>4. /\ UNCHANGED <<artifacts, publications, extractions, liveLeases, due,
                     consumer, life, crashes>>
      /\ livePermits' = livePermits \cup {a}
      /\ faults' \in Nat
  BY <1>1 DEF BindThenError, StoreBinding, history, IInv, TypeOK
<1>5. /\ task' \in [Coordinators -> Task]
      /\ task'[c].at \notin Working
      /\ \A d \in Coordinators : d # c => task'[d] = task[d]
  BY FinishFacts DEF BindThenError, IInv, TypeOK
<1>6. "extracted" \in Working
  BY DEF Working
<1>7. records[a].status # "completed"
  BY <1>2, <1>3, <1>6 DEF IInv, CopyIsVersioned
<1> HIDE DEF n, a
<1>8. TypeOK'
  BY <1>3, <1>4, <1>5 DEF IInv, TypeOK, life
<1>9. PublishedWithReceipt'
  BY <1>3, <1>4, <1>7, UnpublishedWrite
<1>10. n.token \in {0, records[a].token}
  BY <1>3
<1>11. QED  BY <1>3, <1>4, <1>5, <1>8, <1>9, <1>10, RetireStep

LEMMA CommitInv ==
  ASSUME IInv, NEW c \in Coordinators, Commit(c)
  PROVE  IInv'
<1>1. /\ task' \in [Coordinators -> Task]
      /\ task'[c].at \notin Working
      /\ \A d \in Coordinators : d # c => task'[d] = task[d]
  BY FinishFacts DEF Commit, IInv, TypeOK
<1>2. task[c].at \in Working
  BY DEF Commit, Committing, Working
<1>3. CASE UNCHANGED <<records, artifacts, liveLeases, livePermits, publications>>
  <2>1. TypeOK'
    BY <1>1, <1>3 DEF Commit, IInv, TypeOK, life, budget
  <2>2. QED
    BY <1>1, <1>3, <2>1, QuietStep DEF Commit, IInv, CopyIsVersioned
<1>4. CASE /\ ValidCommit(Id(c), Copy(c))
           /\ artifacts' = [artifacts EXCEPT ![Id(c)] = records[Id(c)].binding]
           /\ publications' = [publications EXCEPT ![Id(c)] = @ + 1]
           /\ records' = [records EXCEPT ![Id(c)] = Completed(Copy(c))]
           /\ liveLeases' = liveLeases \ {Id(c)}
           /\ livePermits' = livePermits \ {Id(c)}
  <2> DEFINE a == Id(c)
             r == records[Id(c)]
             n == Completed(Copy(c))
  <2>1. /\ a \in Archivals /\ Copy(c) = r /\ r \in Record
        /\ r.status = "processing"
    BY <1>2, <1>4, CurrentCopy
  <2>2. /\ r.phase = "commit" /\ r.binding # NoBatch /\ r.binding \in Bindings
    BY <1>4, <2>1 DEF ValidCommit, IInv, RecordShape, Record
  <2>3. /\ n \in Record
        /\ n.status = "completed" /\ n.token = 0
        /\ n.phase = r.phase /\ n.binding = r.binding
        /\ n.version = r.version + 1
        /\ n.extraction = r.extraction /\ n.commit = r.commit
    BY <2>1, CompletedFacts
  <2> HIDE DEF n
  <2>4. NextVersion(a, n)
    BY <2>1, <2>2, <2>3, BoundsAssumption DEF NextVersion, Record, Counts
  <2>5. records' = [records EXCEPT ![a] = n]
    BY <1>4 DEF n
  <2>6. TypeOK'
    <3>1. records' \in [Archivals -> Record]
      BY <2>1, <2>3, <2>5, RecordWriteType DEF IInv
    <3>2. /\ artifacts' \in [Archivals -> Bindings]
          /\ publications' \in [Archivals -> Nat]
      BY <1>4, <2>1, <2>2 DEF IInv, TypeOK
    <3>3. QED
      BY <1>1, <1>4, <3>1, <3>2 DEF Commit, IInv, TypeOK, life, budget
  <2>7. PublishedWithReceipt'
    <3>1. /\ records'[a] = n /\ artifacts'[a] = r.binding
          /\ publications'[a] = publications[a] + 1
          /\ \A b \in Archivals : b # a =>
               /\ records'[b] = records[b] /\ artifacts'[b] = artifacts[b]
               /\ publications'[b] = publications[b]
      BY <1>4, <2>1, <2>5 DEF IInv, TypeOK
    <3>2. publications[a] = 0
      BY <2>1 DEF IInv, PublishedWithReceipt
    <3>3. QED
      BY <2>2, <2>3, <3>1, <3>2 DEF IInv, PublishedWithReceipt
  <2>8. UNCHANGED extractions
    BY DEF Commit
  <2>9. QED
    BY <1>1, <1>4, <2>1, <2>3, <2>4, <2>5, <2>6, <2>7, <2>8, RetireStep
<1>5. QED  BY <1>3, <1>4 DEF Commit

LEMMA RecordFailureInv ==
  ASSUME IInv, NEW c \in Coordinators, RecordFailure(c)
  PROVE  IInv'
<1>1. /\ task' \in [Coordinators -> Task]
      /\ task'[c].at \notin Working
      /\ \A d \in Coordinators : d # c => task'[d] = task[d]
  BY FinishFacts DEF RecordFailure, IInv, TypeOK
<1>2. task[c].at \in Working
  BY DEF RecordFailure, MayFail, Committing, Working
<1>3. UNCHANGED <<artifacts, due, consumer, life, history, budget>>
  BY DEF RecordFailure
<1>4. CASE UNCHANGED <<records, liveLeases, livePermits>>
  <2>1. TypeOK'
    BY <1>1, <1>3, <1>4 DEF IInv, TypeOK, life, budget, history
  <2>2. QED
    BY <1>1, <1>3, <1>4, <2>1, QuietStep DEF IInv, CopyIsVersioned, history
<1>5. ASSUME NEW retryable \in BOOLEAN,
             ValidUpdate(Id(c), Copy(c)),
             records' = [records EXCEPT ![Id(c)] = Failed(Copy(c), retryable)],
             liveLeases' = liveLeases \ {Id(c)},
             livePermits' = livePermits \ {Id(c)}
      PROVE  IInv'
  <2> DEFINE a == Id(c)
             r == records[Id(c)]
             n == Failed(Copy(c), retryable)
  <2>1. /\ a \in Archivals /\ Copy(c) = r /\ r \in Record
        /\ r.status = "processing"
    BY <1>2, <1>5, CurrentCopy
  <2>2. /\ n \in Record
        /\ n.status \in {"retry_wait", "failed"} /\ n.token = 0
        /\ n.phase = r.phase /\ n.binding = r.binding
        /\ n.version = r.version + 1
        /\ n.extraction = r.extraction /\ n.commit = r.commit
        /\ n.status = "retry_wait" => Attempts(n) < MaxAttempts
    BY <2>1, FailedFacts
  <2>3. records' = [records EXCEPT ![a] = n]
    BY <1>5
  <2> HIDE DEF n
  <2>4. NextVersion(a, n)
    BY <2>1, <2>2, BoundsAssumption
       DEF NextVersion, Record, Counts, IInv, RecordShape
  <2>5. TypeOK'
    <3>1. records' \in [Archivals -> Record]
      BY <2>1, <2>2, <2>3, RecordWriteType DEF IInv
    <3>2. QED
      BY <1>1, <1>3, <1>5, <3>1 DEF IInv, TypeOK, life, budget, history
  <2>6. PublishedWithReceipt'
    BY <1>3, <2>1, <2>2, <2>3, UnpublishedWrite DEF history
  <2>7. QED
    BY <1>1, <1>3, <1>5, <2>1, <2>2, <2>3, <2>4, <2>5, <2>6, RetireStep
       DEF history
<1>6. QED  BY <1>4, <1>5 DEF RecordFailure

-----------------------------------------------------------------------------
(* The theorems. *)

LEMMA InitInv == Init => IInv
<1> SUFFICES ASSUME Init  PROVE IInv
  OBVIOUS
<1>1. \A a \in Archivals : records[a] = NoRecord
  BY DEF Init
<1>2. \A c \in Coordinators : task[c].at \notin Working
  BY DEF Init, IdleTask, Working
<1>3. TypeOK
  <2>1. NoBatch \in Bindings /\ "open" \in Reports
    BY DEF Bindings, Reports
  <2>2. QED  BY <2>1, InitialValues, BoundsAssumption DEF Init, TypeOK
<1>4. RecordShape
  BY <1>1 DEF Init, RecordShape, NoRecord
<1>5. CopyIsVersioned /\ TokensAreUnique /\ ClaimIsUnspent
  BY <1>2 DEF CopyIsVersioned, TokensAreUnique, ClaimIsUnspent, Working
<1>6. PublishedWithReceipt /\ ExtractionsCounted /\ RetryHasAttemptsLeft
  BY <1>1 DEF Init, PublishedWithReceipt, ExtractionsCounted,
              RetryHasAttemptsLeft, NoRecord
<1>7. QED  BY <1>3, <1>4, <1>5, <1>6 DEF IInv

LEMMA NextInv == IInv /\ [Next]_vars => IInv'
<1> SUFFICES ASSUME IInv, [Next]_vars  PROVE IInv'
  OBVIOUS
<1>1. ASSUME NEW a \in Archivals, Submit(a)  PROVE IInv'
  BY <1>1, SubmitInv
<1>2. ASSUME NEW c \in Coordinators, NEW target \in Targets, Begin(c, target)
      PROVE  IInv'
  BY <1>2, BeginInv
<1>3. ASSUME NEW c \in Coordinators, Process(c)  PROVE IInv'
  BY <1>3, LoopInv, ClaimInv, StartExtractionInv, FinishExtractionInv, BindInv,
     CommitInv, RecordFailureInv DEF Process
<1>4. ASSUME NEW c \in Coordinators, Heartbeat(c)  PROVE IInv'
  BY <1>4, HeartbeatInv
<1>5. ASSUME NEW c \in Coordinators, BindThenError(c)  PROVE IInv'
  BY <1>5, BindThenErrorInv
<1>6. ASSUME NEW c \in Coordinators, CloseStart(c) \/ CloseReturn(c)  PROVE IInv'
  BY <1>6, CloseInv
<1>7. ASSUME NEW c \in Coordinators,
             Crash(c) \/ StoreError(c) \/ PermitLapses(c)  PROVE IInv'
  BY <1>7, LeaveInv
<1>8. CASE Time
  BY <1>8, TimeInv
<1>9. CASE UNCHANGED vars
  <2>1. TypeOK'
    BY <1>9 DEF IInv, TypeOK, vars, store, life, history, budget
  <2>2. QED
    BY <1>9, <2>1, QuietStep DEF IInv, CopyIsVersioned, vars, store, history
<1>10. QED
  BY <1>1, <1>2, <1>3, <1>4, <1>5, <1>6, <1>7, <1>8, <1>9 DEF Next

\* The inductive invariant holds in every state of every instance.
THEOREM InvariantHolds == Spec => []IInv
  BY InitInv, NextInv, PTL DEF Spec

\* Every reachable state of the ledger and its coordinators is well typed; in
\* particular no phase ever counts more than MaxAttempts attempts.
THEOREM TypeIsCorrect == Spec => []TypeOK
<1>1. IInv => TypeOK  BY DEF IInv
<1>2. QED  BY <1>1, InvariantHolds, PTL

\* Artifacts and COMPLETED receipt appear together, exactly once.
THEOREM PublicationIsAtomic == Spec => []PublishedWithReceipt
<1>1. IInv => PublishedWithReceipt  BY DEF IInv
<1>2. QED  BY <1>1, InvariantHolds, PTL

\* The host extractor runs at most once for every counted attempt.
THEOREM ExtractionIsBounded == Spec => []ExtractionsCounted
<1>1. IInv => ExtractionsCounted  BY DEF IInv
<1>2. QED  BY <1>1, InvariantHolds, PTL

\* No archival waits for an attempt it does not have.
THEOREM RetryIsBounded == Spec => []RetryHasAttemptsLeft
<1>1. IInv => RetryHasAttemptsLeft  BY DEF IInv
<1>2. QED  BY <1>1, InvariantHolds, PTL

-----------------------------------------------------------------------------
(* What a step may do to a record, as its readers see it. *)

Open == {"pending", "processing", "retry_wait"}

\* Record a is given its next version n: accepted, moved on, bound, published
\* or refused.
Moves(a, n) ==
  /\ n \in Record
  /\ records' = [records EXCEPT ![a] = n]
  /\ \/ /\ records[a].status = "absent" /\ records[a].binding = NoBatch
        /\ n.status = "pending" /\ n.binding = NoBatch
        /\ UNCHANGED artifacts
     \/ /\ records[a].status \in Open
        /\ n.status \in Open /\ n.binding = records[a].binding
        /\ UNCHANGED artifacts
     \/ /\ records[a].status \in Open /\ records[a].binding = NoBatch
        /\ n.status \in Open /\ n.binding \in Batches
        /\ UNCHANGED artifacts
     \/ /\ records[a].status \in Open /\ records[a].binding # NoBatch
        /\ n.status = "completed" /\ n.binding = records[a].binding
        /\ artifacts' = [artifacts EXCEPT ![a] = records[a].binding]
     \/ /\ records[a].status \in Open
        /\ n.status = "failed" /\ n.binding = records[a].binding
        /\ UNCHANGED artifacts

LEMMA SubmitMoves ==
  ASSUME IInv, NEW a \in Archivals, Submit(a)
  PROVE  \E n : Moves(a, n)
<1> DEFINE n == [NoRecord EXCEPT !.status = "pending", !.version = 1]
<1>1. records[a] = NoRecord
  BY DEF Submit, IInv, RecordShape
<1>2. n \in Record /\ n.status = "pending" /\ n.binding = NoBatch
  <2>1. "pending" \in Statuses
    BY DEF Statuses
  <2>2. QED  BY <2>1, InitialValues DEF NoRecord, Record
<1>3. Moves(a, n)
  BY <1>1, <1>2 DEF Submit, Moves, NoRecord
<1>4. QED  BY <1>3

LEMMA ClaimMoves ==
  ASSUME IInv, NEW c \in Coordinators, Claim(c)
  PROVE  \E a \in Archivals, n \in Record : Moves(a, n)
<1>1. PICK a \in Archivals :
        /\ ArchivalReady(a)
        /\ records' = [records EXCEPT ![a] = Claimed(records[a])]
  BY DEF Claim, Candidates
<1>2. records[a].status # "processing" => Attempts(records[a]) < MaxAttempts
  BY <1>1, BoundsAssumption
     DEF ArchivalReady, IInv, RecordShape, RetryHasAttemptsLeft, Attempts
<1>3. /\ Claimed(records[a]) \in Record
      /\ Claimed(records[a]).status = "processing"
      /\ Claimed(records[a]).binding = records[a].binding
  BY <1>2, ClaimedFacts DEF IInv, TypeOK
<1>4. records[a].status \in Open
  BY <1>1 DEF ArchivalReady, Open
<1>5. Moves(a, Claimed(records[a]))
  BY <1>1, <1>3, <1>4 DEF Moves, Open, Claim
<1>6. QED  BY <1>3, <1>5

LEMMA BindingMoves ==
  ASSUME IInv, NEW c \in Coordinators, task[c].at = "extracted",
         NEW b \in Batches, StoreBinding(c, b)
  PROVE  \E a \in Archivals, n \in Record : Moves(a, n)
<1> DEFINE n == Bound(Copy(c), b)
<1>1. "extracted" \in Working
  BY DEF Working
<1>2. /\ Id(c) \in Archivals /\ Copy(c) = records[Id(c)] /\ Copy(c) \in Record
      /\ Copy(c).status = "processing"
  BY <1>1, CurrentCopy DEF StoreBinding
<1>3. Copy(c).phase = "extraction" /\ Copy(c).commit = 0
  BY <1>1, <1>2 DEF IInv, CopyIsVersioned, RecordShape
<1>4. n \in Record /\ n.status = Copy(c).status /\ n.binding = b
  BY <1>2, <1>3, BoundFacts
<1>5. records[Id(c)].binding = NoBatch
  BY <1>2, <1>3 DEF IInv, RecordShape
<1>6. records' = [records EXCEPT ![Id(c)] = n] /\ UNCHANGED artifacts
  BY DEF StoreBinding
<1> HIDE DEF n
<1>7. Moves(Id(c), n)
  BY <1>2, <1>4, <1>5, <1>6 DEF Moves, Open
<1>8. QED  BY <1>2, <1>4, <1>7

LEMMA CommitMoves ==
  ASSUME IInv, NEW c \in Coordinators, Commit(c)
  PROVE  \/ UNCHANGED <<records, artifacts>>
         \/ \E a \in Archivals, n \in Record : Moves(a, n)
<1> SUFFICES ASSUME ValidCommit(Id(c), Copy(c)),
                    artifacts' = [artifacts EXCEPT ![Id(c)] = records[Id(c)].binding],
                    records' = [records EXCEPT ![Id(c)] = Completed(Copy(c))]
             PROVE  \E a \in Archivals, n \in Record : Moves(a, n)
  BY DEF Commit
<1> DEFINE n == Completed(Copy(c))
<1>1. task[c].at \in Working
  BY DEF Commit, Committing, Working
<1>2. /\ Id(c) \in Archivals /\ Copy(c) = records[Id(c)] /\ Copy(c) \in Record
      /\ Copy(c).status = "processing"
  BY <1>1, CurrentCopy
<1>3. records[Id(c)].binding # NoBatch
  BY <1>2 DEF ValidCommit, IInv, RecordShape
<1>4. n \in Record /\ n.status = "completed" /\ n.binding = Copy(c).binding
  BY <1>2, CompletedFacts
<1>5. records' = [records EXCEPT ![Id(c)] = n]
  OBVIOUS
<1> HIDE DEF n
<1>6. Moves(Id(c), n)
  BY <1>2, <1>3, <1>4, <1>5 DEF Moves, Open
<1>7. QED  BY <1>2, <1>4, <1>6

LEMMA RecordFailureMoves ==
  ASSUME IInv, NEW c \in Coordinators, RecordFailure(c)
  PROVE  \/ UNCHANGED <<records, artifacts>>
         \/ \E a \in Archivals, n \in Record : Moves(a, n)
<1>1. SUFFICES ASSUME NEW retryable \in BOOLEAN,
                      ValidUpdate(Id(c), Copy(c)),
                      records' = [records EXCEPT ![Id(c)] = Failed(Copy(c), retryable)]
               PROVE  \E a \in Archivals, n \in Record : Moves(a, n)
  BY DEF RecordFailure
<1> DEFINE n == Failed(Copy(c), retryable)
<1>2. task[c].at \in Working
  BY DEF RecordFailure, MayFail, Committing, Working
<1>3. /\ Id(c) \in Archivals /\ Copy(c) = records[Id(c)] /\ Copy(c) \in Record
      /\ Copy(c).status = "processing"
  BY <1>1, <1>2, CurrentCopy
<1>4. /\ n \in Record /\ n.status \in {"retry_wait", "failed"}
      /\ n.binding = Copy(c).binding
  BY <1>3, FailedFacts
<1>5. records' = [records EXCEPT ![Id(c)] = n] /\ UNCHANGED artifacts
  BY <1>1 DEF RecordFailure
<1> HIDE DEF n
<1>6. Moves(Id(c), n)
  BY <1>3, <1>4, <1>5 DEF Moves, Open
<1>7. QED  BY <1>3, <1>4, <1>6

LEMMA StepMoves ==
  ASSUME IInv, [Next]_vars
  PROVE  \/ UNCHANGED <<records, artifacts>>
         \/ \E a \in Archivals, n \in Record : Moves(a, n)
<1>1. CASE \E a \in Archivals : Submit(a)
  BY <1>1, SubmitMoves DEF Moves
<1>2. ASSUME NEW c \in Coordinators, Process(c)
      PROVE  \/ UNCHANGED <<records, artifacts>>
             \/ \E a \in Archivals, n \in Record : Moves(a, n)
  <2>1. CASE NextRound(c) \/ NothingToClaim(c) \/ Release(c) \/ StartExtraction(c)
             \/ FinishExtraction(c)
    BY <2>1 DEF NextRound, NothingToClaim, Release, StartExtraction,
                FinishExtraction, store
  <2>2. CASE Claim(c)
    BY <2>2, ClaimMoves
  <2>3. CASE Bind(c)
    BY <2>3, BindingMoves DEF Bind, store
  <2>4. CASE Commit(c)
    BY <2>4, CommitMoves
  <2>5. CASE RecordFailure(c)
    BY <2>5, RecordFailureMoves
  <2>6. QED  BY <1>2, <2>1, <2>2, <2>3, <2>4, <2>5 DEF Process
<1>3. ASSUME NEW c \in Coordinators, BindThenError(c)
      PROVE  \E a \in Archivals, n \in Record : Moves(a, n)
  BY <1>3, BindingMoves DEF BindThenError
<1>4. ASSUME NEW c \in Coordinators,
             \/ \E target \in Targets : Begin(c, target)
             \/ Heartbeat(c) \/ CloseStart(c) \/ CloseReturn(c) \/ Crash(c)
             \/ StoreError(c) \/ PermitLapses(c)
      PROVE  UNCHANGED <<records, artifacts>>
  BY <1>4 DEF Begin, Heartbeat, CloseStart, CloseReturn, Crash, StoreError,
              PermitLapses, store
<1>5. CASE Time
  BY <1>5 DEF Time, LeaseExpires, PermitExpires, RetryDue, ConsumerExpires, store
<1>6. CASE UNCHANGED vars
  BY <1>6 DEF vars, store
<1>7. QED  BY <1>1, <1>2, <1>3, <1>4, <1>5, <1>6 DEF Next

\* A bound batch is never replaced, nor dropped by a retry.
THEOREM BindingNeverChanges == Spec => BindingIsFinal
<1>1. IInv /\ [Next]_vars =>
        [\A a \in Archivals :
           records[a].binding # NoBatch =>
             records'[a].binding = records[a].binding]_records
  BY StepMoves DEF Moves, IInv, TypeOK
<1>2. QED  BY <1>1, InvariantHolds, PTL DEF Spec, BindingIsFinal

\* A terminal receipt never changes.
THEOREM TerminalNeverChanges == Spec => TerminalIsFinal
<1>1. IInv /\ [Next]_vars =>
        [\A a \in Archivals :
           records[a].status \in Terminal => records'[a] = records[a]]_records
  BY StepMoves DEF Moves, IInv, TypeOK, Terminal, Open
<1>2. QED  BY <1>1, InvariantHolds, PTL DEF Spec, TerminalIsFinal

-----------------------------------------------------------------------------
(* Archival implements ArchivalPromise. *)

LEMMA InitRefines == Init => Promise!PInit
  BY DEF Init, NoRecord, Stage, Promise!PInit

LEMMA StepRefines ==
  ASSUME IInv, [Next]_vars
  PROVE  [Promise!PNext]_(Promise!promise)
<1>1. CASE UNCHANGED <<records, artifacts>>
  BY <1>1 DEF Promise!promise, Stage
<1>2. ASSUME NEW a \in Archivals, NEW n \in Record, Moves(a, n)
      PROVE  [Promise!PNext]_(Promise!promise)
  <2> DEFINE stage == [x \in Archivals |-> Stage(x)]
             frozen == [x \in Archivals |-> records[x].binding]
  <2>1. /\ records'[a] = n
        /\ \A x \in Archivals : x # a => records'[x] = records[x]
    BY <1>2 DEF Moves, IInv, TypeOK
  <2>2. /\ stage' = [stage EXCEPT ![a] = Stage(a)']
        /\ frozen' = [frozen EXCEPT ![a] = n.binding]
    BY <2>1 DEF Stage
  <2>3. /\ n.binding = records[a].binding => frozen' = frozen
        /\ Stage(a)' = Stage(a) => stage' = stage
    BY <2>2
  <2>4. CASE /\ records[a].status = "absent" /\ records[a].binding = NoBatch
             /\ n.status = "pending" /\ n.binding = NoBatch
             /\ UNCHANGED artifacts
    <3>1. Stage(a) = "unknown" /\ Stage(a)' = "accepted"
      BY <2>1, <2>4 DEF Stage
    <3>2. Promise!Accept(a)
      BY <2>2, <2>3, <2>4, <3>1 DEF Promise!Accept
    <3>3. QED  BY <3>2 DEF Promise!PNext
  <2>5. CASE /\ records[a].status \in Open
             /\ n.status \in Open /\ n.binding = records[a].binding
             /\ UNCHANGED artifacts
    <3>1. Stage(a)' = Stage(a)
      BY <2>1, <2>5 DEF Stage, Open
    <3>2. QED  BY <2>3, <2>5, <3>1 DEF Promise!promise
  <2>6. CASE /\ records[a].status \in Open /\ records[a].binding = NoBatch
             /\ n.status \in Open /\ n.binding \in Batches
             /\ UNCHANGED artifacts
    <3>1. Stage(a) = "accepted" /\ Stage(a)' = "prepared"
      BY <2>1, <2>6, NamesAssumption DEF Stage, Open
    <3>2. Promise!Prepare(a, n.binding)
      BY <2>2, <2>6, <3>1 DEF Promise!Prepare
    <3>3. QED  BY <2>6, <3>2 DEF Promise!PNext
  <2>7. CASE /\ records[a].status \in Open /\ records[a].binding # NoBatch
             /\ n.status = "completed" /\ n.binding = records[a].binding
             /\ artifacts' = [artifacts EXCEPT ![a] = records[a].binding]
    <3>1. Stage(a) = "prepared" /\ Stage(a)' = "published"
      BY <2>1, <2>7 DEF Stage, Open
    <3>2. Promise!Publish(a)
      BY <2>2, <2>3, <2>7, <3>1 DEF Promise!Publish
    <3>3. QED  BY <3>2 DEF Promise!PNext
  <2>8. CASE /\ records[a].status \in Open
             /\ n.status = "failed" /\ n.binding = records[a].binding
             /\ UNCHANGED artifacts
    <3>1. Stage(a) \in {"accepted", "prepared"} /\ Stage(a)' = "refused"
      BY <2>1, <2>8 DEF Stage, Open
    <3>2. Promise!Refuse(a)
      BY <2>2, <2>3, <2>8, <3>1 DEF Promise!Refuse
    <3>3. QED  BY <3>2 DEF Promise!PNext
  <2>9. QED
    BY <1>2, <2>4, <2>5, <2>6, <2>7, <2>8 DEF Moves
<1>3. QED  BY <1>1, <1>2, StepMoves

\* However coordinators race, stall, crash and retry, a caller sees the plain
\* promise: one frozen batch, published once with its completion, or a refusal.
THEOREM PromiseIsKept == Spec => ImplementsPromise
  BY InitRefines, StepRefines, InvariantHolds, PTL
     DEF Spec, ImplementsPromise, Promise!PSpec

-----------------------------------------------------------------------------
(* The fences: the consumer lease and close(). *)

\* Before the first fault, whoever is inside process_pending() and not on its
\* way out owns a live consumer lease.
LeaseIsHeld ==
  faults = MaxFaults =>
    \A c \in Coordinators :
      task[c].at \notin {"idle", "release"} => consumer.owner = c /\ consumer.live

\* A coordinator whose close() began accepts nothing, and only one that accepts
\* is between its check of acceptance and its claim.
ClosedRefuses ==
  \A c \in Coordinators :
    /\ closeReport[c] # "open" => c \notin accepting
    /\ task[c].at = "claim" => c \in accepting

\* Reported stopped, a coordinator may pass through the loop, never further.
StoppedRests ==
  \A c \in Coordinators :
    closeReport[c] = "stopped" => task[c].at \in {"idle", "loop", "release"}

FenceInv ==
  faults <= MaxFaults /\ LeaseIsHeld /\ ClosedRefuses /\ StoppedRests

\* The lease is untouched, or taken by c, who could.
LeaseOf(c) ==
  \/ UNCHANGED consumer
  \/ CanConsume(c) /\ Acquire(c)

\* Every step of c but its release and its death: c keeps or takes the lease,
\* and gets to work only by way of a claim, to a claim only while it accepts.
LEMMA WorkerStep ==
  ASSUME TypeOK, TypeOK', FenceInv, NEW c \in Coordinators,
         \A d \in Coordinators : d # c => task'[d] = task[d],
         LeaseOf(c), UNCHANGED life, faults' <= faults,
         task'[c].at \notin {"idle", "release"} =>
           Acquire(c) \/ task[c].at \notin {"idle", "release"},
         task'[c].at = "claim" => c \in accepting,
         task'[c].at \in Working => task[c].at \in Working \cup {"claim"}
  PROVE  FenceInv'
<1>1. /\ faults' \in Nat /\ faults \in Nat /\ MaxFaults \in Nat
      /\ faults <= MaxFaults
  BY BoundsAssumption DEF TypeOK, FenceInv
<1>2. faults' <= MaxFaults /\ (faults' = MaxFaults => faults = MaxFaults)
  BY <1>1
<1>3. LeaseIsHeld'
  <2> SUFFICES ASSUME faults' = MaxFaults, NEW d \in Coordinators,
                      task'[d].at \notin {"idle", "release"}
               PROVE  consumer'.owner = d /\ consumer'.live
    BY DEF LeaseIsHeld
  <2>1. CASE d = c
    BY <1>2, <2>1 DEF FenceInv, LeaseIsHeld, LeaseOf, Acquire
  <2>2. CASE d # c
    <3>1. consumer.owner = d /\ consumer.live
      BY <1>2, <2>2 DEF FenceInv, LeaseIsHeld
    <3>2. ~CanConsume(c)
      BY <2>2, <3>1 DEF CanConsume
    <3>3. QED  BY <3>1, <3>2 DEF LeaseOf
  <2>3. QED  BY <2>1, <2>2
<1>4. ClosedRefuses'
  BY DEF FenceInv, ClosedRefuses, life
<1>5. StoppedRests'
  <2> SUFFICES ASSUME NEW d \in Coordinators, closeReport[d] = "stopped"
               PROVE  task'[d].at \in {"idle", "loop", "release"}
    BY DEF StoppedRests, life
  <2>1. task[d].at \in {"idle", "loop", "release"} /\ d \notin accepting
    BY DEF FenceInv, StoppedRests, ClosedRefuses
  <2>2. CASE d = c
    <3>1. task'[c].at \in Positions
      BY DEF TypeOK, Task
    <3>2. task[c].at \notin Working \cup {"claim"}
      BY <2>1, <2>2 DEF Working
    <3>3. QED  BY <2>1, <2>2, <3>1, <3>2 DEF Positions
  <2>3. CASE d # c
    BY <2>1, <2>3
  <2>4. QED  BY <2>2, <2>3
<1>6. QED  BY <1>2, <1>3, <1>4, <1>5 DEF FenceInv

\* What leaves every coordinator, the lease and the closing alone.
LEMMA ElsewhereStep ==
  ASSUME TypeOK, TypeOK', FenceInv, UNCHANGED <<task, consumer, life>>,
         faults' <= faults
  PROVE  FenceInv'
<1>1. faults' <= MaxFaults /\ (faults' = MaxFaults => faults = MaxFaults)
  BY BoundsAssumption DEF TypeOK, FenceInv
<1>2. QED
  BY <1>1 DEF FenceInv, LeaseIsHeld, ClosedRefuses, StoppedRests, life

\* Finish leads back to the loop or out.
LEMMA FinishLeaves ==
  ASSUME TypeOK, NEW c \in Coordinators, Finish(c)
  PROVE  /\ task'[c].at \in {"loop", "release"}
         /\ \A d \in Coordinators : d # c => task'[d] = task[d]
  BY DEF TypeOK, Finish, Task

LEMMA GotoGoes ==
  ASSUME TypeOK, NEW c \in Coordinators, NEW position, Goto(c, position)
  PROVE  /\ task'[c].at = position
         /\ \A d \in Coordinators : d # c => task'[d] = task[d]
  BY DEF TypeOK, Goto, Task

LEMMA RenewsLease ==
  ASSUME NEW c \in Coordinators, RenewLeases(c) \/ CannotRenewLeases(c)
  PROVE  LeaseOf(c)
  BY DEF RenewLeases, CannotRenewLeases, LeaseOf

\* A faultless or faulty step of c that ends its work, keeping the lease as it is.
LEMMA FinishStep ==
  ASSUME TypeOK, TypeOK', FenceInv, NEW c \in Coordinators, Finish(c),
         task[c].at \in Working, LeaseOf(c), UNCHANGED life, faults' <= faults
  PROVE  FenceInv'
<1>1. task[c].at \notin {"idle", "release"}  BY DEF Working
<1>2. task'[c].at \notin Working \cup {"claim"}  BY FinishLeaves DEF Working
<1>3. QED  BY <1>1, <1>2, FinishLeaves, WorkerStep

\* A step of c from one position of its work to another.
LEMMA WorkStep ==
  ASSUME TypeOK, TypeOK', FenceInv, NEW c \in Coordinators,
         task[c].at \in Working, task'[c].at \in Working,
         \A d \in Coordinators : d # c => task'[d] = task[d],
         LeaseOf(c), UNCHANGED life, faults' <= faults
  PROVE  FenceInv'
<1>1. task[c].at \notin {"idle", "release"} /\ task'[c].at # "claim"
  BY DEF Working
<1>2. QED  BY <1>1, WorkerStep

LEMMA ProcessFenced ==
  ASSUME TypeOK, TypeOK', FenceInv, NEW c \in Coordinators, Process(c)
  PROVE  FenceInv'
<1>0. faults \in Nat  BY DEF TypeOK
<1>1. CASE NextRound(c)
  <2>1. CASE c \in accepting /\ CanConsume(c)
    <3>1. Acquire(c) /\ Goto(c, "claim") /\ UNCHANGED <<life, faults>>
      BY <1>1, <2>1 DEF NextRound, budget
    <3>2. QED
      BY <1>0, <2>1, <3>1, GotoGoes, WorkerStep DEF LeaseOf, Working
  <2>2. CASE ~(c \in accepting /\ CanConsume(c))
    <3>1. UNCHANGED consumer /\ Goto(c, "release") /\ UNCHANGED <<life, faults>>
      BY <1>1, <2>2 DEF NextRound, budget
    <3>2. QED
      BY <1>0, <3>1, GotoGoes, WorkerStep DEF LeaseOf, Working
  <2>3. QED  BY <2>1, <2>2
<1>2. CASE Claim(c)
  <2>1. /\ task[c].at = "claim" /\ task'[c].at = "claimed"
        /\ \A d \in Coordinators : d # c => task'[d] = task[d]
    BY <1>2 DEF Claim, TypeOK, Task
  <2>2. UNCHANGED <<consumer, life, faults>>  BY <1>2 DEF Claim, budget
  <2>3. QED  BY <1>0, <2>1, <2>2, WorkerStep DEF LeaseOf, Working
<1>3. CASE NothingToClaim(c)
  <2>1. task[c].at = "claim" /\ Goto(c, "release")
    BY <1>3 DEF NothingToClaim
  <2>2. UNCHANGED <<consumer, life, faults>>
    BY <1>3 DEF NothingToClaim, budget
  <2>3. QED  BY <1>0, <2>1, <2>2, GotoGoes, WorkerStep DEF LeaseOf, Working
<1>4. CASE Release(c)
  <2>1. /\ task[c].at = "release" /\ task'[c].at = "idle"
        /\ \A d \in Coordinators : d # c => task'[d] = task[d]
    BY <1>4 DEF Release, TypeOK, IdleTask
  <2>2. /\ UNCHANGED <<life, faults>>
        /\ consumer' = IF consumer.owner = c THEN NoConsumer ELSE consumer
    BY <1>4 DEF Release, budget
  <2>3. LeaseIsHeld'
    BY <2>1, <2>2 DEF FenceInv, LeaseIsHeld
  <2>4. ClosedRefuses' /\ StoppedRests'
    BY <2>1, <2>2 DEF FenceInv, ClosedRefuses, StoppedRests, life
  <2>5. QED  BY <2>2, <2>3, <2>4 DEF FenceInv
<1>5. CASE StartExtraction(c)
  <2>1. task[c].at \in Working /\ UNCHANGED <<life, faults>> /\ "extracting" \in Working
    BY <1>5 DEF StartExtraction, Working, budget
  <2>2. CASE RenewLeases(c) /\ Goto(c, "extracting")
    BY <1>0, <2>1, <2>2, GotoGoes, RenewsLease, WorkStep
  <2>3. CASE CannotRenewLeases(c) /\ Finish(c)
    BY <1>0, <2>1, <2>3, RenewsLease, FinishStep
  <2>4. QED  BY <1>5, <2>2, <2>3 DEF StartExtraction
<1>6. CASE FinishExtraction(c)
  <2>1. /\ task[c].at \in Working /\ UNCHANGED <<life, faults>>
        /\ "extracted" \in Working
    BY <1>6 DEF FinishExtraction, Working, budget
  <2>2. CASE RenewLeases(c) /\ Goto(c, "extracted")
    BY <1>0, <2>1, <2>2, GotoGoes, RenewsLease, WorkStep
  <2>3. CASE CannotRenewLeases(c) /\ Finish(c)
    BY <1>0, <2>1, <2>3, RenewsLease, FinishStep
  <2>4. CASE UNCHANGED consumer /\ Finish(c)
    BY <1>0, <2>1, <2>4, FinishStep DEF LeaseOf
  <2>5. QED  BY <1>6, <2>2, <2>3, <2>4 DEF FinishExtraction
<1>7. CASE Bind(c)
  <2>1. /\ task[c].at \in Working /\ LeaseOf(c) /\ UNCHANGED <<life, faults>>
    BY <1>7 DEF Bind, Working, LeaseOf, budget
  <2>2. CASE \E b \in Batches :
               task' = [task EXCEPT ![c].at = "bound", ![c].copy = Bound(Copy(c), b)]
    <3>1. /\ task'[c].at = "bound"
          /\ \A d \in Coordinators : d # c => task'[d] = task[d]
      BY <2>2 DEF TypeOK, Task
    <3>2. QED  BY <1>0, <2>1, <3>1, WorkStep DEF Working
  <2>3. CASE Finish(c)
    BY <1>0, <2>1, <2>3, FinishStep
  <2>4. QED  BY <1>7, <2>2, <2>3 DEF Bind
<1>8. CASE Commit(c)
  <2>1. task[c].at \in Working /\ Finish(c) /\ LeaseOf(c) /\ UNCHANGED <<life, faults>>
    BY <1>8 DEF Commit, Committing, Working, LeaseOf, budget
  <2>2. QED  BY <1>0, <2>1, FinishStep
<1>9. CASE RecordFailure(c)
  <2>1. task[c].at \in Working
    BY <1>9 DEF RecordFailure, MayFail, Committing, Working
  <2>2. Finish(c) /\ LeaseOf(c) /\ UNCHANGED <<life, faults>>
    BY <1>9 DEF RecordFailure, LeaseOf, budget
  <2>3. QED  BY <1>0, <2>1, <2>2, FinishStep
<1>10. QED
  BY <1>1, <1>2, <1>3, <1>4, <1>5, <1>6, <1>7, <1>8, <1>9 DEF Process

\* Starting, the heartbeat, and the faults that strike a running coordinator.
LEMMA AroundFenced ==
  ASSUME TypeOK, TypeOK', FenceInv, NEW c \in Coordinators,
         \/ \E target \in Targets : Begin(c, target)
         \/ Heartbeat(c) \/ BindThenError(c) \/ StoreError(c) \/ PermitLapses(c)
  PROVE  FenceInv'
<1>0. faults \in Nat  BY DEF TypeOK
<1>1. CASE \E target \in Targets : Begin(c, target)
  <2>1. /\ task'[c].at = "loop"
        /\ \A d \in Coordinators : d # c => task'[d] = task[d]
    BY <1>1 DEF Begin, TypeOK, IdleTask
  <2>2. CanConsume(c) /\ Acquire(c) /\ UNCHANGED <<life, faults>>
    BY <1>1 DEF Begin, budget
  <2>3. QED  BY <1>0, <2>1, <2>2, WorkerStep DEF LeaseOf, Working
<1>2. CASE Heartbeat(c)
  <2>1. task[c].at = "extracting" /\ UNCHANGED <<life, faults>>
    BY <1>2 DEF Heartbeat, budget
  <2>2. LeaseOf(c)
    BY <1>2, RenewsLease DEF Heartbeat
  <2>3. /\ task'[c].at \in {"extracting", "lost"}
        /\ \A d \in Coordinators : d # c => task'[d] = task[d]
    BY <1>2, <2>1, GotoGoes DEF Heartbeat
  <2>4. QED  BY <1>0, <2>1, <2>2, <2>3, WorkStep DEF Working
<1>3. CASE BindThenError(c) \/ PermitLapses(c)
  <2>1. /\ task[c].at \in Working /\ Finish(c) /\ LeaseOf(c) /\ UNCHANGED life
        /\ faults' = faults - 1
    BY <1>3 DEF BindThenError, PermitLapses, Working, LeaseOf
  <2>2. QED  BY <1>0, <2>1, FinishStep
<1>4. CASE StoreError(c)
  <2>1. /\ task'[c].at = "release"
        /\ \A d \in Coordinators : d # c => task'[d] = task[d]
    BY <1>4 DEF StoreError, TypeOK, Task
  <2>2. LeaseOf(c) /\ UNCHANGED life /\ faults' = faults - 1
    BY <1>4 DEF StoreError, LeaseOf
  <2>3. QED  BY <1>0, <2>1, <2>2, WorkerStep DEF Working
<1>5. QED  BY <1>1, <1>2, <1>3, <1>4

\* close() and the death of a coordinator.
LEMMA EndFenced ==
  ASSUME TypeOK, TypeOK', FenceInv, NEW c \in Coordinators,
         CloseStart(c) \/ CloseReturn(c) \/ Crash(c)
  PROVE  FenceInv'
<1>1. CASE CloseStart(c)
  <2>1. /\ UNCHANGED <<task, consumer, faults>> /\ task[c].at # "claim"
        /\ accepting' = accepting \ {c} /\ closeReport[c] = "open"
        /\ closeReport' = [closeReport EXCEPT ![c] = "closing"]
    BY <1>1 DEF CloseStart, budget
  <2>2. LeaseIsHeld' /\ ClosedRefuses' /\ StoppedRests'
    BY <2>1 DEF FenceInv, LeaseIsHeld, ClosedRefuses, StoppedRests, TypeOK
  <2>3. QED  BY <2>1, <2>2 DEF FenceInv
<1>2. CASE CloseReturn(c)
  <2>1. /\ UNCHANGED <<task, consumer, accepting, faults>>
        /\ closeReport[c] = "closing"
        /\ closeReport' = [closeReport EXCEPT
                             ![c] = IF task[c].at = "idle" THEN "stopped" ELSE "timed_out"]
    BY <1>2 DEF CloseReturn, budget
  <2>2. LeaseIsHeld' /\ ClosedRefuses' /\ StoppedRests'
    BY <2>1 DEF FenceInv, LeaseIsHeld, ClosedRefuses, StoppedRests, TypeOK
  <2>3. QED  BY <2>1, <2>2 DEF FenceInv
<1>3. CASE Crash(c)
  <2>1. /\ task'[c].at = "idle"
        /\ \A d \in Coordinators : d # c => task'[d] = task[d]
    BY <1>3 DEF Crash, TypeOK, IdleTask
  <2>2. /\ UNCHANGED faults /\ accepting' = accepting \cup {c}
        /\ closeReport' = [closeReport EXCEPT ![c] = "open"]
        /\ consumer.owner # c => consumer' = consumer
    BY <1>3 DEF Crash
  <2>3. LeaseIsHeld'
    BY <2>1, <2>2 DEF FenceInv, LeaseIsHeld
  <2>4. ClosedRefuses' /\ StoppedRests'
    BY <2>1, <2>2 DEF FenceInv, ClosedRefuses, StoppedRests, TypeOK
  <2>5. QED  BY <2>2, <2>3, <2>4 DEF FenceInv
<1>4. QED  BY <1>1, <1>2, <1>3

LEMMA TimeFenced ==
  ASSUME TypeOK, TypeOK', FenceInv, Time
  PROVE  FenceInv'
<1>0. faults \in Nat  BY DEF TypeOK
<1>1. CASE \E a \in Archivals : LeaseExpires(a) \/ PermitExpires(a) \/ RetryDue(a)
  BY <1>0, <1>1, ElsewhereStep
     DEF LeaseExpires, PermitExpires, RetryDue, SpendUnless, budget
<1>2. CASE ConsumerExpires
  <2>1. UNCHANGED <<task, life>> /\ faults' <= faults
    BY <1>0, <1>2 DEF ConsumerExpires, SpendUnless
  <2>2. faults' <= MaxFaults /\ (faults' = MaxFaults => faults = MaxFaults)
    BY <2>1, BoundsAssumption DEF TypeOK, FenceInv
  <2>3. CASE consumer.owner = Nobody
    <3>1. \A d \in Coordinators : consumer.owner # d
      BY <2>3, NamesAssumption
    <3>2. LeaseIsHeld'
      BY <2>1, <2>2, <3>1 DEF FenceInv, LeaseIsHeld
    <3>3. QED
      BY <2>1, <2>2, <3>2 DEF FenceInv, ClosedRefuses, StoppedRests, life
  <2>4. CASE consumer.owner # Nobody
    <3>1. faults' # MaxFaults
      BY <1>0, <1>2, <2>2, <2>4 DEF ConsumerExpires, SpendUnless
    <3>2. QED
      BY <2>1, <2>2, <3>1
         DEF FenceInv, LeaseIsHeld, ClosedRefuses, StoppedRests, life
  <2>5. QED  BY <2>3, <2>4
<1>3. QED  BY <1>1, <1>2 DEF Time

\* The fences hold in every step, whoever takes it.
LEMMA NextFenced == TypeOK /\ TypeOK' /\ FenceInv /\ [Next]_vars => FenceInv'
<1> SUFFICES ASSUME TypeOK, TypeOK', FenceInv, [Next]_vars  PROVE FenceInv'
  OBVIOUS
<1>0. faults \in Nat  BY DEF TypeOK
<1>1. CASE \E a \in Archivals : Submit(a)
  BY <1>0, <1>1, ElsewhereStep DEF Submit, budget
<1>2. CASE Time
  BY <1>2, TimeFenced
<1>3. CASE UNCHANGED vars
  BY <1>0, <1>3, ElsewhereStep DEF vars, budget
<1>4. QED
  BY <1>1, <1>2, <1>3, ProcessFenced, AroundFenced, EndFenced DEF Next

LEMMA InitFenced == Init => FenceInv
<1> SUFFICES ASSUME Init  PROVE FenceInv
  OBVIOUS
<1>1. \A c \in Coordinators : task[c].at = "idle" /\ closeReport[c] = "open"
  BY DEF Init, IdleTask
<1>2. faults <= MaxFaults
  BY BoundsAssumption DEF Init
<1>3. QED
  BY <1>1, <1>2 DEF FenceInv, LeaseIsHeld, ClosedRefuses, StoppedRests

\* One coordinator at work on the whole store as long as nothing stalls past a
\* deadline, and none that reported a stop ever claims again: whichever of them
\* crashes, restarts, or is closed in the middle of it.
THEOREM WorkStaysFenced == Spec => []WorkIsFenced
<1>1. TypeOK /\ FenceInv => WorkIsFenced
  <2> SUFFICES ASSUME TypeOK, FenceInv  PROVE SingleConsumer /\ ClosedIsQuiescent
    BY DEF WorkIsFenced
  <2>1. SingleConsumer
    BY DEF FenceInv, LeaseIsHeld, SingleConsumer
  <2>2. ClosedIsQuiescent
    BY DEF FenceInv, StoppedRests, ClosedIsQuiescent, Working
  <2>3. QED  BY <2>1, <2>2
<1>2. QED
  BY <1>1, TypeIsCorrect, InitFenced, NextFenced, PTL DEF Spec

=============================================================================
