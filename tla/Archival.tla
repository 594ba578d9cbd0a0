------------------------------ MODULE Archival ------------------------------
(***************************************************************************)
(* Reliable archival of completed Turns: the archival ledger of the store  *)
(* (claim, lease, bind, commit, update) and the ArchivalCoordinator that   *)
(* drives it.  Several coordinators (processes, or engines in one process) *)
(* share one store.  Each runs at most one process_pending() at a time,    *)
(* because of its processing lock, and may crash at any point of it.       *)
(*                                                                         *)
(* Time is abstracted to what the code compares it with: a lease, a permit *)
(* or a consumer lease is live or expired, and a retry is due or not.  A   *)
(* lease whose holder is gone always expires sooner or later; a lease that *)
(* expires under a running holder (a stall longer than the heartbeat) and  *)
(* a storage error the code does not handle are drawn from a fault budget. *)
(*                                                                         *)
(* An archival is named by its submission sequence number.  How a key and  *)
(* a request select an existing archival instead is module                 *)
(* ArchivalIdentity.                                                       *)
(***************************************************************************)
EXTENDS Integers, FiniteSets

CONSTANTS
  MaxArchivals,   \* bound: archivals submitted in one behaviour
  Coordinators,   \* ArchivalCoordinator instances sharing the store
  Batches,        \* what an extraction may prepare (the empty batch included)
  NoBatch,        \* no prepared batch
  Nobody,         \* the consumer lease of a coordinator that is gone
  MaxAttempts,    \* configured attempts per phase
  MaxCrashes,     \* bound: coordinator crashes
  MaxFaults       \* bound: stalls past a deadline and unhandled storage errors

ASSUME BoundsAssumption ==
  /\ MaxArchivals \in Nat
  /\ MaxAttempts \in Nat \ {0}
  /\ MaxCrashes \in Nat
  /\ MaxFaults \in Nat

ASSUME NamesAssumption ==
  /\ NoBatch \notin Batches
  /\ Nobody \notin Coordinators

VARIABLES
  records,        \* the durable archival records
  artifacts,      \* the batch published for an archival
  liveLeases,     \* archivals whose processing lease has not expired
  livePermits,    \* archivals whose commit permit has not expired
  due,            \* archivals in RETRY_WAIT whose next_attempt_at has passed
  consumer,       \* the store's singleton consumer lease
  task,           \* what each coordinator's process_pending() is doing
  accepting,      \* coordinators that still accept and claim
  closeReport,    \* what each coordinator's close() has reported
  publications,   \* history: how often artifacts were published
  extractions,    \* history: how often the extractor was started
  crashes,        \* crashes left
  faults          \* faults left

store   == <<records, artifacts, liveLeases, livePermits, due>>
life    == <<accepting, closeReport>>
history == <<publications, extractions>>
budget  == <<crashes, faults>>
vars    == <<store, consumer, task, life, history, budget>>

Archivals == 1..MaxArchivals
AnyOne    == 0      \* process_pending() without an archival_id

Statuses == {"absent", "pending", "processing", "retry_wait", "completed", "failed"}
Terminal == {"completed", "failed"}
Phases   == {"extraction", "commit"}
Counts   == 0..MaxAttempts
Bindings == Batches \cup {NoBatch}

\* ArchivalRecord and its receipt.  A lease token (with the attempt id minted
\* beside it) and a permit are fresh uuids in the code; here each is the record
\* version at which it was minted, and 0 when there is none.
Record == [status: Statuses, phase: Phases,
           extraction: Counts, commit: Counts,
           version: Nat, token: Nat, permit: Nat, recovered: BOOLEAN,
           binding: Bindings]

NoRecord == [status |-> "absent", phase |-> "extraction", extraction |-> 0,
             commit |-> 0, version |-> 0, token |-> 0, permit |-> 0,
             recovered |-> FALSE, binding |-> NoBatch]

\* The in-flight work of a coordinator: "at" is its position in
\* process_pending(), "copy" the record it claimed (or bound), held in memory
\* while others may change the store.
Working   == {"claimed", "extracting", "lost", "extracted", "bound"}
Positions == Working \cup {"idle", "loop", "claim", "release"}
Targets   == Archivals \cup {AnyOne}
Task      == [at: Positions, target: Targets, id: Targets, copy: Record]
IdleTask  == [at |-> "idle", target |-> AnyOne, id |-> AnyOne, copy |-> NoRecord]

Owners        == Coordinators \cup {Nobody}
ConsumerLease == [owner: Owners, live: BOOLEAN]
NoConsumer    == [owner |-> Nobody, live |-> FALSE]
Reports       == {"open", "closing", "stopped", "timed_out"}

Init ==
  /\ records = [a \in Archivals |-> NoRecord]
  /\ artifacts = [a \in Archivals |-> NoBatch]
  /\ liveLeases = {} /\ livePermits = {} /\ due = {}
  /\ consumer = NoConsumer
  /\ task = [c \in Coordinators |-> IdleTask]
  /\ accepting = Coordinators
  /\ closeReport = [c \in Coordinators |-> "open"]
  /\ publications = [a \in Archivals |-> 0]
  /\ extractions = [a \in Archivals |-> 0]
  /\ crashes = MaxCrashes /\ faults = MaxFaults

-----------------------------------------------------------------------------
(* The store's transactions, as conditions and record values. *)

\* Faulty: an abandoned record is never taken over.
ArchivalReadyNoRecovery(a) ==
  \/ records[a].status = "pending"
  \/ records[a].status = "retry_wait" /\ a \in due

\* A record that may be claimed: waiting, due for a retry, or abandoned by a
\* holder whose lease ran out.
ArchivalReady(a) ==
  \/ records[a].status = "pending"
  \/ records[a].status = "retry_wait" /\ a \in due
  \/ records[a].status = "processing" /\ a \notin liveLeases

\* Claiming mints a new lease; only a claim that is not a recovery counts as a
\* new attempt of its phase, and a bound record gets a new permit for its batch.
Recovering(r)    == r.status = "processing"
Count(r, phase)  == IF r.phase = phase /\ ~Recovering(r) THEN 1 ELSE 0
ClaimPermit(r)   == IF r.phase = "commit" THEN r.version + 1 ELSE 0

Claimed(r) ==
  [r EXCEPT !.status = "processing",
            !.extraction = r.extraction + Count(r, "extraction"),
            !.commit = r.commit + Count(r, "commit"),
            !.version = r.version + 1,
            !.token = r.version + 1,
            !.permit = ClaimPermit(r),
            !.recovered = Recovering(r)]

\* renew_archival_lease: the holder's lease is current and unexpired.
CanRenew(a, copy) ==
  /\ records[a].status = "processing"
  /\ records[a].token = copy.token
  /\ a \in liveLeases

\* _validate_archival_update: fences bind and every retry or failure.
ValidUpdate(a, copy) ==
  /\ records[a].version = copy.version
  /\ records[a].status = "processing"
  /\ records[a].token = copy.token
  /\ a \in liveLeases

\* _validate_bound_archival_commit and the permit check: a bound batch may be
\* published after the lease expired, as long as nobody claimed the record.
ValidCommit(a, copy) ==
  /\ records[a].version = copy.version
  /\ records[a].status = "processing"
  /\ records[a].phase = "commit"
  /\ records[a].token = copy.token
  /\ records[a].permit = copy.permit
  /\ a \in livePermits

\* The record _extract_and_bind freezes around batch b.
Bound(copy, b) ==
  [copy EXCEPT !.phase = "commit", !.commit = @ + 1, !.version = @ + 1,
               !.permit = copy.version + 1, !.binding = b]

\* A stored terminal or waiting record gives up its lease and permit.
Released(r) == [r EXCEPT !.token = 0, !.permit = 0, !.recovered = FALSE]

Completed(copy) ==
  Released([copy EXCEPT !.status = "completed", !.version = @ + 1])

\* _record_failure: the attempts of the phase that failed decide between
\* another retry and the terminal failure.
Attempts(r) == IF r.phase = "extraction" THEN r.extraction ELSE r.commit

FailureStatus(copy, retryable) ==
  IF retryable /\ Attempts(copy) < MaxAttempts THEN "retry_wait" ELSE "failed"

\* Faulty: a failed commit starts over and extracts again.
FailedStartsOver(copy, retryable) ==
  Released([copy EXCEPT !.status = FailureStatus(copy, retryable),
                        !.phase = "extraction", !.binding = NoBatch,
                        !.version = @ + 1])

Failed(copy, retryable) ==
  Released([copy EXCEPT !.status = FailureStatus(copy, retryable),
                        !.version = @ + 1])

\* Faulty: the consumer lease is overwritten whoever owns it.
CanConsumeAlways(c) == TRUE

\* acquire_archival_consumer succeeds for the owner and on an expired lease.
CanConsume(c) == consumer.owner = c \/ ~consumer.live

-----------------------------------------------------------------------------
(* Submission, and the loop of process_pending(). *)

\* submit(): a new record, PENDING in the extraction phase, accepted by some
\* coordinator that is not closing.
Submit(a) ==
  /\ accepting # {}
  /\ records[a].status = "absent"
  /\ \A b \in Archivals : b < a => records[b].status # "absent"
  /\ records' = [records EXCEPT ![a] = [NoRecord EXCEPT !.status = "pending",
                                                        !.version = 1]]
  /\ UNCHANGED <<artifacts, liveLeases, livePermits, due, consumer, task,
                 life, history, budget>>

Goto(c, position) == task' = [task EXCEPT ![c].at = position]

Acquire(c) == consumer' = [owner |-> c, live |-> TRUE]

\* process_pending(): takes the processing lock and the consumer lease.  When
\* another coordinator holds the lease it returns 0 and changes nothing.
Begin(c, target) ==
  /\ task[c].at = "idle"
  /\ CanConsume(c)
  /\ Acquire(c)
  /\ task' = [task EXCEPT ![c] = [IdleTask EXCEPT !.at = "loop",
                                                  !.target = target]]
  /\ UNCHANGED <<store, life, history, budget>>

\* One turn of the loop, under the state condition: stop when closing, renew
\* the consumer lease, and go on to claim only with it.
NextRound(c) ==
  /\ task[c].at = "loop"
  /\ IF c \in accepting /\ CanConsume(c)
       THEN Acquire(c) /\ Goto(c, "claim")
       ELSE UNCHANGED consumer /\ Goto(c, "release")
  /\ UNCHANGED <<store, life, history, budget>>

Candidates(c) ==
  {a \in Archivals : ArchivalReady(a) /\ task[c].target \in {AnyOne, a}}

\* claim_next_archival_record: the earliest ready submission, in one
\* transaction.
Claim(c) ==
  /\ task[c].at = "claim"
  /\ \E a \in Candidates(c) :
       /\ \A b \in Candidates(c) : a <= b
       /\ records' = [records EXCEPT ![a] = Claimed(records[a])]
       /\ liveLeases' = liveLeases \cup {a}
       /\ livePermits' = IF records[a].phase = "commit"
                           THEN livePermits \cup {a} ELSE livePermits \ {a}
       /\ due' = due \ {a}
       /\ task' = [task EXCEPT ![c].at = "claimed", ![c].id = a,
                               ![c].copy = Claimed(records[a])]
  /\ UNCHANGED <<artifacts, consumer, life, history, budget>>

NothingToClaim(c) ==
  /\ task[c].at = "claim"
  /\ Candidates(c) = {}
  /\ Goto(c, "release")
  /\ UNCHANGED <<store, consumer, life, history, budget>>

\* The finally clause: give up the consumer lease if it is still ours.
Release(c) ==
  /\ task[c].at = "release"
  /\ consumer' = IF consumer.owner = c THEN NoConsumer ELSE consumer
  /\ task' = [task EXCEPT ![c] = IdleTask]
  /\ UNCHANGED <<store, life, history, budget>>

\* The claimed record is dealt with: the loop goes on, unless the call was for
\* one archival or max_tasks is reached.
Finish(c) ==
  \E position \in {"loop", "release"} :
    /\ position = "loop" => task[c].target = AnyOne
    /\ task' = [task EXCEPT ![c].at = position, ![c].id = AnyOne,
                            ![c].copy = NoRecord]

-----------------------------------------------------------------------------
(* _process_claimed(): extraction, binding, publication, failure. *)

Id(c)   == task[c].id
Copy(c) == task[c].copy

\* renew_leases: the processing lease, and the consumer lease when its own
\* heartbeat is due.
RenewLeases(c) ==
  /\ CanRenew(Id(c), Copy(c))
  /\ \/ UNCHANGED consumer
     \/ CanConsume(c) /\ Acquire(c)

CannotRenewLeases(c) ==
  /\ ~CanRenew(Id(c), Copy(c)) \/ ~CanConsume(c)
  /\ UNCHANGED consumer

\* Faulty: a recovered record is extracted again, uncounted.
ExtractableAgain(r) == r.phase = "extraction"

\* A recovered record is never extracted again: it goes to RecordFailure.
Extractable(r) == r.phase = "extraction" /\ ~r.recovered

StartExtraction(c) ==
  /\ task[c].at = "claimed"
  /\ Extractable(Copy(c))
  /\ \/ /\ RenewLeases(c)
        /\ Goto(c, "extracting")
        /\ extractions' = [extractions EXCEPT ![Id(c)] = @ + 1]
     \/ CannotRenewLeases(c) /\ Finish(c) /\ UNCHANGED extractions
  /\ UNCHANGED <<store, life, publications, budget>>

\* The heartbeat thread while the host extracts.  Once a renewal fails the
\* thread stops, and the result of the extraction will be discarded.
Heartbeat(c) ==
  /\ task[c].at = "extracting"
  /\ \/ RenewLeases(c) /\ UNCHANGED task
     \/ CannotRenewLeases(c) /\ Goto(c, "lost")
  /\ UNCHANGED <<store, life, history, budget>>

\* The extractor returned: a last renewal decides whether its result counts.
FinishExtraction(c) ==
  /\ \/ task[c].at = "extracting" /\ RenewLeases(c) /\ Goto(c, "extracted")
     \/ task[c].at = "extracting" /\ CannotRenewLeases(c) /\ Finish(c)
     \/ task[c].at = "lost" /\ UNCHANGED consumer /\ Finish(c)
  /\ UNCHANGED <<store, life, history, budget>>

\* bind_prepared_archival_batch: freezes batch b in the record with a permit.
StoreBinding(c, b) ==
  /\ ValidUpdate(Id(c), Copy(c))
  /\ records[Id(c)].binding \in {NoBatch, b}
  /\ records' = [records EXCEPT ![Id(c)] = Bound(Copy(c), b)]
  /\ livePermits' = livePermits \cup {Id(c)}
  /\ UNCHANGED <<artifacts, liveLeases, due>>

Bind(c) ==
  /\ task[c].at = "extracted"
  /\ \/ \E b \in Batches :
          /\ StoreBinding(c, b)
          /\ task' = [task EXCEPT ![c].at = "bound",
                                  ![c].copy = Bound(Copy(c), b)]
     \/ ~ValidUpdate(Id(c), Copy(c)) /\ UNCHANGED store /\ Finish(c)
  /\ UNCHANGED <<consumer, life, history, budget>>

\* The binding is durable but the call raised: the failure is then recorded
\* from the unbound copy, whose version is stale, so nothing else changes.
BindThenError(c) ==
  /\ task[c].at = "extracted"
  /\ faults > 0
  /\ \E b \in Batches : StoreBinding(c, b)
  /\ Finish(c)
  /\ faults' = faults - 1
  /\ UNCHANGED <<consumer, life, history, crashes>>

\* Claimed in the commit phase, or bound just now.
Committing(c) ==
  \/ task[c].at = "bound"
  \/ /\ task[c].at = "claimed"
     /\ Copy(c).phase = "commit" /\ ~Copy(c).recovered

\* Faulty: the artifacts are out before the receipt is checked.
CommitPublishesFirst(c) ==
  /\ Committing(c)
  /\ artifacts' = [artifacts EXCEPT ![Id(c)] = Copy(c).binding]
  /\ publications' = [publications EXCEPT ![Id(c)] = @ + 1]
  /\ IF ValidCommit(Id(c), Copy(c))
     THEN /\ records' = [records EXCEPT ![Id(c)] = Completed(Copy(c))]
          /\ liveLeases' = liveLeases \ {Id(c)}
          /\ livePermits' = livePermits \ {Id(c)}
     ELSE UNCHANGED <<records, liveLeases, livePermits>>
  /\ Finish(c)
  /\ UNCHANGED <<due, consumer, life, extractions, budget>>

\* commit_archival_batch: artifacts and terminal receipt in one transaction.
\* A call that raises after the transaction became durable ends the same way:
\* its failure is refused and the latest receipt returned.
Commit(c) ==
  /\ Committing(c)
  /\ \/ /\ ValidCommit(Id(c), Copy(c))
        /\ artifacts' = [artifacts EXCEPT ![Id(c)] = records[Id(c)].binding]
        /\ publications' = [publications EXCEPT ![Id(c)] = @ + 1]
        /\ records' = [records EXCEPT ![Id(c)] = Completed(Copy(c))]
        /\ liveLeases' = liveLeases \ {Id(c)}
        /\ livePermits' = livePermits \ {Id(c)}
     \/ /\ ~ValidCommit(Id(c), Copy(c))
        /\ UNCHANGED <<records, artifacts, liveLeases, livePermits, publications>>
  /\ Finish(c)
  /\ UNCHANGED <<due, consumer, life, extractions, budget>>

\* What may make _process_claimed record a failure: a recovered lease, a
\* changed Turn or an old schema (permanent), the extractor's own errors
\* (permanent or not), an invalid decision, a commit that raised.
MayFail(c, retryable) ==
  \/ task[c].at = "claimed" /\ Copy(c).recovered /\ retryable
  \/ task[c].at = "claimed" /\ Extractable(Copy(c)) /\ ~retryable
  \/ task[c].at \in {"extracting", "lost"}
  \/ task[c].at = "extracted" /\ retryable
  \/ Committing(c) /\ retryable

\* _record_failure: a retry or the terminal failure, refused when the lease is
\* no longer ours.
RecordFailure(c) ==
  /\ \E retryable \in BOOLEAN :
       /\ MayFail(c, retryable)
       /\ \/ /\ ValidUpdate(Id(c), Copy(c))
             /\ records' = [records EXCEPT ![Id(c)] = Failed(Copy(c), retryable)]
             /\ liveLeases' = liveLeases \ {Id(c)}
             /\ livePermits' = livePermits \ {Id(c)}
          \/ /\ ~ValidUpdate(Id(c), Copy(c))
             /\ UNCHANGED <<records, liveLeases, livePermits>>
  /\ Finish(c)
  /\ UNCHANGED <<artifacts, due, consumer, life, history, budget>>

-----------------------------------------------------------------------------
(* Closing, crashes, errors and the passage of time. *)

\* close(): stops acceptance.  A claim runs under the same condition as its
\* check of acceptance, so closing never falls between the two.
CloseStart(c) ==
  /\ closeReport[c] = "open"
  /\ task[c].at # "claim"
  /\ accepting' = accepting \ {c}
  /\ closeReport' = [closeReport EXCEPT ![c] = "closing"]
  /\ UNCHANGED <<store, consumer, task, history, budget>>

\* Faulty: a timeout is reported as a stopped worker.
CloseReturnEarly(c) ==
  /\ closeReport[c] = "closing"
  /\ closeReport' = [closeReport EXCEPT ![c] = "stopped"]
  /\ UNCHANGED <<store, consumer, task, accepting, history, budget>>

\* close() returns: the worker stopped, or the timeout passed first.
CloseReturn(c) ==
  /\ closeReport[c] = "closing"
  /\ closeReport' = [closeReport EXCEPT
                       ![c] = IF task[c].at = "idle" THEN "stopped" ELSE "timed_out"]
  /\ UNCHANGED <<store, consumer, task, accepting, history, budget>>

\* The process dies.  Its successor is a new coordinator with a new consumer
\* id, so a consumer lease it held belongs to nobody from now on.
Crash(c) ==
  /\ crashes > 0
  /\ task[c].at # "idle"
  /\ crashes' = crashes - 1
  /\ task' = [task EXCEPT ![c] = IdleTask]
  /\ consumer' = IF consumer.owner = c
                   THEN [consumer EXCEPT !.owner = Nobody] ELSE consumer
  /\ accepting' = accepting \cup {c}
  /\ closeReport' = [closeReport EXCEPT ![c] = "open"]
  /\ UNCHANGED <<store, history, faults>>

\* A store call raises something process_pending() does not handle.
StoreError(c) ==
  /\ faults > 0
  /\ task[c].at \in Working \cup {"loop", "claim"}
  /\ faults' = faults - 1
  /\ task' = [task EXCEPT ![c].at = "release", ![c].id = AnyOne,
                          ![c].copy = NoRecord]
  /\ UNCHANGED <<store, consumer, life, history, crashes>>

\* A stall between preparing a permit and binding it: the bind is refused.
PermitLapses(c) ==
  /\ faults > 0
  /\ task[c].at = "extracted"
  /\ Finish(c)
  /\ faults' = faults - 1
  /\ UNCHANGED <<store, consumer, life, history, crashes>>

\* Some coordinator still works on archival a under its current lease.
Held(a) ==
  \E c \in Coordinators :
    /\ task[c].at \in Working
    /\ Id(c) = a
    /\ Copy(c).token = records[a].token

\* Time passes freely for what nobody keeps alive, and at the cost of a fault
\* for what a running coordinator should have kept alive.
SpendUnless(free) == faults' = IF free THEN faults ELSE faults - 1

LeaseExpires(a) ==
  /\ a \in liveLeases
  /\ ~Held(a) \/ faults > 0
  /\ liveLeases' = liveLeases \ {a}
  /\ SpendUnless(~Held(a))
  /\ UNCHANGED <<records, artifacts, livePermits, due, consumer, task, life,
                 history, crashes>>

PermitExpires(a) ==
  /\ a \in livePermits
  /\ Held(a) /\ faults > 0
  /\ livePermits' = livePermits \ {a}
  /\ faults' = faults - 1
  /\ UNCHANGED <<records, artifacts, liveLeases, due, consumer, task, life,
                 history, crashes>>

ConsumerExpires ==
  /\ consumer.live
  /\ consumer.owner = Nobody \/ faults > 0
  /\ consumer' = [consumer EXCEPT !.live = FALSE]
  /\ SpendUnless(consumer.owner = Nobody)
  /\ UNCHANGED <<store, task, life, history, crashes>>

RetryDue(a) ==
  /\ records[a].status = "retry_wait"
  /\ a \notin due
  /\ due' = due \cup {a}
  /\ UNCHANGED <<records, artifacts, liveLeases, livePermits, consumer, task,
                 life, history, budget>>

-----------------------------------------------------------------------------

Process(c) ==
  \/ NextRound(c) \/ Claim(c) \/ NothingToClaim(c) \/ Release(c)
  \/ StartExtraction(c) \/ FinishExtraction(c) \/ Bind(c) \/ Commit(c)
  \/ RecordFailure(c)

Time ==
  \/ \E a \in Archivals : LeaseExpires(a) \/ PermitExpires(a) \/ RetryDue(a)
  \/ ConsumerExpires

Next ==
  \/ \E a \in Archivals : Submit(a)
  \/ \E c \in Coordinators :
       \/ \E target \in Targets : Begin(c, target)
       \/ Process(c) \/ Heartbeat(c) \/ BindThenError(c)
       \/ CloseStart(c) \/ CloseReturn(c) \/ Crash(c)
       \/ StoreError(c) \/ PermitLapses(c)
  \/ Time

Spec == Init /\ [][Next]_vars

\* The host calls process_pending() again and again on every coordinator it has
\* not closed (strong fairness: the consumer lease comes and goes), a call that
\* started goes on unless it crashes, and time passes.  Nothing obliges a fault,
\* a crash, a submission or a close to happen.
Fairness ==
  /\ \A c \in Coordinators :
       /\ SF_vars(c \in accepting /\ Begin(c, AnyOne))
       /\ WF_vars(Process(c))
  /\ \A a \in Archivals :
       /\ WF_vars(~Held(a) /\ LeaseExpires(a))
       /\ WF_vars(RetryDue(a))
  /\ WF_vars(consumer.owner = Nobody /\ ConsumerExpires)

FairSpec == Spec /\ Fairness

-----------------------------------------------------------------------------
(* Properties *)

TypeOK ==
  /\ records \in [Archivals -> Record]
  /\ artifacts \in [Archivals -> Bindings]
  /\ liveLeases \subseteq Archivals
  /\ livePermits \subseteq Archivals
  /\ due \subseteq Archivals
  /\ consumer \in ConsumerLease
  /\ task \in [Coordinators -> Task]
  /\ accepting \subseteq Coordinators
  /\ closeReport \in [Coordinators -> Reports]
  /\ publications \in [Archivals -> Nat]
  /\ extractions \in [Archivals -> Nat]
  /\ crashes \in Nat /\ faults \in Nat

\* Artifacts become visible exactly once, together with the COMPLETED receipt,
\* and are the batch bound in the record: however many coordinators race,
\* stall, crash or retry, nothing is published twice or without its receipt.
PublishedWithReceipt ==
  \A a \in Archivals :
    IF records[a].status = "completed"
      THEN /\ publications[a] = 1
           /\ artifacts[a] = records[a].binding
           /\ artifacts[a] # NoBatch
      ELSE publications[a] = 0 /\ artifacts[a] = NoBatch

\* The host extractor is never started more often than attempts were counted,
\* hence at most MaxAttempts times for one archival, even when coordinators
\* keep crashing in the middle of it.
ExtractionsCounted ==
  \A a \in Archivals : extractions[a] <= records[a].extraction

\* An archival waits for a retry only while its phase has attempts left.
RetryHasAttemptsLeft ==
  \A a \in Archivals :
    records[a].status = "retry_wait" => Attempts(records[a]) < MaxAttempts

\* Once close() reported that the worker stopped, no archival is in flight in
\* that coordinator, and a later process_pending() never claims one.
ClosedIsQuiescent ==
  \A c \in Coordinators :
    closeReport[c] = "stopped" => task[c].at \notin Working \cup {"claim"}

\* While nothing stalled past a deadline, the consumer lease keeps a single
\* coordinator at work on the whole store, crashes included.
SingleConsumer ==
  faults = MaxFaults =>
    \A c, d \in Coordinators :
      task[c].at \notin {"idle", "release"} /\ task[d].at \notin {"idle", "release"}
        => c = d

\* Work is fenced: by the consumer lease between coordinators, by close() within
\* one, whichever of them stalls, dies or is closed while it claims.
WorkIsFenced == SingleConsumer /\ ClosedIsQuiescent

\* A batch, once bound, is the only one the archival can ever publish: a retry
\* commits it again, and no stale coordinator replaces it.
BindingIsFinal ==
  [][\A a \in Archivals :
       records[a].binding # NoBatch => records'[a].binding = records[a].binding
    ]_records

\* A terminal receipt never changes again, whatever stale coordinators do.
TerminalIsFinal ==
  [][\A a \in Archivals :
       records[a].status \in Terminal => records'[a] = records[a]]_records

\* Every accepted archival reaches a terminal receipt, unless the host closes
\* every coordinator: no crash, stall or lost lease leaves it stuck.
EventuallyTerminal ==
  \A a \in Archivals :
    records[a].status # "absent"
      ~> (records[a].status \in Terminal \/ accepting = {})

-----------------------------------------------------------------------------
(* The refinement of ArchivalPromise. *)

Stage(a) ==
  LET r == records[a] IN
  CASE r.status = "absent"    -> "unknown"
    [] r.status = "completed" -> "published"
    [] r.status = "failed"    -> "refused"
    [] OTHER -> IF r.binding = NoBatch THEN "accepted" ELSE "prepared"

Promise == INSTANCE ArchivalPromise
             WITH stage   <- [a \in Archivals |-> Stage(a)],
                  frozen  <- [a \in Archivals |-> records[a].binding],
                  visible <- artifacts

\* Coordinators that race, stall, crash and retry together implement the plain
\* promise: freeze one batch, publish it once or refuse.
ImplementsPromise == Promise!PSpec

-----------------------------------------------------------------------------
(* The inductive invariant behind the safety properties. *)

\* What a durable record looks like in each status and phase.
RecordShape ==
  \A a \in Archivals :
    LET r == records[a] IN
    /\ r.status = "absent" => r = NoRecord
    /\ r.status = "pending" => r.phase = "extraction" /\ r.extraction = 0
    /\ r.status = "completed" => r.phase = "commit"
    /\ r.status = "processing" <=> r.token # 0
    /\ r.phase = "commit" <=> r.binding # NoBatch
    /\ r.phase = "extraction" => r.commit = 0
    /\ r.token <= r.version
    /\ a \in liveLeases => r.status = "processing"

\* A coordinator's copy is of an earlier or of the current version of the
\* record, and then it is the record: every change of a record is versioned.
CopyIsVersioned ==
  \A c \in Coordinators :
    task[c].at \in Working =>
      /\ Id(c) \in Archivals
      /\ Copy(c).status = "processing"
      /\ Copy(c).token # 0
      /\ Copy(c).token <= Copy(c).version
      /\ Copy(c).version <= records[Id(c)].version
      /\ Copy(c).version = records[Id(c)].version => Copy(c) = records[Id(c)]
      /\ task[c].at \notin {"claimed", "bound"} => Copy(c).phase = "extraction"
      /\ task[c].at = "bound" => Copy(c).phase = "commit"

\* Two coordinators never work under the same lease token.
TokensAreUnique ==
  \A c, d \in Coordinators :
    /\ task[c].at \in Working /\ task[d].at \in Working
    /\ Id(c) = Id(d) /\ Copy(c).token = Copy(d).token
    => c = d

\* A current claim that may still start the extractor has its attempt unspent.
ClaimIsUnspent ==
  \A c \in Coordinators :
    /\ task[c].at = "claimed" /\ Extractable(Copy(c))
    /\ Copy(c).token = records[Id(c)].token
    => extractions[Id(c)] < records[Id(c)].extraction

IInv ==
  /\ TypeOK /\ RecordShape /\ CopyIsVersioned /\ TokensAreUnique /\ ClaimIsUnspent
  /\ PublishedWithReceipt /\ ExtractionsCounted /\ RetryHasAttemptsLeft

=============================================================================
