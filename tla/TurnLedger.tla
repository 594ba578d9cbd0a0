----------------------------- MODULE TurnLedger -----------------------------
(***************************************************************************)
(* The Turn lifecycle of one relationship: TurnLedger over a store, called *)
(* by hosts and engines at the same time.  Every storage method is one     *)
(* atomic step; a call is several of them.  begin_turn, record_turn and    *)
(* direct adjudication hold the relationship processing guard (a lock      *)
(* shared by all processes) from their first read to their last write;     *)
(* complete, abandon and reply attempts rely on compare-and-swap instead.  *)
(* A caller may crash between any two steps, which frees the guard.        *)
(*                                                                         *)
(* What a Turn was opened under, its baseline, is the set of revocable     *)
(* authorities approved at that moment: the Persona Manifest and Persona   *)
(* Growth.  A reviewed delivery is only valid while all of them are.       *)
(***************************************************************************)
EXTENDS Integers, FiniteSets

CONSTANTS
  Callers,      \* concurrent calls
  TurnIds,      \* turn ids chosen by hosts
  Openings,     \* user messages with their interaction context
  Outcomes,     \* what complete_turn() may claim was delivered
  Replies,      \* agent messages
  Reasons,      \* abandonment reasons
  Attempts,     \* reply attempt failures: number and sanitized metadata
  Authorities,  \* revocable authorities of the Persona
  Manifest,     \* the one among them that is the Persona Manifest
  NoOpening, NoBaseline, NoPayload, Nobody,
  Offered,      \* the operations hosts use
  Driver        \* storage driver: "sqlite" or "file"

Reviews      == {"reviewed", "failed", "not_requested", "preexisting"}
Dispositions == {"shown", "overridden", "shown_unreviewed"}

Outcome == [reply: Replies, review: Reviews, disposition: Dispositions,
            excepted: BOOLEAN, cites: SUBSET Authorities]

ASSUME LedgerAssumption ==
  /\ Outcomes \subseteq {o \in Outcome : o.review # "preexisting"}
  /\ Manifest \in Authorities
  /\ \A baseline \in SUBSET Authorities : baseline # NoBaseline
  /\ \A x \in Outcome \cup Attempts : x # NoPayload /\ x \notin Reasons
  /\ NoPayload \notin Reasons
  /\ NoOpening \notin Openings /\ Nobody \notin Callers
  /\ Driver \in {"sqlite", "file"}

VARIABLES
  turns,        \* the Turn records
  attempts,     \* the reply attempts stored for each Turn
  adjudicated,  \* turn ids with a committed adjudication, and its contract
  approved,     \* authorities in force
  revoked,      \* authorities revoked (or replaced) for good
  guard,        \* holder of the relationship processing guard
  call          \* what each caller is doing

ledger    == <<turns, attempts, adjudicated>>
authority == <<approved, revoked>>
vars      == <<ledger, authority, guard, call>>

Baselines == {NoBaseline} \cup SUBSET Authorities
Payloads  == {NoPayload} \cup Reasons \cup Outcome \cup Attempts
Statuses  == {"absent", "open", "completed", "abandoned"}
Contracts == {"persisted", "transient"}

\* The outcome record_turn() gives an exchange that was already visible.
Recorded(reply) == [reply |-> reply, review |-> "preexisting",
                    disposition |-> "shown_unreviewed", excepted |-> TRUE,
                    cites |-> {}]

\* Turn records; "ending" is the outcome of a completed Turn (reply, review,
\* disposition, exception) or the reason of an abandoned one.  The
\* record version is left out: an open Turn never changes, so it stays 1 until
\* the end.
Turn == [status: Statuses, opening: Openings \cup {NoOpening},
         baseline: Baselines, ending: Payloads]
NoTurn == [status |-> "absent", opening |-> NoOpening, baseline |-> NoBaseline,
           ending |-> NoPayload]

\* TurnRecord._validate_lifecycle; only a recorded Turn has no baseline.
ValidLifecycle(turn) ==
  CASE turn.status = "absent" -> turn = NoTurn
    [] turn.status = "open" -> turn.ending = NoPayload /\ turn.baseline # NoBaseline
    [] turn.status = "completed" -> turn.ending \notin Reasons /\ turn.ending # NoPayload
    [] OTHER -> turn.ending \in Reasons /\ turn.baseline # NoBaseline

Op(kind, t, opening, payload) ==
  [kind |-> kind, turn |-> t, opening |-> opening, payload |-> payload]

LifecycleOps ==
  {Op("begin", t, u, NoPayload) : t \in TurnIds, u \in Openings}
  \cup {Op("record", t, u, Recorded(r)) : t \in TurnIds, u \in Openings, r \in Replies}
  \cup {Op("complete", t, NoOpening, o) : t \in TurnIds, o \in Outcomes}
  \cup {Op("abandon", t, NoOpening, r) : t \in TurnIds, r \in Reasons}

OtherOps ==
  {Op("attempt", t, NoOpening, f) : t \in TurnIds, f \in Attempts}
  \cup {Op(kind, t, NoOpening, NoPayload) :
          kind \in {"adjudicate_source", "adjudicate_turn"}, t \in TurnIds}

Ops == {op \in LifecycleOps \cup OtherOps : op.kind \in Offered}

NoOp == Op("none", Nobody, NoOpening, NoPayload)

\* A call: its position, the status it first read, the baseline or contract it
\* settled on, its result.
Positions == {"idle", "start", "look", "capture", "create", "check", "transition",
              "reread", "append", "lock", "adjudicate", "done"}
Results  == {"none", "ok", "refused", "unauthorized"}
IdleCall == [op |-> NoOp, at |-> "idle", seen |-> "absent", baseline |-> NoBaseline,
             contract |-> "persisted", result |-> "none"]
Call == [op: LifecycleOps \cup OtherOps \cup {NoOp}, at: Positions,
         seen: Statuses, baseline: Baselines, contract: Contracts, result: Results]

Init ==
  /\ turns = [t \in TurnIds |-> NoTurn]
  /\ attempts = [t \in TurnIds |-> {}]
  /\ adjudicated = {}
  /\ approved = {} /\ revoked = {}
  /\ guard = Nobody
  /\ call = [c \in Callers |-> IdleCall]

-----------------------------------------------------------------------------
(* Shorthands *)

At(c)      == call[c].at
Kind(c)    == call[c].op.kind
Id(c)      == call[c].op.turn
Payload(c) == call[c].op.payload
Existing(c) == turns[Id(c)]

\* The guard, as calls that use it take it first and keep it until they return.
Guarded == {"begin", "record", "adjudicate_source"}

Goto(c, position) ==
  /\ call' = [call EXCEPT ![c].at = position]
  /\ UNCHANGED guard

\* The call returns or raises, and leaves the guard if it is inside.
Finish(c, result) ==
  /\ call' = [call EXCEPT ![c].at = "done", ![c].result = result]
  /\ guard' = IF guard = c THEN Nobody ELSE guard

FinishIf(c, condition) == Finish(c, IF condition THEN "ok" ELSE "refused")

-----------------------------------------------------------------------------
(* Calls *)

Invoke(c, op) ==
  /\ At(c) = "idle"
  /\ call' = [call EXCEPT ![c] = [IdleCall EXCEPT !.op = op, !.at = "start"]]
  /\ UNCHANGED <<ledger, authority, guard>>

Return(c) ==
  /\ At(c) = "done"
  /\ call' = [call EXCEPT ![c] = IdleCall]
  /\ UNCHANGED <<ledger, authority, guard>>

Crash(c) ==
  /\ At(c) \notin {"idle", "done"}
  /\ call' = [call EXCEPT ![c] = IdleCall]
  /\ guard' = IF guard = c THEN Nobody ELSE guard
  /\ UNCHANGED <<ledger, authority>>

\* relationship_processing_guard, at the start or, for adjudicate_turn, only
\* around the commit of the adjudication.
Enter(c) ==
  /\ \/ At(c) = "start" /\ Kind(c) \in Guarded
     \/ At(c) = "lock"
  /\ guard = Nobody
  /\ guard' = c
  /\ call' = [call EXCEPT ![c].at = IF @ = "start" THEN "look" ELSE "adjudicate"]
  /\ UNCHANGED <<ledger, authority>>

-----------------------------------------------------------------------------
(* begin_turn and record_turn *)

\* get_turn_record.  An existing Turn keeps its baseline; one that was recorded
\* has none, and a modern open Turn without one is refused.
LookUp(c) ==
  /\ At(c) = "look" /\ Kind(c) \in {"begin", "record"}
  /\ \/ /\ Existing(c).status = "absent"
        /\ Goto(c, "capture")
     \/ /\ Existing(c).status # "absent"
        /\ Kind(c) = "begin" => Existing(c).baseline # NoBaseline
        /\ call' = [call EXCEPT ![c].at = "create",
             ![c].baseline = IF Kind(c) = "begin" THEN Existing(c).baseline
                                                  ELSE NoBaseline]
        /\ UNCHANGED guard
     \/ /\ Existing(c).status # "absent"
        /\ Kind(c) = "begin" /\ Existing(c).baseline = NoBaseline
        /\ Finish(c, "refused")
  /\ UNCHANGED <<ledger, authority>>

\* Faulty: a transient adjudication is not noticed.
AvailableAlways(t) == TRUE

\* ensure_canonical_turn_identity_available
Available(t) == \A contract \in Contracts : <<t, contract>> \notin adjudicated

\* capture_turn_context_source: one coherent snapshot.
SourceSnapshot == [approved_growth |-> approved, adjudications |-> adjudicated]

Capture(c) ==
  /\ At(c) = "capture"
  /\ IF Available(Id(c))
       THEN /\ call' = [call EXCEPT ![c].at = "create",
                 ![c].baseline = IF Kind(c) = "begin" THEN SourceSnapshot.approved_growth
                                                       ELSE NoBaseline]
            /\ UNCHANGED guard
       ELSE Finish(c, "refused")
  /\ UNCHANGED <<ledger, authority>>

\* The record the call wants to insert.
NewTurn(c) ==
  IF Kind(c) = "begin"
    THEN [status |-> "open", opening |-> call[c].op.opening,
          baseline |-> call[c].baseline, ending |-> NoPayload]
    ELSE [status |-> "completed", opening |-> call[c].op.opening,
          baseline |-> call[c].baseline, ending |-> Payload(c)]

\* same_opening_as, and same_terminal_payload_as for a recorded Turn.
SameTurn(turn, new) ==
  /\ turn.opening = new.opening /\ turn.baseline = new.baseline
  /\ new.status = "completed" =>
       turn.status = "completed" /\ turn.ending = new.ending

\* create_turn_record
Create(c) ==
  /\ At(c) = "create"
  /\ \/ /\ Existing(c).status = "absent"
        /\ turns' = [turns EXCEPT ![Id(c)] = NewTurn(c)]
        /\ Finish(c, "ok")
     \/ /\ Existing(c).status # "absent"
        /\ FinishIf(c, SameTurn(Existing(c), NewTurn(c)))
        /\ UNCHANGED turns
  /\ UNCHANGED <<attempts, adjudicated, authority>>

-----------------------------------------------------------------------------
(* complete_turn and abandon_turn *)

Reviewed(o)    == o.review = "reviewed"
HasManifest(b) == b # NoBaseline /\ Manifest \in b

\* The review result was made for this Turn, inside its baseline.
BoundTo(o, baseline) == HasManifest(baseline) /\ o.cites \subseteq baseline

\* TurnRecord._validate_modern_delivery_review
ValidDelivery(o, baseline) ==
  CASE o.disposition = "shown" -> Reviewed(o) /\ ~o.excepted /\ HasManifest(baseline)
    [] o.disposition = "overridden" -> Reviewed(o) /\ o.excepted
    [] OTHER -> ~Reviewed(o) /\ o.excepted

\* Read the Turn and decide as far as it can be decided without a write.
ReadToComplete(c) ==
  LET turn == Existing(c)
      o    == Payload(c)
      bad  == Reviewed(o) /\ ~BoundTo(o, turn.baseline)
  IN
  /\ At(c) = "start" /\ Kind(c) = "complete"
  /\ \/ turn.status = "absent" /\ Finish(c, "refused")
     \/ turn.status # "absent" /\ bad /\ Finish(c, "refused")
     \/ turn.status = "completed" /\ ~bad /\ FinishIf(c, turn.ending = o)
     \/ /\ turn.status \in {"open", "abandoned"} /\ Reviewed(o) /\ ~bad
        /\ call' = [call EXCEPT ![c].at = "check", ![c].seen = turn.status]
        /\ UNCHANGED guard
     \/ turn.status = "abandoned" /\ ~Reviewed(o) /\ Finish(c, "refused")
     \/ /\ turn.status = "open" /\ ~Reviewed(o)
        /\ IF ValidDelivery(o, turn.baseline) THEN Goto(c, "transition")
                                              ELSE Finish(c, "refused")
  /\ UNCHANGED <<ledger, authority>>

\* ContinuityEvidenceResolver.validate_binding re-resolves what the review
\* cites.  (It reads the references one after another; what it lets pass is
\* checked again by the transition, so one step stands for them.)  What follows
\* is decided on the Turn as it was first read.
CheckEvidence(c) ==
  LET o        == Payload(c)
      resolved == o.cites \subseteq approved
      proceed  == call[c].seen = "open" /\ ValidDelivery(o, Existing(c).baseline)
  IN
  /\ At(c) = "check"
  /\ \/ ~resolved /\ Finish(c, "unauthorized")
     \/ resolved /\ proceed /\ Goto(c, "transition")
     \/ resolved /\ ~proceed /\ Finish(c, "refused")
  /\ UNCHANGED <<ledger, authority>>

\* Faulty: the write trusts the earlier check.
AuthorizedByCheck(c) == TRUE

\* validate_turn_context_baseline_authority, for reviewed deliveries.
Authorized(c) ==
  Kind(c) = "complete" /\ Reviewed(Payload(c)) => Existing(c).baseline \subseteq approved

\* The compare-and-swap of the transition: still the open Turn that was read.
UnchangedSinceRead(c) == Existing(c).status = "open"

TerminalStatus(c) == IF Kind(c) = "complete" THEN "completed" ELSE "abandoned"

\* transition_turn_record and transition_reviewed_turn_record.  The file driver
\* validates the authority before it compares, SQLite after.
Transition(c) ==
  /\ At(c) = "transition"
  /\ \/ /\ UnchangedSinceRead(c) /\ Authorized(c)
        /\ turns' = [turns EXCEPT ![Id(c)].status = TerminalStatus(c),
                                  ![Id(c)].ending = Payload(c)]
        /\ Finish(c, "ok")
     \/ /\ ~Authorized(c)
        /\ UnchangedSinceRead(c) \/ Driver = "file"
        /\ Finish(c, "unauthorized")
        /\ UNCHANGED turns
     \/ /\ ~UnchangedSinceRead(c)
        /\ Authorized(c) \/ Driver = "sqlite"
        /\ Goto(c, "reread")
        /\ UNCHANGED turns
  /\ UNCHANGED <<attempts, adjudicated, authority>>

\* Faulty: whoever won, the Turn is sealed.
SameEndingAny(c) == Existing(c).status # "open"

\* The call asked for the very ending the Turn has.
SameEnding(c) ==
  /\ Existing(c).status = TerminalStatus(c)
  /\ Existing(c).ending = Payload(c)

\* After a lost race the winner may have done just what was asked.
Reread(c) ==
  /\ At(c) = "reread"
  /\ FinishIf(c, SameEnding(c))
  /\ UNCHANGED <<ledger, authority>>

ReadToAbandon(c) ==
  /\ At(c) = "start" /\ Kind(c) = "abandon"
  /\ IF Existing(c).status = "open" THEN Goto(c, "transition")
                                    ELSE FinishIf(c, SameEnding(c))
  /\ UNCHANGED <<ledger, authority>>

-----------------------------------------------------------------------------
(* record_reply_attempt_failure *)

ReadToAttempt(c) ==
  /\ At(c) = "start" /\ Kind(c) = "attempt"
  /\ IF Existing(c).status = "open" THEN Goto(c, "append") ELSE Finish(c, "refused")
  /\ UNCHANGED <<ledger, authority>>

\* append_reply_attempt reads the Turn again in its own transaction.
Appendable(c) == Existing(c).status = "open"

\* Faulty: looks for the same failure, not for its number.
KnownExactly(c) == {f \in attempts[Id(c)] : f = Payload(c)}

\* What is stored under the number of the attempt.
Known(c) == {f \in attempts[Id(c)] : f.number = Payload(c).number}

Append(c) ==
  /\ At(c) = "append"
  /\ \/ /\ Appendable(c) /\ Known(c) = {}
        /\ attempts' = [attempts EXCEPT ![Id(c)] = @ \cup {Payload(c)}]
        /\ Finish(c, "ok")
     \/ /\ ~Appendable(c) \/ Known(c) # {}
        /\ FinishIf(c, Appendable(c) /\ Payload(c) \in Known(c))
        /\ UNCHANGED attempts
  /\ UNCHANGED <<turns, adjudicated, authority>>

-----------------------------------------------------------------------------
(* Direct adjudication: of a Source Turn the host supplies, and of a stored *)
(* Turn.  The adjudicator's own work is one step here.                      *)

\* _persisted_turn_for_direct_adjudication, inside the guard.
ClassifySource(c) ==
  /\ At(c) = "look" /\ Kind(c) = "adjudicate_source"
  /\ \/ /\ Existing(c).status \in {"absent", "completed"}
        /\ call' = [call EXCEPT ![c].at = "adjudicate",
             ![c].contract = IF Existing(c).status = "absent" THEN "transient"
                                                              ELSE "persisted"]
        /\ UNCHANGED guard
     \/ Existing(c).status # "absent" /\ Finish(c, "refused")
  /\ UNCHANGED <<ledger, authority>>

\* adjudicate_turn_candidates reads the Turn before it takes the guard.
ReadToAdjudicate(c) ==
  /\ At(c) = "start" /\ Kind(c) = "adjudicate_turn"
  /\ IF Existing(c).status = "completed" THEN Goto(c, "lock") ELSE Finish(c, "refused")
  /\ UNCHANGED <<ledger, authority>>

Adjudicate(c) ==
  /\ At(c) = "adjudicate"
  /\ adjudicated' = adjudicated \cup {<<Id(c), call[c].contract>>}
  /\ Finish(c, "ok")
  /\ UNCHANGED <<turns, attempts, authority>>

-----------------------------------------------------------------------------
(* Decisions about the Persona, each one storage transaction.  Persona Growth *)
(* is decided inside the guard, the Manifest is not.                          *)

\* Faulty: growth is decided without the guard.
MayDecideAlways(x) == TRUE

MayDecide(x) == x = Manifest \/ guard = Nobody

Approve(x) ==
  /\ x \notin approved \cup revoked /\ MayDecide(x)
  /\ approved' = approved \cup {x}
  /\ UNCHANGED <<ledger, revoked, guard, call>>

Revoke(x) ==
  /\ x \in approved /\ MayDecide(x)
  /\ approved' = approved \ {x}
  /\ revoked' = revoked \cup {x}
  /\ UNCHANGED <<ledger, guard, call>>

Work(c) ==
  \/ Enter(c) \/ LookUp(c) \/ Capture(c) \/ Create(c)
  \/ ReadToComplete(c) \/ CheckEvidence(c) \/ Transition(c) \/ Reread(c)
  \/ ReadToAbandon(c) \/ ReadToAttempt(c) \/ Append(c)
  \/ ClassifySource(c) \/ ReadToAdjudicate(c) \/ Adjudicate(c)

Next ==
  \/ \E c \in Callers :
       (\E op \in Ops : Invoke(c, op)) \/ Work(c) \/ Return(c) \/ Crash(c)
  \/ \E x \in Authorities : Approve(x) \/ Revoke(x)

Spec == Init /\ [][Next]_vars

-----------------------------------------------------------------------------
(* Properties *)

TypeOK ==
  /\ turns \in [TurnIds -> Turn]
  /\ \A t \in TurnIds : ValidLifecycle(turns[t])
  /\ attempts \in [TurnIds -> SUBSET Attempts]
  /\ adjudicated \subseteq TurnIds \X Contracts
  /\ approved \subseteq Authorities /\ revoked \subseteq Authorities
  /\ guard \in Callers \cup {Nobody}
  /\ call \in [Callers -> Call]

\* A turn id never stands for two things: what was adjudicated from messages a
\* host supplied is never also a stored Turn, and what was adjudicated as a
\* stored Turn is a completed one.
TurnIdentityIsCanonical ==
  \A entry \in adjudicated :
    turns[entry[1]].status = IF entry[2] = "transient" THEN "absent" ELSE "completed"

\* What a successful answer claims.
Truthful(n) ==
  LET turn == turns[n.op.turn]  kind == n.op.kind IN
  n.at = "done" /\ n.result = "ok" =>
    /\ kind \in {"begin", "record"} => turn.opening = n.op.opening
    /\ kind = "begin" => turn.status # "absent" /\ turn.baseline # NoBaseline
    /\ kind \in {"record", "complete"} => turn.status = "completed"
    /\ kind = "abandon" => turn.status = "abandoned"
    /\ kind \in {"record", "complete", "abandon"} => turn.ending = n.op.payload
    /\ kind = "attempt" => n.op.payload \in attempts[n.op.turn]
    /\ kind \in {"adjudicate_source", "adjudicate_turn"} =>
         <<n.op.turn, n.contract>> \in adjudicated

\* A call that returned successfully says the truth: the ledger holds exactly
\* what was asked, whoever wrote it and however the calls raced.
ReceiptIsTruthful == \A c \in Callers : Truthful(call[c])

\* A reply attempt number means one failure, whatever retries and races there
\* were.
AttemptNumbersAreUnique ==
  \A t \in TurnIds : \A f, g \in attempts[t] : f.number = g.number => f = g

\* A name in the ledger, of a Turn or of a reply attempt, means one thing.
NamesAreCanonical == TurnIdentityIsCanonical /\ AttemptNumbersAreUnique

\* Once completed or abandoned a Turn never changes again, neither its ending
\* nor its failed attempts; and what it was opened with never changes at all.
Final(t) ==
  LET before == turns[t]  after == turns'[t] IN
  /\ before.status # "absent" => /\ after.status # "absent"
                                 /\ after.opening = before.opening
                                 /\ after.baseline = before.baseline
  /\ before.status \in {"completed", "abandoned"} =>
       after = before /\ attempts'[t] = attempts[t]
TurnIsFinal == [][\A t \in TurnIds : Final(t)]_vars

\* A reply attempt is only added to an open Turn.
AttemptsOnlyWhileOpen ==
  [][\A t \in TurnIds : attempts'[t] # attempts[t] => turns[t].status = "open"]_vars

\* A reviewed reply is sealed only while everything the Turn was opened under
\* is still in force, and the review cites nothing beyond it.
UnderAuthority(t) ==
  LET before == turns[t]  after == turns'[t] IN
  before.status = "open" /\ after.status = "completed" /\ Reviewed(after.ending)
    => /\ Manifest \in before.baseline
       /\ before.baseline \subseteq approved
       /\ after.ending.cites \subseteq before.baseline
ReviewedUnderAuthority == [][\A t \in TurnIds : UnderAuthority(t)]_vars

\* A Turn is opened under exactly the Persona Growth in force at that moment.
\* (Not so the Manifest: it may be revoked between the snapshot and the insert.)
OpenedUnderCurrentGrowth ==
  [][\A t \in TurnIds :
       turns[t].status = "absent" /\ turns'[t].status = "open"
         => turns'[t].baseline \ {Manifest} = approved \ {Manifest}]_vars

\* Authority is read early and used late, under different locks; yet what a Turn
\* is opened under and what a review rests on are in force at the write.
AuthorityIsCurrent == ReviewedUnderAuthority /\ OpenedUnderCurrentGrowth

\* A stored Turn as a host of the promise sees it.
Shown(turn) ==
  CASE turn.status = "absent" -> [status |-> "absent"]
    [] turn.status = "open" -> [status |-> "open", opening |-> turn.opening,
                                begun |-> turn.baseline # NoBaseline]
    [] OTHER -> [status |-> turn.status, opening |-> turn.opening,
                 begun |-> turn.baseline # NoBaseline, ending |-> turn.ending]

\* A call as its host sees it: nothing, asked, or answered.
Awaited(n) ==
  CASE n.at = "idle" \/ n.op \notin LifecycleOps -> [kind |-> "none"]
    [] n.at = "done" /\ n.op \in LifecycleOps ->
         [kind |-> "answered", answer |-> IF n.result = "ok" THEN "ok" ELSE "no"]
    [] OTHER -> [kind |-> "asked", op |-> n.op]

\* The ledger implements the promise made to hosts: lifecycle calls take effect
\* at one instant, however their steps interleave.
Promise == INSTANCE TurnPromise WITH
  Calls <- {op \in LifecycleOps : op.kind \in Offered},
  Reviewable <- Reviewed,
  record <- [t \in TurnIds |-> Shown(turns[t])],
  pending <- [c \in Callers |-> Awaited(call[c])]

ImplementsPromise == Promise!Spec

\* docs/api/turn-lifecycle.md: an identical completion retry returns the
\* existing receipt.  So a completion that is answered when the Turn is already
\* completed with just this reply and review is never turned away.
IdenticalRetrySucceeds ==
  [][\A c \in Callers :
       /\ At(c) # "done" /\ call'[c].at = "done" /\ Kind(c) = "complete"
       /\ Existing(c).status = "completed" /\ Existing(c).ending = Payload(c)
       => call'[c].result = "ok"]_vars

-----------------------------------------------------------------------------
(* The inductive invariant behind the safety properties. *)

\* Which calls come to which position.
Placed(n) ==
  /\ n.at # "idle" => n.op \in LifecycleOps \cup OtherOps
  /\ n.at \in {"start", "lock"} => n.contract = "persisted"
  /\ n.at = "look" => n.op.kind \in Guarded
  /\ n.at \in {"capture", "create"} => n.op.kind \in {"begin", "record"}
  /\ n.at = "check" => n.op.kind = "complete" /\ Reviewed(n.op.payload)
  /\ n.at \in {"transition", "reread"} => n.op.kind \in {"complete", "abandon"}
  /\ n.at = "append" => n.op.kind = "attempt"
  /\ n.at = "lock" => n.op.kind = "adjudicate_turn"
  /\ n.at = "adjudicate" => n.op.kind \in {"adjudicate_source", "adjudicate_turn"}

\* Whoever decides under the guard has it.
Decisive == {"look", "capture", "create", "adjudicate"}
GuardIsHeld == \A c \in Callers : At(c) \in Decisive => guard = c

\* What a call settled on when it read the ledger still holds when it writes.
CreationIsSettled(n) ==
  n.at = "create" =>
    /\ n.op.kind = "record" => n.baseline = NoBaseline
    /\ n.op.kind = "begin" => n.baseline # NoBaseline
    /\ turns[n.op.turn].status = "absent" =>
         /\ Available(n.op.turn)
         /\ n.op.kind = "begin" => n.baseline \ {Manifest} = approved \ {Manifest}

TransitionIsSettled(n) ==
  n.at \in {"check", "transition", "reread", "append"} =>
    /\ turns[n.op.turn].status # "absent"
    /\ n.op.kind = "complete" /\ Reviewed(n.op.payload) =>
         BoundTo(n.op.payload, turns[n.op.turn].baseline)

AdjudicationIsSettled(n) ==
  n.at \in {"lock", "adjudicate"} =>
    turns[n.op.turn].status = IF n.contract = "transient" THEN "absent" ELSE "completed"

CallOK(n) ==
  /\ Placed(n) /\ CreationIsSettled(n) /\ TransitionIsSettled(n)
  /\ AdjudicationIsSettled(n) /\ Truthful(n)

IInv ==
  /\ TypeOK /\ GuardIsHeld /\ \A c \in Callers : CallOK(call[c])
  /\ TurnIdentityIsCanonical /\ AttemptNumbersAreUnique

=============================================================================
