------------------------------ MODULE ReplyProofs ------------------------------
(***************************************************************************)
(* Proofs about Reply for any number of threads, calls, rivals, answers,   *)
(* judgements and inferences, and any Turn.  A step of a thread changes    *)
(* what that thread knows (Moves) and at most one thing that is shared:    *)
(* the Turn, its attempts, or the evaluation in the air.  What the other   *)
(* threads know stays true of it.                                          *)
(***************************************************************************)
EXTENDS Reply, FiniteSetTheorems, TLAPS

-----------------------------------------------------------------------------
(* Types *)

Stages ==
  {"idle", "enter", "prepare", "before", "asking", "answered", "verify", "record", "direct",
   "review", "voice", "lead", "publish", "resolve", "fail", "pop", "follow", "judge",
   "ready", "check", "seal", "transition", "abandon", "evict"}

Verdicts == {"unsupported_drift", "review_required", "supported_new_choice", "aligned"}

Compacts == Answers \cup {None}
Verdict0 == Judgements \cup {None}

HostState ==
  [at: Stages, mode: {None, "off", "compact", "activate", "abandon"}, number: Firsts \cup {0},
   version: Nat, reason: Reasons, failure: Reasons, recorded: BOOLEAN, compact: Compacts,
   signals: Inferences \cup {None, {}}, flight: Nat, decision: Verdict0,
   outcome: {None, "refused"}]

Reply0 == [source: {"direct", "compact"}, reason: Reasons, number: Firsts,
           compact: Compacts, decision: Verdict0]

Flight == [state: {"pending", "value", "error"}, value: Inferences \cup {None, {}}]

Shape ==
  /\ world \in Worlds
  /\ turn \in [status: {"open", "completed", "abandoned"}, version: Nat, reply: Reply0 \cup {None}]
  /\ attempts \in [Numbers -> {None} \cup Failures]
  /\ now \in [approved: BOOLEAN, memory: BOOLEAN, journal: Seq(Changes)]
  /\ guard \in Hosts \cup {None}
  /\ host \in [Hosts -> HostState]
  /\ voice \in [cached: Nat, inflight: Nat, flights: Seq(Flight), drops: Nat]
  /\ {voice.cached, voice.inflight} \subseteq 0..Len(voice.flights)
  /\ \A h \in Hosts : host[h].flight \in 0..Len(voice.flights)

\* A thread comes to know n.
Moves(h, n) == n \in HostState /\ host' = [host EXCEPT ![h] = n]

\* What a thread knows once its call is over, and once it has to fall back.
Over(outcome) == [Idle EXCEPT !.outcome = outcome]
Fallen0(x, why) == [x EXCEPT !.at = "record", !.reason = why, !.failure = why,
                             !.compact = None, !.signals = None, !.flight = 0]

LEMMA AggregateType == ASSUME NEW d PROVE Aggregate(d) \in Verdicts
BY DEF Aggregate, Verdicts

LEMMA OverType == \A outcome \in {None, "refused"} : Over(outcome) \in HostState
BY DEF Over, Idle, HostState, Stages, Reasons, Compacts, Verdict0

LEMMA ReturnMoves ==
  ASSUME Shape, NEW h \in Hosts, NEW outcome \in {None, "refused"}, Return(h, outcome)
  PROVE  Moves(h, Over(outcome)) /\ guard' \in Hosts \cup {None}
BY OverType DEF Moves, Return, Over, Shape

LEMMA FallBackMoves ==
  ASSUME Shape, NEW h \in Hosts, NEW why \in Reasons, FallBack(h, why)
  PROVE  Moves(h, Fallen0(host[h], why)) /\ UNCHANGED guard
<1>1. host[h] \in HostState
  BY DEF Shape
<1>2. Fallen0(host[h], why) \in HostState
  BY <1>1 DEF Fallen0, HostState, Stages, Reasons, Compacts
<1>3. host' = [host EXCEPT ![h] = Fallen0(host[h], why)]
  BY DEF FallBack, Fallen0, Shape
<1> QED
  BY <1>2, <1>3 DEF Moves, FallBack

-----------------------------------------------------------------------------
(* The inductive invariant: what a thread knows. *)

Calling    == Stages \ {"idle"}
Deliberating == {"prepare", "before", "asking", "answered", "verify"}
Replying   == {"enter", "prepare", "before", "asking", "answered", "verify", "record",
               "direct", "review", "ready", "check", "seal", "transition"}
Reviewing  == {"voice", "lead", "publish", "resolve", "fail", "pop", "follow", "judge",
               "ready", "check", "seal", "transition"}
Offering   == {"ready", "check", "seal", "transition"}
Leading    == {"lead", "publish", "resolve", "fail"}

\* The call is about the Turn as it was opened, under a number of its host's, and
\* deliberates only until it falls back.
Addressed(x) ==
  /\ x.at \in Deliberating => x.mode = "compact"
  /\ x.at \in Deliberating \cup {"enter"} => ~x.recorded
  /\ x.at = "direct" => x.mode = "off" \/ x.recorded
  /\ x.at \in Reviewing => x.mode \in {"off", "compact", "activate"}
  /\ x.at \in Replying => x.mode \in {"off", "compact"}
  /\ x.at \in Calling /\ x.mode \in {"off", "compact"} => x.number \in Firsts /\ x.version = 1

\* A deliberation that fell back has its failure on record before a direct reply.
Excused(x) ==
  /\ x.at \in Calling /\ x.mode = "off" => x.reason \in {None, "deliberation_disabled"}
  /\ x.at \in Calling /\ x.mode = "compact" =>
       IF x.recorded THEN attempts[x.number] = [by |-> "actor", reason |-> x.reason]
       ELSE IF x.at = "record" THEN x.failure = x.reason
       ELSE x.reason = None

\* A compact decision has been scanned, and then found to be a reply.
Scanned(answer) == Grounded(answer) /\ ~answer.canary
Deliberated(x) ==
  x.compact # None =>
    /\ x.compact.code = None
    /\ x.at # "answered" => Scanned(x.compact)
    /\ x.at \notin {"answered", "verify"} => x.compact.kind = "reply"

\* The evidence of the Turn stood when its review began.
Afresh   == [approved |-> TRUE, memory |-> TRUE]
Standing == Resolved(world, Afresh)
Resting(x) == x.at \in Reviewing /\ x.mode # "activate" => Standing

\* The emotions that the voices are matched against are what an evaluation found.
Found(S) ==
  S = {} \/ /\ S # None
            /\ \E f \in 1..Len(voice.flights) : voice.flights[f].value = S
Heard(x) == x.at = "judge" => x.signals \in Inferences \cup {{}} /\ Found(x.signals)

Continuous(d) ==
  /\ \A axis \in Axes \ {"voice_style"} :
       /\ d[axis].reason \notin HardConflicts
       /\ d[axis].assessment \in {"aligned", "supported"}
  /\ Cited(d) \subseteq DOMAIN world.refs
Spoken(d) == \A p \in Voices(d) : \A c \in ToSet(world.patterns[p].conditions) : Backed(c)

\* The decision behind an offered reply is one the kernel bears out.
Borne(x) == x.at \in Offering => Continuous(x.decision) /\ Spoken(x.decision)

Knows(x) == /\ Addressed(x) /\ Excused(x) /\ Deliberated(x) /\ Resting(x)
            /\ Heard(x) /\ Borne(x)

(* What is shared. *)

Stale == \/ ~Open
         \/ ~now.approved
         \/ ~now.memory /\ \E r \in DOMAIN world.refs : world.refs[r].kind = "node"

Answer(reply) ==
  /\ Recorded(reply)
  /\ Continuous(reply.decision) /\ Spoken(reply.decision)
  /\ reply.compact # None => Scanned(reply.compact) /\ reply.compact.kind = "reply"

Sealed ==
  /\ Open => turn.version = 1
  /\ turn.reply # None => Answer(turn.reply)
  /\ world.opened <= Len(now.journal)

\* A flight in the air, and who leads it.
State(f) == voice.flights[f].state
Value(f) == voice.flights[f].value

Leads(h) ==
  /\ host[h].at \in Leading => host[h].flight # 0 /\ State(host[h].flight) = "pending"
  /\ host[h].at = "resolve" => /\ host[h].signals # None
                               /\ Value(host[h].flight) = host[h].signals
  /\ host[h].at \in {"lead", "publish", "fail"} => Value(host[h].flight) = None
  /\ host[h].at = "publish" => host[h].signals # None
  /\ host[h].at = "pop" => host[h].flight # 0 /\ State(host[h].flight) = "error"
  /\ host[h].at = "follow" => host[h].flight # 0
  /\ host[h].at \in {"lead", "publish", "fail", "pop"} => voice.inflight = host[h].flight

LeadersDiffer ==
  \A g, h \in Hosts :
    host[g].at \in Leading \cup {"pop"} /\ host[h].at \in Leading \cup {"pop"}
      /\ host[g].flight = host[h].flight => g = h

InFlight == voice.inflight # 0 /\ State(voice.inflight) = "pending"

AirIsLed ==
  InFlight => \E h \in Hosts : /\ host[h].at \in {"lead", "publish", "fail"}
                               /\ host[h].flight = voice.inflight

Landings ==
  /\ \A f \in 1..Len(voice.flights) : State(f) = "value" => Value(f) # None
  /\ voice.cached # 0 => voice.inflight = 0 /\ Value(voice.cached) # None
  /\ voice.inflight # 0 => State(voice.inflight) # "value"

Errors(flights) == {f \in 1..Len(flights) : flights[f].state = "error"}

\* Only what was cached or is still hoped for has not been dropped or refused.
Accounted ==
  Len(voice.flights) <= voice.drops + Cardinality(Errors(voice.flights))
                          + (IF voice.cached # 0 \/ InFlight THEN 1 ELSE 0)

Flights == /\ \A h \in Hosts : Leads(h)
           /\ LeadersDiffer /\ AirIsLed /\ FollowersAreLed /\ Landings /\ Accounted

IInv ==
  /\ Shape
  /\ \A h \in Hosts : Knows(host[h]) /\ (host[h].outcome = "refused" => Stale)
  /\ Sealed
  /\ Flights

-----------------------------------------------------------------------------
(* Steps that change nothing shared *)

ValuesStay ==
  /\ Len(voice.flights) <= Len(voice'.flights)
  /\ \A f \in 1..Len(voice.flights) : Value(f) # None => Value(f)' = Value(f)

\* What an evaluation inferred stays inferred.
LEMMA BackedIsStable ==
  ASSUME UNCHANGED world, Frozen' = Frozen, Shape, ValuesStay, NEW c, Backed(c)
  PROVE  Backed(c)'
<1>1. CASE c.type = "emotion"
  <2>1. PICK f \in 1..Len(voice.flights) :
          Value(f) # None /\ \E s \in Value(f) : s.value \in c.values
    BY <1>1 DEF Backed, Value
  <2>2. Len(voice.flights) \in Nat
    BY DEF Shape
  <2>3. Value(f)' = Value(f) /\ f \in 1..Len(voice'.flights)
    BY <2>1, <2>2 DEF ValuesStay
  <2> QED
    BY <1>1, <2>1, <2>3 DEF Backed, Value
<1>2. CASE c.type # "emotion"
  BY <1>2 DEF Backed
<1> QED
  BY <1>1, <1>2

LEMMA SpokenIsStable ==
  ASSUME UNCHANGED world, Frozen' = Frozen, Shape, ValuesStay, NEW d, Continuous(d), Spoken(d)
  PROVE  Continuous(d)' /\ Spoken(d)'
BY BackedIsStable DEF Continuous, Spoken, Cited, Voices

LEMMA FoundIsStable ==
  ASSUME Shape, ValuesStay, NEW S, Found(S)
  PROVE  Found(S)'
<1>1. Len(voice.flights) \in Nat
  BY DEF Shape
<1> QED
  BY <1>1 DEF Found, ValuesStay, Value

\* Attempts are never taken back.
AttemptsStay == \A n \in Numbers : attempts[n] # None => attempts'[n] = attempts[n]

LEMMA RecordedIsStable ==
  ASSUME AttemptsStay, NEW n \in Firsts, NEW why \in Reasons,
         attempts[n] = [by |-> "actor", reason |-> why]
  PROVE  attempts'[n] = [by |-> "actor", reason |-> why]
BY ReplyAssumption DEF AttemptsStay, Numbers, Failures

Steady == UNCHANGED world /\ Frozen' = Frozen /\ AttemptsStay /\ ValuesStay

LEMMA KnowsIsStable ==
  ASSUME Steady, Shape, NEW x \in HostState, Knows(x)
  PROVE  Knows(x)'
<1> USE DEF Steady
<1>1. Addressed(x)' /\ Deliberated(x)' /\ Resting(x)'
  BY DEF Knows, Addressed, Deliberated, Scanned, Grounded, Resting, Standing
<1>2. Heard(x)'
  BY FoundIsStable DEF Knows, Heard
<1>3. Borne(x)'
  BY SpokenIsStable DEF Knows, Borne
<1>4. Excused(x)'
  <2>1. ASSUME x.at \in Calling, x.mode = "compact", x.recorded
        PROVE  attempts'[x.number] = [by |-> "actor", reason |-> x.reason]
    BY <2>1, RecordedIsStable DEF Knows, Addressed, Excused, HostState
  <2> QED
    BY <2>1 DEF Knows, Excused
<1> QED
  BY <1>1, <1>2, <1>3, <1>4 DEF Knows

LEMMA MovesAt ==
  ASSUME Shape, NEW h \in Hosts, NEW n, Moves(h, n)
  PROVE  /\ host' \in [Hosts -> HostState]
         /\ host'[h] = n
         /\ \A g \in Hosts \ {h} : host'[g] = host[g]
BY DEF Shape, Moves

LEMMA ThreadsKnow ==
  ASSUME IInv, Steady, NEW h \in Hosts, NEW n, Moves(h, n), Knows(n)', Stale => Stale',
         n.outcome = "refused" => Stale'
  PROVE  (\A g \in Hosts : Knows(host[g]) /\ (host[g].outcome = "refused" => Stale))'
<1>1. /\ host' \in [Hosts -> HostState]
      /\ host'[h] = n
      /\ \A g \in Hosts \ {h} : host'[g] = host[g]
  BY MovesAt DEF IInv
<1>2. \A g \in Hosts \ {h} : host'[g] \in HostState /\ Knows(host'[g])
  BY <1>1 DEF IInv
<1>3. \A x \in HostState : Knows(x) => Knows(x)'
  BY KnowsIsStable DEF IInv
<1>4. ASSUME NEW g \in Hosts PROVE Knows(host[g])'
  <2>1. CASE g = h
    BY <1>1, <2>1
  <2>2. CASE g # h
    BY <1>2, <1>3, <2>2
  <2> QED
    BY <2>1, <2>2
<1>5. ASSUME NEW g \in Hosts PROVE (host[g].outcome = "refused" => Stale)'
  BY <1>1 DEF IInv
<1> QED
  BY <1>4, <1>5

LEMMA SealedStays ==
  ASSUME IInv, Steady, UNCHANGED turn, Len(now.journal) <= Len(now'.journal), Shape'
  PROVE  Sealed'
<1> USE DEF Steady
<1>1. ASSUME turn.reply # None PROVE Answer(turn.reply)'
  <2>1. turn.reply \in Reply0 /\ Answer(turn.reply)
    BY <1>1 DEF IInv, Shape, Sealed
  <2>2. Recorded(turn.reply)'
    BY <2>1, RecordedIsStable DEF Reply0, Answer, Recorded
  <2>3. Continuous(turn.reply.decision)' /\ Spoken(turn.reply.decision)'
    <3>1. Continuous(turn.reply.decision) /\ Spoken(turn.reply.decision)
      BY <2>1 DEF Answer
    <3> DEFINE d == turn.reply.decision
    <3>2. d' = d
      OBVIOUS
    <3> HIDE DEF d
    <3>3. Continuous(d)' /\ Spoken(d)'
      BY <3>1, <3>2, SpokenIsStable DEF IInv, d
    <3> QED
      BY <3>3 DEF d
  <2> QED
    BY <2>1, <2>2, <2>3 DEF Answer, Scanned, Grounded
<1>2. (Open => turn.version = 1)'
  BY DEF IInv, Sealed, Open
<1>3. world.opened <= Len(now'.journal)
  BY ReplyAssumption DEF IInv, Sealed, Shape
<1> QED
  BY <1>1, <1>2, <1>3 DEF Sealed

\* The flights of an evaluation, when a thread moves that leads none.
LEMMA FlightsStay ==
  ASSUME IInv, UNCHANGED voice, NEW h \in Hosts, NEW n, Moves(h, n),
         n.flight \in 0..Len(voice.flights),
         host[h].at \notin Leading \cup {"pop"},
         n.at \notin Leading \cup {"pop"},
         n.at = "follow" => n.flight = voice.inflight /\ n.flight # 0
  PROVE  Flights'
<1>1. /\ host'[h] = n
      /\ \A g \in Hosts \ {h} : host'[g] = host[g]
  BY MovesAt DEF IInv
<1>2. (\A g \in Hosts : Leads(g))'
  BY <1>1 DEF IInv, Flights, Leads, State, Value, Leading
<1>3. LeadersDiffer'
  BY <1>1 DEF IInv, Flights, LeadersDiffer
<1>4. AirIsLed'
  BY <1>1 DEF IInv, Flights, AirIsLed, InFlight, State, Leading
<1>5. FollowersAreLed'
  BY <1>1 DEF IInv, Flights, FollowersAreLed, AirIsLed, InFlight, State, At, Leading
<1>6. Landings' /\ Accounted'
  BY DEF IInv, Flights, Landings, Accounted, InFlight, State, Value
<1> QED
  BY <1>2, <1>3, <1>4, <1>5, <1>6 DEF Flights

LEMMA QuietStep ==
  ASSUME IInv, UNCHANGED <<world, Store, voice>>, guard' \in Hosts \cup {None},
         NEW h \in Hosts, NEW n, Moves(h, n), Knows(n),
         n.outcome = "refused" => Stale,
         n.flight \in 0..Len(voice.flights),
         host[h].at \notin Leading \cup {"pop"},
         n.at \notin Leading \cup {"pop"},
         n.at = "follow" => n.flight = voice.inflight /\ n.flight # 0
  PROVE  IInv'
<1>1. /\ host' \in [Hosts -> HostState]
      /\ host'[h] = n
      /\ \A g \in Hosts \ {h} : host'[g] = host[g]
  BY MovesAt DEF IInv
<1>2. Shape'
  BY <1>1 DEF IInv, Shape, Store
<1>3. Steady /\ Shape /\ n \in HostState
  BY DEF IInv, Shape, Steady, AttemptsStay, ValuesStay, Frozen, Value, Store, Moves
<1>4. Knows(n)' /\ (Stale => Stale')
  BY <1>3, KnowsIsStable DEF Stale, Open, Store
<1>5. (\A g \in Hosts : Knows(host[g]) /\ (host[g].outcome = "refused" => Stale))'
  BY <1>3, <1>4, ThreadsKnow
<1>6. Sealed'
  BY <1>2, <1>3, SealedStays DEF Store, IInv, Shape
<1>7. Flights'
  BY FlightsStay
<1> QED
  BY <1>2, <1>5, <1>6, <1>7 DEF IInv

\* A thread goes on, or its call ends, without an evaluation in its hands.
Quiet(h) == UNCHANGED <<world, Store, voice>> /\ host[h].at \notin Leading \cup {"pop"}

Rests(h, n) ==
  /\ Moves(h, n) /\ guard' \in Hosts \cup {None}
  /\ Knows(n) /\ (n.outcome = "refused" => Stale)
  /\ n.at \notin Leading \cup {"pop"} /\ n.flight \in 0..Len(voice.flights)
  /\ n.at = "follow" => n.flight = voice.inflight /\ n.flight # 0

LEMMA RestStep ==
  ASSUME IInv, NEW h \in Hosts, Quiet(h), \E n : Rests(h, n)
  PROVE  IInv'
BY QuietStep DEF Rests, Quiet

LEMMA HostFacts ==
  ASSUME IInv, NEW h \in Hosts
  PROVE  /\ host[h] \in HostState /\ Knows(host[h]) /\ (host[h].outcome = "refused" => Stale)
         /\ host[h].flight \in 0..Len(voice.flights) /\ guard \in Hosts \cup {None}
         /\ 0 \in 0..Len(voice.flights) /\ h # None
BY ReplyAssumption DEF IInv, Shape

LEMMA ReturnRests ==
  ASSUME IInv, NEW h \in Hosts, NEW outcome \in {None, "refused"},
         outcome = "refused" => Stale, Return(h, outcome)
  PROVE  Rests(h, Over(outcome))
<1>1. Moves(h, Over(outcome)) /\ guard' \in Hosts \cup {None}
  BY ReturnMoves DEF IInv
<1>2. /\ Over(outcome).at = "idle" /\ Over(outcome).flight = 0
      /\ Over(outcome).outcome = outcome /\ Over(outcome).compact = None
  BY DEF Over, Idle
<1>3. Knows(Over(outcome))
  BY <1>2 DEF Knows, Addressed, Excused, Deliberated, Resting, Heard, Borne, Calling,
       Deliberating, Stages, Replying, Reviewing, Offering
<1> QED
  BY <1>1, <1>2, <1>3, HostFacts DEF Rests, Leading

LEMMA FallBackRests ==
  ASSUME IInv, NEW h \in Hosts, NEW why \in Reasons, FallBack(h, why),
         Fallen(h), host[h].at \in Calling
  PROVE  \E n : Rests(h, n) /\ n.at = "record"
<1> DEFINE n == Fallen0(host[h], why)
<1>1. Moves(h, n) /\ UNCHANGED guard
  BY FallBackMoves DEF IInv
<1>2. host[h] \in HostState /\ Knows(host[h])
  BY HostFacts
<1>3. /\ n.at = "record" /\ n.mode = host[h].mode /\ n.number = host[h].number
      /\ n.version = host[h].version /\ n.recorded = host[h].recorded
      /\ n.failure = n.reason /\ n.compact = None /\ n.flight = 0
      /\ n.outcome = host[h].outcome
  BY <1>2 DEF Fallen0, HostState
<1>4. Knows(n)
  BY <1>2, <1>3 DEF Fallen, Knows, Addressed, Excused, Deliberated, Resting, Heard, Borne,
     Calling, Deliberating, Stages, Reviewing, Offering
<1> HIDE DEF n
<1> QED
  BY <1>1, <1>3, <1>4, HostFacts DEF Rests, Leading

LEMMA DirectFailsRests ==
  ASSUME IInv, NEW h \in Hosts, NEW why \in Reasons, DirectFails(h, why), ~Fallen(h),
         host[h].at \in Calling \ {"answered", "verify"}, host[h].mode \in {"off", "compact"}
  PROVE  \E n : Rests(h, n) /\ n.at = "record"
<1> DEFINE n == [host[h] EXCEPT !.at = "record", !.failure = why, !.signals = None, !.flight = 0]
<1>1. host[h] \in HostState /\ Knows(host[h])
  BY HostFacts
<1>2. n \in HostState
  BY <1>1 DEF HostState, Stages
<1>3. host' = [host EXCEPT ![h] = n] /\ UNCHANGED guard
  BY DEF DirectFails, IInv, Shape
<1>4. /\ n.at = "record" /\ n.mode = host[h].mode /\ n.number = host[h].number
      /\ n.version = host[h].version /\ n.recorded = host[h].recorded
      /\ n.reason = host[h].reason /\ n.compact = host[h].compact /\ n.flight = 0
      /\ n.outcome = host[h].outcome
  BY <1>1 DEF HostState
<1>5. Knows(n)
  BY <1>1, <1>4 DEF Fallen, Knows, Addressed, Excused, Deliberated, Resting, Heard, Borne,
     Calling, Deliberating, Stages, Reviewing, Offering
<1> HIDE DEF n
<1> QED
  BY <1>2, <1>3, <1>4, <1>5, HostFacts DEF Rests, Moves, Leading

LEMMA UnreviewedRests ==
  ASSUME IInv, NEW h \in Hosts, NEW why \in Reasons, Unreviewed(h, why),
         host[h].at \in {"review", "voice", "pop", "follow", "judge"},
         host[h].mode \in {"off", "compact", "activate"}
  PROVE  \E n : Rests(h, n) /\ n.at \in {"idle", "record"}
<1>1. CASE host[h].mode = "activate"
  <2>1. Rests(h, Over(None))
    BY <1>1, ReturnRests, ReplyAssumption DEF Unreviewed
  <2>2. Over(None).at = "idle"
    BY DEF Over, Idle
  <2> QED
    BY <2>1, <2>2
<1>2. CASE host[h].mode # "activate" /\ Fallen(h)
  BY <1>2, FallBackRests DEF Unreviewed, Calling, Stages
<1>3. CASE host[h].mode # "activate" /\ ~Fallen(h)
  BY <1>3, DirectFailsRests DEF Unreviewed, Calling, Stages
<1> QED
  BY <1>1, <1>2, <1>3

\* Going on to another stage of a reply, before its review.
LEMMA GotoRests ==
  ASSUME IInv, NEW h \in Hosts, NEW at \in Stages, Goto(h, at),
         guard' \in Hosts \cup {None}, at \notin Leading \cup {"pop", "follow"},
         Knows([host[h] EXCEPT !.at = at])
  PROVE  \E n : Rests(h, n)
<1> DEFINE n == [host[h] EXCEPT !.at = at]
<1>1. host[h] \in HostState
  BY HostFacts
<1>2. n \in HostState /\ n.at = at /\ n.flight = host[h].flight /\ n.outcome = host[h].outcome
  BY <1>1 DEF HostState
<1>3. host' = [host EXCEPT ![h] = n]
  BY DEF Goto, IInv, Shape
<1> HIDE DEF n
<1>4. Knows(n)
  BY DEF n
<1> QED
  BY <1>2, <1>3, <1>4, HostFacts DEF Rests, Moves

-----------------------------------------------------------------------------
(* A reply on its way to its review *)

LEMMA BegunRests ==
  ASSUME IInv, NEW h \in Hosts, NEW n \in HostState, host' = [host EXCEPT ![h] = n],
         UNCHANGED guard, n.compact = None, n.flight = 0, n.outcome = None, n.reason = None,
         n.recorded = FALSE,
         \/ n.at = "voice" /\ n.mode = "activate"
         \/ n.at = "abandon" /\ n.mode = "abandon"
         \/ n.at = "enter" /\ n.mode \in {"off", "compact"} /\ n.number \in Firsts
              /\ n.version = 1
  PROVE  Rests(h, n)
<1>1. Knows(n)
  BY DEF Knows, Addressed, Excused, Deliberated, Resting, Heard, Borne, Deliberating, Replying,
     Reviewing, Offering
<1> QED
  BY <1>1, HostFacts, ReplyAssumption DEF Rests, Moves, Leading

LEMMA CallKeeps ==
  ASSUME IInv, NEW h \in Hosts, Call(h) PROVE IInv'
<1>1. Quiet(h) /\ UNCHANGED guard
  BY DEF Quiet, Leading, Call, At
<1>2. CASE host' = [host EXCEPT ![h] = [Idle EXCEPT !.at = "voice", !.mode = "activate"]]
  <2> DEFINE n == [Idle EXCEPT !.at = "voice", !.mode = "activate"]
  <2>1. /\ n \in HostState /\ n.compact = None /\ n.flight = 0 /\ n.outcome = None
        /\ n.reason = None /\ n.recorded = FALSE /\ n.at = "voice" /\ n.mode = "activate"
    BY DEF Idle, HostState, Stages, Reasons, Compacts, Verdict0
  <2>2. host' = [host EXCEPT ![h] = n]
    BY <1>2
  <2> HIDE DEF n
  <2> QED
    BY <1>1, <2>1, <2>2, BegunRests, RestStep
<1>3. CASE host' = [host EXCEPT ![h] = [Idle EXCEPT !.at = "abandon", !.mode = "abandon"]]
  <2> DEFINE n == [Idle EXCEPT !.at = "abandon", !.mode = "abandon"]
  <2>1. /\ n \in HostState /\ n.compact = None /\ n.flight = 0 /\ n.outcome = None
        /\ n.reason = None /\ n.recorded = FALSE /\ n.at = "abandon" /\ n.mode = "abandon"
    BY DEF Idle, HostState, Stages, Reasons, Compacts, Verdict0
  <2>2. host' = [host EXCEPT ![h] = n]
    BY <1>3
  <2> HIDE DEF n
  <2> QED
    BY <1>1, <2>1, <2>2, BegunRests, RestStep
<1>4. ASSUME NEW mode \in {"off", "compact"}, NEW number \in Firsts, Open,
             host' = [host EXCEPT ![h] = [Idle EXCEPT !.at = "enter", !.mode = mode,
                                            !.number = number, !.version = turn.version]]
      PROVE  IInv'
  <2> DEFINE n == [Idle EXCEPT !.at = "enter", !.mode = mode, !.number = number, !.version = 1]
  <2>1. /\ n \in HostState /\ n.compact = None /\ n.flight = 0 /\ n.outcome = None
        /\ n.reason = None /\ n.recorded = FALSE /\ n.at = "enter" /\ n.mode = mode
        /\ n.number = number /\ n.version = 1
    BY DEF Idle, HostState, Stages, Reasons, Compacts, Verdict0
  <2>2. turn.version = 1
    BY <1>4 DEF IInv, Sealed
  <2>3. host' = [host EXCEPT ![h] = n]
    BY <1>4, <2>2
  <2> HIDE DEF n
  <2> QED
    BY <1>1, <2>1, <2>3, BegunRests, RestStep
<1> QED
  BY <1>2, <1>3, <1>4 DEF Call

LEMMA EnterKeeps ==
  ASSUME IInv, NEW h \in Hosts, Enter(h) PROVE IInv'
<1>1. /\ Quiet(h) /\ guard' = h /\ host[h].at = "enter"
      /\ host[h] \in HostState /\ Knows(host[h])
  BY HostFacts DEF Enter, At, Quiet, Leading
<1>2. CASE host[h].mode = "off"
  <2> DEFINE n == [host[h] EXCEPT !.at = "direct", !.reason = "deliberation_disabled"]
  <2>1. n \in HostState
    BY <1>1 DEF HostState, Stages, Reasons, Codes
  <2>2. /\ n.at = "direct" /\ n.mode = "off" /\ n.number = host[h].number
        /\ n.version = host[h].version /\ n.reason = "deliberation_disabled"
        /\ n.compact = host[h].compact /\ n.flight = host[h].flight
        /\ n.outcome = host[h].outcome
    BY <1>1, <1>2 DEF HostState
  <2>3. Knows(n)
    BY <1>1, <1>2, <2>2 DEF Knows, Addressed, Excused, Deliberated, Resting, Heard, Borne,
       Calling, Deliberating, Stages, Reviewing, Offering
  <2>4. host' = [host EXCEPT ![h] = n]
    BY <1>1, <1>2 DEF Enter, IInv, Shape
  <2> HIDE DEF n
  <2>5. Rests(h, n)
    BY <1>1, <2>1, <2>2, <2>3, <2>4, HostFacts DEF Rests, Moves, Leading
  <2> QED
    BY <1>1, <2>5, RestStep
<1>3. CASE host[h].mode # "off"
  <2>1. Knows([host[h] EXCEPT !.at = "prepare"])
    BY <1>1, <1>3 DEF HostState, Knows, Addressed, Excused, Deliberated, Resting, Heard, Borne,
       Calling, Stages, Deliberating, Replying, Reviewing, Offering
  <2> QED
    BY <1>1, <1>3, <2>1, GotoRests, RestStep DEF Enter, Stages, Leading
<1> QED
  BY <1>2, <1>3

LEMMA PrepareKeeps ==
  ASSUME IInv, NEW h \in Hosts, Prepare(h) PROVE IInv'
<1>1. /\ Quiet(h) /\ host[h].at = "prepare"
      /\ host[h] \in HostState /\ Knows(host[h])
  BY HostFacts DEF Prepare, At, Quiet, Leading
<1>2. Knows([host[h] EXCEPT !.at = "before"])
  BY <1>1 DEF HostState, Knows, Addressed, Excused, Deliberated, Resting, Heard, Borne,
     Calling, Stages, Deliberating, Replying, Reviewing, Offering
<1>3. CASE Open
  BY <1>1, <1>2, <1>3, GotoRests, RestStep, HostFacts DEF Prepare, Stages, Leading
<1>4. CASE ~Open
  BY <1>1, <1>4, ReturnRests, RestStep, ReplyAssumption DEF Prepare
<1> QED
  BY <1>3, <1>4

LEMMA BeforeCallKeeps ==
  ASSUME IInv, NEW h \in Hosts, BeforeCall(h) PROVE IInv'
<1>1. /\ Quiet(h) /\ host[h].at = "before"
      /\ host[h] \in HostState /\ Knows(host[h])
  BY HostFacts DEF BeforeCall, At, Quiet, Leading
<1>2. CASE Goto(h, "asking") /\ UNCHANGED guard
  <2>1. Knows([host[h] EXCEPT !.at = "asking"])
    BY <1>1 DEF HostState, Knows, Addressed, Excused, Deliberated, Resting, Heard, Borne,
       Calling, Stages, Deliberating, Replying, Reviewing, Offering
  <2> QED
    BY <1>1, <1>2, <2>1, GotoRests, RestStep, HostFacts DEF Stages, Leading
<1>3. CASE FallBack(h, "provider_late_result")
  <2>1. Fallen(h)
    BY <1>1 DEF Fallen, Knows, Addressed, Deliberating
  <2> QED
    BY <1>1, <1>3, <2>1, FallBackRests, RestStep DEF Reasons, Codes, Calling, Stages
<1> QED
  BY <1>2, <1>3 DEF BeforeCall

LEMMA AskKeeps ==
  ASSUME IInv, NEW h \in Hosts, Ask(h) PROVE IInv'
<1>1. /\ Quiet(h) /\ host[h].at = "asking"
      /\ host[h] \in HostState /\ Knows(host[h])
  BY HostFacts DEF Ask, At, Quiet, Leading
<1>2. ASSUME NEW answer \in Answers, FallBack(h, answer.code) PROVE IInv'
  <2>1. Fallen(h)
    BY <1>1 DEF Fallen, Knows, Addressed, Deliberating
  <2> QED
    BY <1>1, <1>2, <2>1, FallBackRests, RestStep DEF Reasons, Calling, Stages
<1>3. ASSUME NEW answer \in Answers, answer.code = None, UNCHANGED guard,
             host' = [host EXCEPT ![h].at = "answered", ![h].compact = answer]
      PROVE  IInv'
  <2> DEFINE n == [host[h] EXCEPT !.at = "answered", !.compact = answer]
  <2>1. /\ n \in HostState /\ n.at = "answered" /\ n.mode = host[h].mode
        /\ n.number = host[h].number /\ n.version = host[h].version
        /\ n.reason = host[h].reason /\ n.recorded = host[h].recorded
        /\ n.compact = answer /\ n.flight = host[h].flight /\ n.outcome = host[h].outcome
    BY <1>1 DEF HostState, Stages, Compacts
  <2>2. host' = [host EXCEPT ![h] = n]
    BY <1>1, <1>3 DEF IInv, Shape
  <2> HIDE DEF n
  <2>3. Knows(n)
    BY <1>1, <1>3, <2>1 DEF Knows, Addressed, Excused, Deliberated, Resting, Heard, Borne,
       Calling, Stages, Deliberating, Replying, Reviewing, Offering
  <2>4. Rests(h, n)
    BY <1>1, <1>3, <2>1, <2>2, <2>3, HostFacts DEF Rests, Moves, Leading
  <2> QED
    BY <1>1, <2>4, RestStep
<1> QED
  BY <1>2, <1>3 DEF Ask

\* An answer that goes on from one check to the next.
LEMMA AnswerGoesOn ==
  ASSUME IInv, NEW h \in Hosts, Quiet(h), NEW at \in {"verify", "review"}, Goto(h, at),
         UNCHANGED guard, host[h].at \in {"answered", "verify"},
         host[h].compact # None => /\ Scanned(host[h].compact)
                                   /\ at = "review" => host[h].compact.kind = "reply"
  PROVE  IInv'
<1>1. host[h] \in HostState /\ Knows(host[h])
  BY HostFacts
<1>2. Knows([host[h] EXCEPT !.at = at])
  BY <1>1 DEF HostState, Knows, Addressed, Excused, Deliberated, Resting, Heard, Borne,
     Calling, Stages, Deliberating, Replying, Reviewing, Offering
<1> QED
  BY <1>2, GotoRests, RestStep, HostFacts DEF Stages, Leading

LEMMA ScanKeeps ==
  ASSUME IInv, NEW h \in Hosts, Scan(h) PROVE IInv'
<1>1. /\ Quiet(h) /\ host[h].at = "answered"
      /\ host[h] \in HostState /\ Knows(host[h])
  BY HostFacts DEF Scan, At, Quiet, Leading
<1>2. ASSUME NEW why \in Reasons, FallBack(h, why) PROVE IInv'
  <2>1. Fallen(h)
    BY <1>1 DEF Fallen, Knows, Addressed, Deliberating
  <2> QED
    BY <1>1, <1>2, <2>1, FallBackRests, RestStep DEF Calling, Stages
<1>3. CASE /\ Matches(h) /\ ~host[h].compact.canary /\ Grounded(host[h].compact)
           /\ Goto(h, "verify") /\ UNCHANGED guard
  BY <1>1, <1>3, AnswerGoesOn DEF Scanned
<1> QED
  BY <1>2, <1>3 DEF Scan, Reasons, Codes

LEMMA VerifyKeeps ==
  ASSUME IInv, NEW h \in Hosts, Verify(h) PROVE IInv'
<1>1. /\ Quiet(h) /\ host[h].at = "verify"
      /\ host[h] \in HostState /\ Knows(host[h])
  BY HostFacts DEF Verify, At, Quiet, Leading
<1>2. ASSUME NEW why \in Reasons, FallBack(h, why) PROVE IInv'
  <2>1. Fallen(h)
    BY <1>1 DEF Fallen, Knows, Addressed, Deliberating
  <2> QED
    BY <1>1, <1>2, <2>1, FallBackRests, RestStep DEF Calling, Stages
<1>3. CASE /\ host[h].compact.kind \notin {"abstain", "staged"}
           /\ Goto(h, "review") /\ UNCHANGED guard
  <2>1. host[h].compact # None =>
          Scanned(host[h].compact) /\ host[h].compact.kind = "reply"
    BY <1>1, <1>3, ReplyAssumption DEF Knows, Deliberated, HostState, Compacts
  <2> QED
    BY <1>1, <1>3, <2>1, AnswerGoesOn
<1> QED
  BY <1>2, <1>3 DEF Verify, Reasons, Codes

LEMMA DirectKeeps ==
  ASSUME IInv, NEW h \in Hosts, Direct(h) PROVE IInv'
<1>1. /\ Quiet(h) /\ host[h].at = "direct"
      /\ host[h] \in HostState /\ Knows(host[h])
  BY HostFacts DEF Direct, At, Quiet, Leading
<1>2. CASE Goto(h, "review") /\ UNCHANGED guard
  <2>1. Knows([host[h] EXCEPT !.at = "review"])
    BY <1>1 DEF HostState, Knows, Addressed, Excused, Deliberated, Resting, Heard, Borne,
       Calling, Stages, Deliberating, Replying, Reviewing, Offering
  <2> QED
    BY <1>1, <1>2, <2>1, GotoRests, RestStep, HostFacts DEF Stages, Leading
<1>3. ASSUME NEW failure \in {"direct_generation_failed", "direct_reply_invalid"},
             DirectFails(h, failure)
      PROVE  IInv'
  <2>1. ~Fallen(h) /\ host[h].mode \in {"off", "compact"}
    BY <1>1 DEF Fallen, Knows, Addressed, Replying
  <2> QED
    BY <1>1, <1>3, <2>1, DirectFailsRests, RestStep DEF Reasons, Codes, Calling, Stages
<1> QED
  BY <1>2, <1>3 DEF Direct

-----------------------------------------------------------------------------
(* The review of a reply, and its showing *)

\* What stands in the present stood, or stands, whatever has been lost since.
LEMMA ResolvedStood ==
  ASSUME NEW r, r.kind \in PersonaKinds \cup {"event", "turn", "node"}, Stands(r, world, now)
  PROVE  Stands(r, world, Afresh)
<1>1. CASE r.kind = "claim"
  BY <1>1 DEF Stands, Afresh
<1>2. CASE r.kind = "pattern"
  BY <1>2 DEF Stands, Afresh
<1>3. CASE r.kind \in {"growth", "node"}
  BY <1>3 DEF Stands, Afresh
<1>4. CASE r.kind \in {"event", "turn"}
  BY <1>4 DEF Stands, Afresh
<1> QED
  BY <1>1, <1>2, <1>3, <1>4 DEF PersonaKinds

LEMMA Stood ==
  ASSUME IInv, Resolved(world, now) PROVE Standing
BY ResolvedStood, ReplyAssumption DEF Standing, Resolved, IInv, Shape

LEMMA ReviewKeeps ==
  ASSUME IInv, NEW h \in Hosts, Review(h) PROVE IInv'
<1>1. /\ Quiet(h) /\ host[h].at = "review"
      /\ host[h] \in HostState /\ Knows(host[h])
  BY HostFacts DEF Review, At, Quiet, Leading
<1>2. host[h].mode \in {"off", "compact"}
  BY <1>1 DEF Knows, Addressed, Replying
<1>3. CASE Resolved(world, now) /\ Goto(h, "voice") /\ UNCHANGED guard
  <2>1. Knows([host[h] EXCEPT !.at = "voice"])
    BY <1>1, <1>2, <1>3, Stood DEF HostState, Knows, Addressed, Excused, Deliberated, Resting,
       Heard, Borne, Calling, Stages, Deliberating, Replying, Reviewing, Offering
  <2> QED
    BY <1>1, <1>3, <2>1, GotoRests, RestStep, HostFacts DEF Stages, Leading
<1>4. CASE Unreviewed(h, "continuity_evaluation_failed")
  BY <1>1, <1>2, <1>4, UnreviewedRests, RestStep DEF Reasons, Codes
<1> QED
  BY <1>3, <1>4 DEF Review

\* Whom a voice or a followed flight has told what the scene feels like.
LEMMA HeardRests ==
  ASSUME IInv, NEW h \in Hosts, host[h].at \in {"voice", "follow", "resolve"},
         NEW S \in Inferences \cup {{}}, Found(S), UNCHANGED guard, NEW f \in 0..Len(voice.flights),
         host' = [host EXCEPT ![h].at = "judge", ![h].signals = S, ![h].flight = f]
  PROVE  \E n : Rests(h, n)
<1> DEFINE n == [host[h] EXCEPT !.at = "judge", !.signals = S, !.flight = f]
<1>1. host[h] \in HostState /\ Knows(host[h])
  BY HostFacts
<1>2. Len(voice.flights) \in Nat
  BY DEF IInv, Shape
<1>3. n \in HostState
  <2>1. S \in Inferences \cup {None, {}} /\ f \in Nat /\ "judge" \in Stages
    BY <1>2 DEF Stages
  <2> QED
    BY <1>1, <2>1 DEF HostState
<1>6. /\ n.at = "judge" /\ n.mode = host[h].mode
      /\ n.number = host[h].number /\ n.version = host[h].version
      /\ n.reason = host[h].reason /\ n.recorded = host[h].recorded /\ n.signals = S
      /\ n.compact = host[h].compact /\ n.flight = f /\ n.outcome = host[h].outcome
  BY <1>1 DEF HostState
<1>4. host' = [host EXCEPT ![h] = n]
  BY <1>1 DEF IInv, Shape
<1> HIDE DEF n
<1>5. Knows(n)
  BY <1>1, <1>6 DEF Knows, Addressed, Excused, Deliberated, Resting, Heard, Borne,
     Calling, Stages, Deliberating, Replying, Reviewing, Offering
<1> QED
  BY <1>3, <1>4, <1>5, <1>6, HostFacts DEF Rests, Moves, Leading

LEMMA FollowKeeps ==
  ASSUME IInv, NEW h \in Hosts, Follow(h) PROVE IInv'
<1>1. /\ Quiet(h) /\ host[h].at = "follow"
      /\ host[h] \in HostState /\ Knows(host[h])
  BY HostFacts DEF Follow, At, Quiet, Leading
<1>2. host[h].mode \in {"off", "compact", "activate"}
  BY <1>1 DEF Knows, Addressed, Reviewing
<1> DEFINE f == host[h].flight
<1>3. f \in 1..Len(voice.flights) /\ voice.flights \in Seq(Flight) /\ voice.flights[f] \in Flight
  <2>1. f \in 0..Len(voice.flights) /\ f # 0 /\ voice.flights \in Seq(Flight)
    BY <1>1 DEF IInv, Shape, Flights, Leads
  <2> QED
    BY <2>1
<1>4. CASE /\ voice.flights[f].state = "value" /\ UNCHANGED guard
           /\ host' = [host EXCEPT ![h].at = "judge", ![h].signals = voice.flights[f].value,
                                   ![h].flight = 0]
  <2>1. Value(f) # None /\ voice.flights[f].value = Value(f)
    BY <1>3, <1>4 DEF IInv, Flights, Landings, State, Value
  <2>2. Found(Value(f)) /\ Value(f) \in Inferences \cup {{}}
    BY <1>3, <2>1 DEF Found, Flight
  <2>3. 0 \in 0..Len(voice.flights)
    BY HostFacts
  <2> QED
    BY <1>1, <1>4, <2>1, <2>2, <2>3, HeardRests, RestStep
<1>5. CASE Unreviewed(h, "continuity_evaluation_failed")
  BY <1>1, <1>2, <1>5, UnreviewedRests, RestStep DEF Reasons, Codes
<1> QED
  BY <1>4, <1>5 DEF Follow

LEMMA ShowKeeps ==
  ASSUME IInv, NEW h \in Hosts, Show(h) PROVE IInv'
<1>1. /\ Quiet(h) /\ host[h].at = "ready" /\ guard' \in Hosts \cup {None}
      /\ host[h] \in HostState /\ Knows(host[h])
  BY HostFacts DEF Show, At, Quiet, Leading
<1>2. Knows([host[h] EXCEPT !.at = "check"])
  BY <1>1 DEF HostState, Knows, Addressed, Excused, Deliberated, Resting, Heard, Borne,
     Calling, Stages, Deliberating, Replying, Reviewing, Offering
<1> QED
  BY <1>1, <1>2, GotoRests, RestStep DEF Show, Stages, Leading

LEMMA DiscardKeeps ==
  ASSUME IInv, NEW h \in Hosts, Discard(h) PROVE IInv'
<1>1. Quiet(h)
  BY DEF Discard, At, Quiet, Leading
<1> QED
  BY <1>1, ReturnRests, RestStep, ReplyAssumption DEF Discard

LEMMA CheckKeeps ==
  ASSUME IInv, NEW h \in Hosts, Check(h) PROVE IInv'
<1>1. /\ Quiet(h) /\ host[h].at = "check"
      /\ host[h] \in HostState /\ Knows(host[h])
  BY HostFacts DEF Check, At, Quiet, Leading
<1>2. CASE Goto(h, "seal") /\ UNCHANGED guard
  <2>1. Knows([host[h] EXCEPT !.at = "seal"])
    BY <1>1 DEF HostState, Knows, Addressed, Excused, Deliberated, Resting, Heard, Borne,
       Calling, Stages, Deliberating, Replying, Reviewing, Offering
  <2> QED
    BY <1>1, <1>2, <2>1, GotoRests, RestStep, HostFacts DEF Stages, Leading
<1>3. CASE ~Matches(h) /\ Return(h, "refused")
  <2>1. Stale
    BY <1>1, <1>3 DEF Matches, Stale, Knows, Addressed, Replying, Calling, Stages, IInv, Sealed
  <2> QED
    BY <1>1, <1>3, <2>1, ReturnRests, RestStep
<1> QED
  BY <1>2, <1>3 DEF Check

LEMMA SealKeeps ==
  ASSUME IInv, NEW h \in Hosts, Seal(h) PROVE IInv'
<1>1. /\ Quiet(h) /\ host[h].at = "seal"
      /\ host[h] \in HostState /\ Knows(host[h])
  BY HostFacts DEF Seal, At, Quiet, Leading
<1>2. CASE Goto(h, "transition") /\ UNCHANGED guard
  <2>1. Knows([host[h] EXCEPT !.at = "transition"])
    BY <1>1 DEF HostState, Knows, Addressed, Excused, Deliberated, Resting, Heard, Borne,
       Calling, Stages, Deliberating, Replying, Reviewing, Offering
  <2> QED
    BY <1>1, <1>2, <2>1, GotoRests, RestStep, HostFacts DEF Stages, Leading
<1>3. CASE /\ ~(Resolved(world, now) /\ TracesStand(host[h].decision))
           /\ Return(h, "refused")
  <2>1. Spoken(host[h].decision) /\ Standing
    BY <1>1 DEF Knows, Borne, Offering, Resting, Reviewing, Addressed, Replying
  <2>2. TracesStand(host[h].decision)
    BY <2>1 DEF Spoken, TracesStand, Backed, Rebuilt
  <2>3. PICK r \in DOMAIN world.refs : ~Stands(world.refs[r], world, now)
    BY <1>3, <2>1, <2>2 DEF Standing, Resolved
  <2>4. /\ world.refs[r].kind \in PersonaKinds \cup {"event", "turn", "node"}
        /\ Stands(world.refs[r], world, Afresh)
    BY <2>1, ReplyAssumption DEF IInv, Shape, Standing, Resolved
  <2>5. Stale
    <3>1. CASE world.refs[r].kind \in {"event", "turn"}
      BY <2>3, <2>4, <3>1 DEF Stands, Afresh
    <3>2. CASE world.refs[r].kind = "node"
      BY <2>3, <2>4, <3>2 DEF Stands, Afresh, Stale
    <3>3. CASE world.refs[r].kind = "claim"
      BY <2>3, <2>4, <3>3 DEF Stands, Afresh, Stale
    <3>4. CASE world.refs[r].kind = "pattern"
      BY <2>3, <2>4, <3>4 DEF Stands, Afresh, Stale
    <3>5. CASE world.refs[r].kind = "growth"
      BY <2>3, <2>4, <3>5 DEF Stands, Afresh, Stale
    <3> QED
      BY <2>4, <3>1, <3>2, <3>3, <3>4, <3>5 DEF PersonaKinds
  <2> QED
    BY <1>1, <1>3, <2>5, ReturnRests, RestStep
<1> QED
  BY <1>2, <1>3 DEF Seal

\* The sequence of a finite set holds nothing but its elements.
LEMMA SequenceOfSet ==
  ASSUME NEW S, IsFiniteSet(S)
  PROVE  SetToSeq(S) \in [1..Cardinality(S) -> S]
<1>1. PICK f \in [1..Cardinality(S) -> S] : IsInjective(f)
  BY FS_CardinalityType DEF ExistsBijection, Bijection, Injection
<1> QED
  BY <1>1 DEF SetToSeq

LEMMA ActiveIsBacked ==
  ASSUME IInv, NEW S \in Inferences \cup {{}}, Found(S), NEW p \in Active(S),
         NEW c \in ToSet(world.patterns[p].conditions)
  PROVE  Backed(c)
<1> DEFINE observed == {Signal("observed", "activity", v) : v \in world.observed}
           derived == {Signal("derived", "relationship_safety", Band(Project(world.start, Frozen)))}
           inferred == {Signal("inferred", "emotion", s.value) : s \in S}
           all == observed \cup derived \cup inferred
<1>1. IsFiniteSet(world.observed) /\ IsFiniteSet(S)
  BY ReplyAssumption, FS_EmptySet DEF IInv, Shape, Found
<1>2. IsFiniteSet(all)
  <2>1. IsFiniteSet(observed)
    <3> DEFINE f == [v \in world.observed |-> Signal("observed", "activity", v)]
    <3>1. f \in Surjection(world.observed, observed)
      BY DEF Surjection
    <3> QED
      BY <1>1, <3>1, FS_Surjection
  <2>2. IsFiniteSet(derived)
    BY FS_Singleton
  <2>3. IsFiniteSet(inferred)
    <3> DEFINE f == [s \in S |-> Signal("inferred", "emotion", s.value)]
    <3>1. f \in Surjection(S, inferred)
      BY DEF Surjection
    <3> QED
      BY <1>1, <3>1, FS_Surjection
  <2> QED
    BY <2>1, <2>2, <2>3, FS_Union
<1>3. PICK s \in all : Meets(c, s)
  <2>1. SetToSeq(all) \in [1..Cardinality(all) -> all]
    BY <1>2, SequenceOfSet
  <2>2. Signals(S) = SetToSeq(all)
    BY Zenon DEF Signals
  <2>3. PICK i \in DOMAIN world.patterns[p].conditions : c = world.patterns[p].conditions[i]
    BY DEF ToSet
  <2>4. PICK j \in DOMAIN Signals(S) : Meets(c, Signals(S)[j])
    <3>1. PICK taken \in [DOMAIN world.patterns[p].conditions -> DOMAIN Signals(S)] :
             Supports(world.patterns[p].conditions, Signals(S), taken)
      BY DEF Active, Activated
    <3> QED
      BY <2>3, <3>1 DEF Supports
  <2> QED
    BY <2>1, <2>2, <2>4
<1>4. CASE c.type = "emotion"
  <2>1. PICK v \in S : s.value = v.value
    BY <1>3, <1>4 DEF Meets, Signal
  <2>2. S # None /\ \E f \in 1..Len(voice.flights) : voice.flights[f].value = S
    BY <2>1 DEF Found
  <2> QED
    BY <1>3, <1>4, <2>1, <2>2 DEF Backed, Meets
<1>5. CASE c.type = "relationship_safety"
  BY <1>3, <1>5 DEF Backed, Meets, Signal
<1>6. CASE c.type \notin {"emotion", "relationship_safety"}
  BY <1>3, <1>6 DEF Backed, Meets, Signal, SourceOf
<1> QED
  BY <1>4, <1>5, <1>6

\* A verdict that lets a reply through leaves no finding that should hold it back.
LEMMA AlignedIsContinuous ==
  ASSUME NEW d \in Judgements, d # None, ValidJudgement(d),
         Aggregate(d) \in {"aligned", "supported_new_choice"}, Cited(d) \subseteq DOMAIN world.refs
  PROVE  Continuous(d)
<1> DEFINE others == {d[axis] : axis \in Axes \ {"voice_style"}}
<1> DEFINE drifts == \E f \in others : f.reason \in HardConflicts \/ f.assessment = "unsupported"
           asks == \E f \in others : f.assessment = "review"
<1>1. ~drifts
  <2>1. drifts => Aggregate(d) = "unsupported_drift"
    BY DEF Aggregate
  <2> QED
    BY <2>1
<1>2. ~asks
  <2>1. ~drifts /\ asks => Aggregate(d) = "review_required"
    BY DEF Aggregate
  <2> QED
    BY <1>1, <2>1
<1>3. \A axis \in Axes : d[axis].assessment \in {"aligned", "supported", "review", "unsupported"}
  BY ReplyAssumption DEF ValidJudgement
<1> QED
  BY <1>1, <1>2, <1>3 DEF Continuous

LEMMA JudgeKeeps ==
  ASSUME IInv, NEW h \in Hosts, Judge(h) PROVE IInv'
<1>1. /\ Quiet(h) /\ host[h].at = "judge"
      /\ host[h] \in HostState /\ Knows(host[h])
  BY HostFacts DEF Judge, At, Quiet, Leading
<1>2. host[h].mode \in {"off", "compact", "activate"}
  BY <1>1 DEF Knows, Addressed, Reviewing
<1>3. CASE Return(h, None)
  BY <1>1, <1>3, ReturnRests, RestStep, ReplyAssumption
<1>4. ASSUME NEW why \in Reasons, Unreviewed(h, why) PROVE IInv'
  BY <1>1, <1>2, <1>4, UnreviewedRests, RestStep
<1>5. ASSUME NEW d \in Judgements, d # None, ValidJudgement(d), host[h].mode # "activate",
             WellCited(d, world.refs, Active(host[h].signals)),
             Aggregate(d) \in {"aligned", "supported_new_choice"}, guard' = None,
             host' = [host EXCEPT ![h].at = "ready", ![h].decision = d, ![h].signals = None]
      PROVE  IInv'
  <2> DEFINE n == [host[h] EXCEPT !.at = "ready", !.decision = d, !.signals = None]
             S == host[h].signals
  <2>1. Continuous(d)
    BY <1>5, AlignedIsContinuous DEF WellCited, CitesWhatItHas
  <2>2. Spoken(d)
    <3>1. S \in Inferences \cup {{}} /\ Found(S)
      BY <1>1 DEF Knows, Heard
    <3>2. Voices(d) \subseteq Active(S)
      BY <1>5 DEF WellCited, VoicesAreTraced
    <3> QED
      BY <3>1, <3>2, ActiveIsBacked DEF Spoken
  <2>3. n \in HostState
    BY <1>1, <1>5 DEF HostState, Stages, Verdict0
  <2>4. /\ n.at = "ready" /\ n.mode = host[h].mode
        /\ n.number = host[h].number /\ n.version = host[h].version
        /\ n.reason = host[h].reason /\ n.recorded = host[h].recorded /\ n.decision = d
        /\ n.compact = host[h].compact /\ n.flight = host[h].flight
        /\ n.outcome = host[h].outcome
    BY <1>1 DEF HostState
  <2>5. host' = [host EXCEPT ![h] = n]
    BY <1>1, <1>5 DEF IInv, Shape
  <2> HIDE DEF n
  <2>6. Knows(n)
    BY <1>1, <1>2, <1>5, <2>1, <2>2, <2>4 DEF Knows, Addressed, Excused, Deliberated, Resting,
       Heard, Borne, Calling, Stages, Deliberating, Replying, Reviewing, Offering
  <2>7. Rests(h, n)
    BY <1>5, <2>3, <2>4, <2>5, <2>6, HostFacts DEF Rests, Moves, Leading
  <2> QED
    BY <1>1, <2>7, RestStep
<1>6. \A d \in Judgements : Aggregate(d) \in Reasons
  BY AggregateType DEF Reasons, Codes, Verdicts
<1> QED
  BY <1>3, <1>4, <1>5, <1>6 DEF Judge, Reasons, Codes

-----------------------------------------------------------------------------
(* What a thread does to the Turn and to its attempts *)

LEMMA OverKnows ==
  ASSUME NEW n, n = Over(None)
  PROVE  /\ n.at = "idle" /\ n.flight = 0 /\ n.outcome = None /\ Knows(n)'
<1>1. n.at = "idle" /\ n.flight = 0 /\ n.outcome = None /\ n.compact = None
  BY DEF Over, Idle
<1> QED
  BY <1>1 DEF Knows, Addressed, Excused, Deliberated, Resting, Heard, Borne, Calling,
     Deliberating, Stages, Replying, Reviewing, Offering

LEMMA AttemptStep ==
  ASSUME IInv, UNCHANGED <<world, turn, now, voice>>, AttemptsStay,
         attempts' \in [Numbers -> {None} \cup Failures], guard' \in Hosts \cup {None},
         NEW h \in Hosts, NEW n, Moves(h, n), Knows(n)', n.outcome = "refused" => Stale,
         n.flight \in 0..Len(voice.flights),
         host[h].at \notin Leading \cup {"pop"}, n.at \notin Leading \cup {"pop", "follow"}
  PROVE  IInv'
<1>1. Steady /\ (Stale => Stale')
  BY DEF Steady, ValuesStay, Value, Frozen, IInv, Shape, Stale, Open
<1>2. (\A g \in Hosts : Knows(host[g]) /\ (host[g].outcome = "refused" => Stale))'
  BY <1>1, ThreadsKnow
<1>3. Flights'
  BY FlightsStay
<1>4. Shape'
  BY MovesAt DEF IInv, Shape
<1>5. Len(now.journal) <= Len(now'.journal)
  BY DEF IInv, Shape
<1>6. Sealed'
  BY <1>1, <1>4, <1>5, SealedStays
<1> QED
  BY <1>2, <1>3, <1>4, <1>6 DEF IInv

LEMMA RecordKeeps ==
  ASSUME IInv, NEW h \in Hosts, Record(h) PROVE IInv'
<1> DEFINE x == host[h]
           k == x.number + IF x.recorded THEN 1 ELSE 0
<1>1. /\ x.at = "record" /\ x \in HostState /\ Knows(x) /\ UNCHANGED <<world, turn, now, voice>>
      /\ x.mode \in {"off", "compact"} /\ x.number \in Firsts
  BY HostFacts DEF Record, At, Knows, Addressed, Replying, Calling, Stages
<1>2. k \in Numbers /\ (~x.recorded => k = x.number)
  <2>1. x.recorded \in BOOLEAN /\ x.number \in Nat
    BY <1>1, ReplyAssumption DEF HostState
  <2>2. CASE x.recorded
    BY <1>1, <2>2 DEF Numbers
  <2>3. CASE ~x.recorded
    BY <1>1, <2>1, <2>3 DEF Numbers
  <2> QED
    BY <2>2, <2>3
<1> HIDE DEF k
<1>3. CASE Return(h, None) /\ UNCHANGED attempts
  <2>1. Quiet(h)
    BY <1>1, <1>3 DEF Quiet, Store, Leading
  <2> QED
    BY <1>3, <2>1, ReturnRests, RestStep, ReplyAssumption
<1>4. CASE AppendAttempt(k, Failure(h))
  <2>1. Failure(h) \in Failures
    BY <1>1 DEF Failure, Failures, HostState
  <2>2. /\ attempts \in [Numbers -> {None} \cup Failures]
        /\ attempts' = [attempts EXCEPT ![k] = Failure(h)] /\ attempts[k] \in {None, Failure(h)}
    BY <1>4 DEF AppendAttempt, IInv, Shape
  <2>3. /\ attempts' \in [Numbers -> {None} \cup Failures]
        /\ attempts'[k] = Failure(h) /\ AttemptsStay
    BY <1>2, <2>1, <2>2 DEF AttemptsStay
  <2>4. CASE Return(h, None)
    <3>1. PICK n : n = Over(None)
      OBVIOUS
    <3>2. Moves(h, n) /\ guard' \in Hosts \cup {None}
      BY <2>4, <3>1, ReturnMoves, ReplyAssumption DEF IInv
    <3>3. n.at = "idle" /\ n.flight = 0 /\ n.outcome = None /\ Knows(n)'
      BY <3>1, OverKnows
    <3> QED
      BY <1>1, <2>3, <3>2, <3>3, AttemptStep, HostFacts, ReplyAssumption DEF Leading
  <2>5. CASE /\ Fallen(h) /\ UNCHANGED guard
             /\ host' = [host EXCEPT ![h].at = "direct", ![h].recorded = TRUE]
    <3>1. PICK n : n = [x EXCEPT !.at = "direct", !.recorded = TRUE]
      OBVIOUS
    <3>2. n \in HostState
      BY <1>1, <3>1 DEF HostState, Stages
    <3>3. /\ n.at = "direct" /\ n.recorded = TRUE /\ n.mode = x.mode /\ n.number = x.number
          /\ n.version = x.version /\ n.reason = x.reason /\ n.compact = x.compact
          /\ n.flight = x.flight /\ n.outcome = x.outcome
      BY <1>1, <3>1 DEF HostState
    <3>4. Moves(h, n) /\ guard' \in Hosts \cup {None}
      BY <2>5, <3>1, <3>2, HostFacts DEF Moves, IInv, Shape
    <3>5. attempts'[n.number] = [by |-> "actor", reason |-> n.reason]
      BY <1>1, <1>2, <2>3, <2>5, <3>3 DEF Failure, Fallen, Knows, Excused, Calling, Stages
    <3>6. Knows(n)'
      BY <1>1, <2>5, <3>3, <3>5 DEF Fallen, Knows, Addressed, Excused, Deliberated, Scanned,
         Grounded, Resting, Heard, Borne, Calling, Stages, Deliberating, Replying, Reviewing,
         Offering
    <3> QED
      BY <1>1, <2>3, <3>3, <3>4, <3>6, AttemptStep, HostFacts DEF Leading
  <2> QED
    BY <1>1, <1>4, <2>4, <2>5 DEF Record, k
<1> QED
  BY <1>1, <1>3, <1>4 DEF Record, k

\* What is borne out stays so while nothing is taken back.
LEMMA AnswerIsStable ==
  ASSUME Steady, Shape, NEW reply \in Reply0, Answer(reply) PROVE Answer(reply)'
<1>1. Recorded(reply)'
  BY RecordedIsStable DEF Steady, Reply0, Answer, Recorded
<1>2. Continuous(reply.decision)' /\ Spoken(reply.decision)'
  BY SpokenIsStable DEF Steady, Answer
<1> QED
  BY <1>1, <1>2 DEF Steady, Answer, Scanned, Grounded

\* A step by which the Turn has ended, and with what reply.
LEMMA EndedTurn ==
  ASSUME IInv, UNCHANGED <<world, attempts, now, voice>>, Shape', ~Open',
         NEW reply \in Reply0 \cup {None}, turn'.reply = reply, reply # None => Answer(reply)
  PROVE  Steady /\ Stale' /\ Sealed'
<1>1. Steady /\ Stale'
  BY DEF Steady, AttemptsStay, ValuesStay, Value, Frozen, IInv, Shape, Stale
<1>2. ASSUME turn'.reply # None PROVE Answer(turn.reply)'
  <2>1. Answer(reply)'
    BY <1>1, <1>2, AnswerIsStable DEF IInv
  <2> QED
    BY <2>1
<1> QED
  BY <1>1, <1>2 DEF Sealed, IInv

LEMMA TurnStep ==
  ASSUME IInv, UNCHANGED <<world, attempts, now, voice>>, guard' \in Hosts \cup {None},
         turn' \in [status: {"completed", "abandoned"}, version: Nat, reply: Reply0 \cup {None}],
         NEW reply, turn'.reply = reply, reply # None => Answer(reply),
         NEW h \in Hosts, NEW n, Moves(h, n), Knows(n), n.flight \in 0..Len(voice.flights),
         host[h].at \notin Leading \cup {"pop"}, n.at \notin Leading \cup {"pop", "follow"}
  PROVE  IInv'
<1>1. /\ turn'.status # "open" /\ reply \in Reply0 \cup {None}
      /\ turn' \in [status: {"open", "completed", "abandoned"}, version: Nat,
                    reply: Reply0 \cup {None}]
  OBVIOUS
<1>2. Shape' /\ ~Open' /\ n \in HostState
  BY <1>1, MovesAt DEF IInv, Shape, Moves, Open
<1>3. Steady /\ Stale' /\ Sealed'
  BY <1>1, <1>2, EndedTurn
<1>4. (\A g \in Hosts : Knows(host[g]) /\ (host[g].outcome = "refused" => Stale))'
  BY <1>2, <1>3, ThreadsKnow, KnowsIsStable DEF IInv
<1>5. Flights'
  BY FlightsStay
<1> QED
  BY <1>2, <1>3, <1>4, <1>5 DEF IInv

LEMMA TransitionKeeps ==
  ASSUME IInv, NEW h \in Hosts, Transition(h) PROVE IInv'
<1> DEFINE x == host[h]
<1>1. /\ x.at = "transition" /\ x \in HostState /\ Knows(x)
      /\ UNCHANGED <<world, attempts, now, voice>>
      /\ x.mode \in {"off", "compact"} /\ x.number \in Firsts /\ x.version = 1
  BY HostFacts DEF Transition, At, Knows, Addressed, Replying, Calling, Stages
<1>2. CASE ~(Matches(h) /\ now.approved) /\ UNCHANGED turn /\ Return(h, "refused")
  <2>1. Quiet(h)
    BY <1>1, <1>2 DEF Quiet, Store, Leading
  <2>2. Stale
    BY <1>1, <1>2 DEF Matches, Stale, IInv, Sealed
  <2> QED
    BY <1>2, <2>1, <2>2, ReturnRests, RestStep
<1>3. CASE Matches(h) /\ now.approved
  <2> DEFINE reply == [source |-> IF x.compact = None THEN "direct" ELSE "compact",
                       reason |-> x.reason, number |-> x.number, compact |-> x.compact,
                       decision |-> x.decision]
  <2>1. /\ turn' = [status |-> "completed", version |-> turn.version + 1, reply |-> reply]
        /\ Goto(h, "evict") /\ UNCHANGED guard
    BY <1>3 DEF Transition
  <2>2. reply \in Reply0
    BY <1>1 DEF Reply0, HostState
  <2>3. Answer(reply)
    <3>1. Recorded(reply)
      BY <1>1 DEF Knows, Excused, Calling, Stages, Recorded
    <3>2. Continuous(x.decision) /\ Spoken(x.decision)
      BY <1>1 DEF Knows, Borne, Offering
    <3>3. x.compact # None => Scanned(x.compact) /\ x.compact.kind = "reply"
      BY <1>1 DEF Knows, Deliberated
    <3> QED
      BY <3>1, <3>2, <3>3 DEF Answer
  <2>4. turn' \in [status: {"completed", "abandoned"}, version: Nat, reply: Reply0 \cup {None}]
    BY <1>1, <1>3, <2>1, <2>2 DEF Matches
  <2>5. turn'.reply = reply
    BY <2>1
  <2> HIDE DEF reply
  <2>6. PICK n : n = [x EXCEPT !.at = "evict"]
    OBVIOUS
  <2>7. /\ n \in HostState /\ n.at = "evict" /\ n.mode = x.mode /\ n.number = x.number
        /\ n.version = x.version /\ n.reason = x.reason /\ n.compact = x.compact
        /\ n.flight = x.flight /\ n.recorded = x.recorded
    BY <1>1, <2>6 DEF HostState, Stages
  <2>8. Moves(h, n) /\ guard' \in Hosts \cup {None}
    BY <2>1, <2>6, <2>7, HostFacts DEF Goto, Moves, IInv, Shape
  <2>9. Knows(n)
    BY <1>1, <2>7 DEF Knows, Addressed, Excused, Deliberated, Resting, Heard, Borne, Calling,
       Stages, Deliberating, Replying, Reviewing, Offering
  <2> QED
    BY <1>1, <2>3, <2>4, <2>5, <2>7, <2>8, <2>9, TurnStep, HostFacts DEF Leading
<1> QED
  BY <1>1, <1>2, <1>3 DEF Transition

LEMMA AbandonKeeps ==
  ASSUME IInv, NEW h \in Hosts, Abandon(h) PROVE IInv'
<1> DEFINE x == host[h]
<1>1. /\ x.at = "abandon" /\ x \in HostState /\ Knows(x)
      /\ UNCHANGED <<world, attempts, now, voice>>
  BY HostFacts DEF Abandon, At
<1>2. PICK n : n = [x EXCEPT !.at = "evict"]
  OBVIOUS
<1>3. /\ n \in HostState /\ n.at = "evict" /\ n.mode = x.mode /\ n.number = x.number
      /\ n.version = x.version /\ n.reason = x.reason /\ n.compact = x.compact
      /\ n.flight = x.flight /\ n.recorded = x.recorded /\ n.outcome = x.outcome
  BY <1>1, <1>2 DEF HostState, Stages
<1>4. Knows(n)
  BY <1>1, <1>3 DEF Knows, Addressed, Excused, Deliberated, Resting, Heard, Borne, Calling,
     Stages, Deliberating, Replying, Reviewing, Offering
<1>5. CASE Open
  <2>1. /\ turn' = [turn EXCEPT !.status = "abandoned", !.version = @ + 1]
        /\ Goto(h, "evict") /\ UNCHANGED guard
    BY <1>5 DEF Abandon
  <2>2. /\ turn' \in [status: {"completed", "abandoned"}, version: Nat, reply: Reply0 \cup {None}]
        /\ turn'.reply = turn.reply
    <3>1. turn \in [status: {"open", "completed", "abandoned"}, version: Nat,
                    reply: Reply0 \cup {None}]
      BY DEF IInv, Shape
    <3>2. /\ turn'.status = "abandoned" /\ turn'.version = turn.version + 1
          /\ turn'.reply = turn.reply
          /\ turn' = [status |-> turn'.status, version |-> turn'.version, reply |-> turn'.reply]
      BY <2>1, <3>1
    <3>3. turn.version + 1 \in Nat /\ turn.reply \in Reply0 \cup {None}
      BY <3>1
    <3> QED
      BY <3>2, <3>3
  <2>3. turn.reply # None => Answer(turn.reply)
    BY DEF IInv, Sealed
  <2>4. PICK reply : reply = turn.reply
    OBVIOUS
  <2>5. Moves(h, n) /\ guard' \in Hosts \cup {None}
    BY <1>2, <1>3, <2>1, HostFacts DEF Goto, Moves, IInv, Shape
  <2> QED
    BY <1>1, <1>3, <1>4, <2>2, <2>3, <2>4, <2>5, TurnStep, HostFacts DEF Leading
<1>6. CASE ~Open
  <2>1. Quiet(h)
    BY <1>1, <1>6 DEF Abandon, Quiet, Store, Leading
  <2>2. CASE Goto(h, "evict") /\ UNCHANGED guard
    BY <1>1, <1>2, <1>4, <2>1, <2>2, GotoRests, RestStep, HostFacts DEF Stages, Leading
  <2> QED
    BY <1>6, <2>1, <2>2, ReturnRests, RestStep, ReplyAssumption DEF Abandon
<1> QED
  BY <1>5, <1>6

-----------------------------------------------------------------------------
(* What others do *)

LEMMA OthersStep ==
  ASSUME IInv, Steady, Stale => Stale', UNCHANGED <<host, voice>>, Shape', Sealed'
  PROVE  IInv'
<1>1. \A x \in HostState : Knows(x) => Knows(x)'
  BY KnowsIsStable DEF IInv
<1>2. \A g \in Hosts : host[g] \in HostState /\ Knows(host[g])
                       /\ (host[g].outcome = "refused" => Stale)
  BY HostFacts
<1>3. (\A g \in Hosts : Knows(host[g]) /\ (host[g].outcome = "refused" => Stale))'
  BY <1>1, <1>2
<1>4. Flights'
  BY DEF IInv, Flights, Leads, LeadersDiffer, AirIsLed, FollowersAreLed, Landings, Accounted,
     InFlight, State, Value, Leading, At
<1> QED
  BY <1>3, <1>4 DEF IInv

LEMMA RivalEndsKeeps ==
  ASSUME IInv, RivalEnds PROVE IInv'
<1>1. UNCHANGED <<world, attempts, now, voice, host, guard>>
  BY DEF RivalEnds
<1>2. PICK status \in {"completed", "abandoned"} :
        turn' = [turn EXCEPT !.status = status, !.version = @ + 1]
  BY DEF RivalEnds
<1>3. turn \in [status: {"open", "completed", "abandoned"}, version: Nat, reply: Reply0 \cup {None}]
  BY DEF IInv, Shape
<1>4. /\ turn'.status = status /\ turn'.version = turn.version + 1 /\ turn'.reply = turn.reply
      /\ turn' = [status |-> turn'.status, version |-> turn'.version, reply |-> turn'.reply]
  BY <1>2, <1>3
<1>5. turn.version + 1 \in Nat /\ turn.reply \in Reply0 \cup {None}
  BY <1>3
<1>6. turn' \in [status: {"open", "completed", "abandoned"}, version: Nat,
                 reply: Reply0 \cup {None}]
  BY <1>4, <1>5
<1>7. Shape' /\ ~Open'
  BY <1>1, <1>4, <1>6 DEF IInv, Shape, Open
<1>8. PICK reply : reply = turn.reply
  OBVIOUS
<1>9. reply # None => Answer(reply)
  BY <1>8 DEF IInv, Sealed
<1>10. Steady /\ Stale' /\ Sealed'
  BY <1>1, <1>4, <1>5, <1>7, <1>8, <1>9, EndedTurn
<1> QED
  BY <1>1, <1>7, <1>10, OthersStep

LEMMA LossKeeps ==
  ASSUME IInv, UNCHANGED <<world, turn, attempts, guard, host, voice>>,
         \/ now' = [now EXCEPT !.approved = FALSE]
         \/ now' = [now EXCEPT !.memory = FALSE]
  PROVE  IInv'
<1>1. now \in [approved: BOOLEAN, memory: BOOLEAN, journal: Seq(Changes)]
  BY DEF IInv, Shape
<1>2. /\ now' \in [approved: BOOLEAN, memory: BOOLEAN, journal: Seq(Changes)]
      /\ now'.journal = now.journal
      /\ ~now.approved => ~now'.approved
      /\ ~now.memory => ~now'.memory
  BY <1>1
<1>3. Shape'
  BY <1>2 DEF IInv, Shape
<1>4. Steady /\ (Stale => Stale')
  BY <1>2 DEF Steady, AttemptsStay, ValuesStay, Value, Frozen, IInv, Shape, Stale, Open
<1>5. Len(now.journal) <= Len(now'.journal)
  BY <1>1, <1>2
<1>6. Sealed'
  BY <1>3, <1>4, <1>5, SealedStays
<1> QED
  BY <1>3, <1>4, <1>6, OthersStep

LEMMA AppendEventKeeps ==
  ASSUME IInv, AppendEvent PROVE IInv'
<1>1. UNCHANGED <<world, turn, attempts, guard, host, voice>>
  BY DEF AppendEvent
<1>2. PICK delta \in Changes : now' = [now EXCEPT !.journal = Append(now.journal, delta)]
  BY ReplyAssumption DEF AppendEvent
<1>3. now \in [approved: BOOLEAN, memory: BOOLEAN, journal: Seq(Changes)]
  BY DEF IInv, Shape
<1>4. now.journal \in Seq(Changes)
  BY <1>3
<1>5. /\ Append(now.journal, delta) \in Seq(Changes)
      /\ Len(Append(now.journal, delta)) = Len(now.journal) + 1
      /\ Len(now.journal) \in Nat
  BY <1>4
<1>6. /\ now' \in [approved: BOOLEAN, memory: BOOLEAN, journal: Seq(Changes)]
      /\ now'.journal = Append(now.journal, delta)
      /\ now'.approved = now.approved /\ now'.memory = now.memory
  BY <1>2, <1>3, <1>5
<1>7. Shape'
  BY <1>1, <1>6 DEF IInv, Shape
<1>8. world.opened \in Nat /\ world.opened <= Len(now.journal)
  BY ReplyAssumption DEF IInv, Shape, Sealed
<1>9. Frozen' = Frozen
  <2>1. SubSeq(Append(now.journal, delta), 1, world.opened) = SubSeq(now.journal, 1, world.opened)
    BY <1>4, <1>5, <1>8
  <2> QED
    BY <1>1, <1>6, <2>1 DEF Frozen
<1>10. Steady /\ (Stale => Stale')
  BY <1>1, <1>6, <1>9 DEF Steady, AttemptsStay, ValuesStay, Value, IInv, Shape, Stale, Open
<1>11. Sealed'
  BY <1>1, <1>5, <1>6, <1>7, <1>10, SealedStays
<1> QED
  BY <1>1, <1>7, <1>10, <1>11, OthersStep

-----------------------------------------------------------------------------
(* The single flight *)

VoiceType == [cached: Nat, inflight: Nat, flights: Seq(Flight), drops: Nat]

LEMMA VoiceFacts ==
  ASSUME IInv
  PROVE  /\ voice \in VoiceType
         /\ voice.flights \in Seq(Flight) /\ Len(voice.flights) \in Nat
         /\ voice.cached \in 0..Len(voice.flights) /\ voice.inflight \in 0..Len(voice.flights)
         /\ voice.drops \in Nat
         /\ \A f \in 1..Len(voice.flights) : voice.flights[f] \in Flight
BY DEF IInv, Shape, VoiceType

LEMMA ErrorsAreFinite ==
  ASSUME NEW flights, Len(flights) \in Nat
  PROVE  IsFiniteSet(Errors(flights)) /\ Cardinality(Errors(flights)) \in Nat
<1>1. IsFiniteSet(1..Len(flights)) /\ Errors(flights) \in SUBSET (1..Len(flights))
  BY FS_Interval DEF Errors
<1>2. IsFiniteSet(Errors(flights))
  BY <1>1, FS_Subset
<1> QED
  BY <1>2, FS_CardinalityType

\* A thread moves, and with it the shared evaluation.
LEMMA VoiceStep ==
  ASSUME IInv, UNCHANGED <<world, Store>>, guard' \in Hosts \cup {None},
         voice' \in VoiceType, {voice'.cached, voice'.inflight} \subseteq 0..Len(voice'.flights),
         ValuesStay, Flights',
         NEW h \in Hosts, NEW n, Moves(h, n), Knows(n), n.outcome = "refused" => Stale,
         n.flight \in 0..Len(voice'.flights)
  PROVE  IInv'
<1>1. Steady /\ (Stale => Stale') /\ n \in HostState
  BY DEF Steady, AttemptsStay, Frozen, Stale, Open, Store, Moves
<1>2. Knows(n)'
  BY <1>1, KnowsIsStable DEF IInv
<1>3. (\A g \in Hosts : Knows(host[g]) /\ (host[g].outcome = "refused" => Stale))'
  BY <1>1, <1>2, ThreadsKnow
<1>4. Shape'
  <2>1. /\ host' \in [Hosts -> HostState] /\ host'[h] = n
        /\ \A g \in Hosts \ {h} : host'[g] = host[g]
    BY MovesAt DEF IInv
  <2>2. \A g \in Hosts : host'[g].flight \in 0..Len(voice'.flights)
    BY <2>1, VoiceFacts, HostFacts DEF ValuesStay, VoiceType
  <2> QED
    BY <2>1, <2>2 DEF IInv, Shape, Store, VoiceType
<1>5. Len(now.journal) <= Len(now'.journal)
  BY DEF IInv, Shape, Store
<1>6. Sealed'
  BY <1>1, <1>4, <1>5, SealedStays DEF Store
<1> QED
  BY <1>3, <1>4, <1>6 DEF IInv

\* The cache is emptied: an evaluation that is in the air is not.
LEMMA DroppedFacts ==
  ASSUME IInv, voice' = Dropped
  PROVE  /\ voice' \in VoiceType /\ voice'.cached = 0 /\ voice'.inflight = voice.inflight
         /\ voice'.flights = voice.flights
         /\ voice'.drops = voice.drops + (IF voice.cached # 0 THEN 1 ELSE 0)
         /\ ValuesStay /\ (Landings /\ Accounted)'
<1>1. /\ voice' \in VoiceType /\ voice'.cached = 0 /\ voice'.inflight = voice.inflight
      /\ voice'.flights = voice.flights
      /\ voice'.drops = voice.drops + (IF voice.cached # 0 THEN 1 ELSE 0)
  <2>1. PICK d : d = voice.drops + (IF voice.cached # 0 THEN 1 ELSE 0)
    OBVIOUS
  <2>2. d \in Nat
    BY <2>1, VoiceFacts
  <2>3. voice' = [voice EXCEPT !.cached = 0, !.drops = d]
    BY <2>1 DEF Dropped
  <2>4. voice \in VoiceType
    BY VoiceFacts
  <2>5. voice' \in VoiceType
    <3>1. voice' = [cached |-> 0, inflight |-> voice.inflight, flights |-> voice.flights,
                    drops |-> d]
      BY <2>3, <2>4 DEF VoiceType
    <3> QED
      BY <2>2, <3>1, VoiceFacts DEF VoiceType
  <2>6. /\ voice'.cached = 0 /\ voice'.inflight = voice.inflight
        /\ voice'.flights = voice.flights /\ voice'.drops = d
    BY <2>3, <2>4 DEF VoiceType
  <2> QED
    BY <2>1, <2>5, <2>6
<1>2. ValuesStay /\ Landings'
  BY <1>1, VoiceFacts DEF ValuesStay, Value, State, Landings, IInv, Flights
<1>3. Accounted'
  <2>1. InFlight' = InFlight /\ Errors(voice'.flights) = Errors(voice.flights)
    BY <1>1 DEF InFlight, State
  <2>2. voice.cached # 0 => ~InFlight
    BY DEF IInv, Flights, Landings, InFlight
  <2>3. Accounted
    BY DEF IInv, Flights
  <2> QED
    BY <1>1, <2>1, <2>2, <2>3, VoiceFacts, ErrorsAreFinite DEF Accounted
<1> QED
  BY <1>1, <1>2, <1>3

LEMMA EvictKeeps ==
  ASSUME IInv, NEW h \in Hosts, Evict(h) PROVE IInv'
<1>1. /\ host[h].at = "evict" /\ UNCHANGED <<world, Store>> /\ voice' = Dropped /\ Return(h, None)
  BY DEF Evict, At
<1>2. PICK n : n = Over(None)
  OBVIOUS
<1>3. Rests(h, n) /\ n.at = "idle" /\ n.flight = 0
  BY <1>1, <1>2, ReturnRests, ReplyAssumption DEF Over, Idle
<1>4. /\ voice' \in VoiceType /\ voice'.cached = 0 /\ voice'.inflight = voice.inflight
      /\ voice'.flights = voice.flights /\ ValuesStay /\ (Landings /\ Accounted)'
  BY <1>1, DroppedFacts
<1>5. /\ host'[h] = n
      /\ \A g \in Hosts \ {h} : host'[g] = host[g]
  BY <1>3, MovesAt DEF IInv, Rests
<1>6. Flights'
  <2>1. (\A g \in Hosts : Leads(g))'
    BY <1>3, <1>4, <1>5 DEF IInv, Flights, Leads, State, Value, Leading
  <2>2. LeadersDiffer'
    BY <1>3, <1>5 DEF IInv, Flights, LeadersDiffer, Leading
  <2>3. AirIsLed'
    BY <1>1, <1>4, <1>5 DEF IInv, Flights, AirIsLed, InFlight, State
  <2>4. FollowersAreLed'
    BY <1>1, <1>3, <1>4, <1>5 DEF IInv, Flights, FollowersAreLed, At
  <2> QED
    BY <1>4, <2>1, <2>2, <2>3, <2>4 DEF Flights
<1> QED
  BY <1>1, <1>3, <1>4, <1>6, VoiceStep, VoiceFacts DEF Rests

LEMMA DisplaceKeeps ==
  ASSUME IInv, Displace PROVE IInv'
<1>1. UNCHANGED <<world, turn, attempts, now, guard, host>> /\ voice' = Dropped
  BY DEF Displace
<1>2. /\ voice' \in VoiceType /\ voice'.cached = 0 /\ voice'.inflight = voice.inflight
      /\ voice'.flights = voice.flights /\ ValuesStay /\ (Landings /\ Accounted)'
  BY <1>1, DroppedFacts
<1>3. Flights'
  BY <1>1, <1>2 DEF IInv, Flights, Leads, LeadersDiffer, AirIsLed, FollowersAreLed, InFlight,
     State, Value, Leading, At
<1>4. Shape'
  BY <1>1, <1>2, VoiceFacts DEF IInv, Shape, VoiceType
<1>5. Steady /\ (Stale => Stale')
  BY <1>1, <1>2 DEF Steady, AttemptsStay, Frozen, Stale, Open
<1>6. Len(now.journal) <= Len(now'.journal)
  BY <1>1 DEF IInv, Shape
<1>7. Sealed'
  BY <1>1, <1>4, <1>5, <1>6, SealedStays
<1>8. \A x \in HostState : Knows(x) => Knows(x)'
  BY <1>5, KnowsIsStable DEF IInv
<1>9. \A g \in Hosts : host[g] \in HostState /\ Knows(host[g])
                       /\ (host[g].outcome = "refused" => Stale)
  BY HostFacts
<1>10. (\A g \in Hosts : Knows(host[g]) /\ (host[g].outcome = "refused" => Stale))'
  BY <1>1, <1>5, <1>8, <1>9
<1> QED
  BY <1>3, <1>4, <1>7, <1>10 DEF IInv

\* A thread that leads a flight, or has failed to, leads one of its own.
LEMMA LeaderAlone ==
  ASSUME IInv, NEW h \in Hosts, host[h].at \in Leading \cup {"pop"}
  PROVE  /\ host[h].flight \in 1..Len(voice.flights)
         /\ \A g \in Hosts \ {h} : host[g].at \in Leading \cup {"pop"} =>
                                     host[g].flight # host[h].flight
         /\ voice.inflight = host[h].flight =>
              \A g \in Hosts \ {h} : host[g].at \notin {"lead", "publish", "fail", "pop"}
<1>1. host[h].flight \in 0..Len(voice.flights) /\ Len(voice.flights) \in Nat
  BY HostFacts, VoiceFacts
<1>2. host[h].flight # 0
  BY DEF IInv, Flights, Leads, Leading
<1> QED
  BY <1>1, <1>2 DEF IInv, Flights, Leads, LeadersDiffer, Leading

LEMMA InferKeeps ==
  ASSUME IInv, NEW h \in Hosts, Infer(h) PROVE IInv'
<1> DEFINE x == host[h]
<1>1. /\ x.at = "lead" /\ x \in HostState /\ Knows(x) /\ UNCHANGED <<world, Store, guard, voice>>
  BY HostFacts DEF Infer, At
<1>2. PICK answer \in Inferences, at \in {"publish", "fail"} :
        /\ at = "publish" => answer # None
        /\ host' = [host EXCEPT ![h].signals = answer, ![h].at = at]
  BY DEF Infer
<1>3. PICK n : n = [x EXCEPT !.signals = answer, !.at = at]
  OBVIOUS
<1>4. /\ n.at = at /\ n.signals = answer /\ n.mode = x.mode /\ n.number = x.number
      /\ n.version = x.version /\ n.reason = x.reason /\ n.compact = x.compact
      /\ n.flight = x.flight /\ n.recorded = x.recorded /\ n.outcome = x.outcome
  BY <1>1, <1>3 DEF HostState
<1>5. n \in HostState
  <2>1. answer \in Inferences \cup {None, {}} /\ at \in Stages
    BY DEF Stages
  <2> QED
    BY <1>1, <1>3, <2>1 DEF HostState
<1>6. Moves(h, n)
  BY <1>1, <1>2, <1>3, <1>5 DEF Moves, IInv, Shape
<1>7. Knows(n)
  BY <1>1, <1>4 DEF Knows, Addressed, Excused, Deliberated, Resting, Heard, Borne, Calling,
     Stages, Deliberating, Replying, Reviewing, Offering
<1>8. /\ host'[h] = n
      /\ \A g \in Hosts \ {h} : host'[g] = host[g]
  BY <1>6, MovesAt DEF IInv
<1>9. Flights'
  <2>1. ASSUME NEW g \in Hosts PROVE Leads(g)'
    <3>1. Leads(g) /\ Leads(h)
      BY DEF IInv, Flights
    <3>2. CASE g = h
      BY <1>1, <1>2, <1>4, <1>8, <3>1, <3>2 DEF Leads, State, Value, Leading
    <3>3. CASE g # h
      BY <1>1, <1>8, <3>1, <3>3 DEF Leads, State, Value, Leading
    <3> QED
      BY <3>2, <3>3
  <2>2. LeadersDiffer'
    BY <1>1, <1>4, <1>8 DEF IInv, Flights, LeadersDiffer, Leading
  <2>3. AirIsLed'
    BY <1>1, <1>4, <1>8 DEF IInv, Flights, AirIsLed, InFlight, State
  <2>4. FollowersAreLed'
    BY <1>1, <1>4, <1>8 DEF IInv, Flights, FollowersAreLed, At
  <2>5. Landings' /\ Accounted'
    BY <1>1 DEF IInv, Flights, Landings, Accounted, InFlight, State, Value
  <2> QED
    BY <2>1, <2>2, <2>3, <2>4, <2>5 DEF Flights
<1>10. voice' \in VoiceType /\ ValuesStay
       /\ {voice'.cached, voice'.inflight} \subseteq 0..Len(voice'.flights)
  BY <1>1, VoiceFacts DEF ValuesStay, Value
<1> QED
  BY <1>1, <1>4, <1>6, <1>7, <1>9, <1>10, VoiceStep, HostFacts

\* What becomes of one flight changes no other.
Lands(f, c, i, state, value) ==
  voice' = [voice EXCEPT !.cached = c, !.inflight = i,
              !.flights = [voice.flights EXCEPT ![f] = [state |-> state, value |-> value]]]

LEMMA LandFacts ==
  ASSUME IInv, NEW f \in 1..Len(voice.flights), NEW c \in 0..Len(voice.flights),
         NEW i \in 0..Len(voice.flights), NEW state \in {"pending", "value", "error"},
         NEW value \in Inferences \cup {None, {}}, Value(f) \in {None, value},
         Lands(f, c, i, state, value)
  PROVE  /\ voice' \in VoiceType /\ voice'.cached = c /\ voice'.inflight = i
         /\ voice'.drops = voice.drops /\ Len(voice'.flights) = Len(voice.flights)
         /\ {voice'.cached, voice'.inflight} \subseteq 0..Len(voice'.flights)
         /\ State(f)' = state /\ Value(f)' = value
         /\ \A g \in 1..Len(voice.flights) : g # f => State(g)' = State(g) /\ Value(g)' = Value(g)
         /\ ValuesStay
<1> DEFINE landed == [state |-> state, value |-> value]
<1>1. landed \in Flight
  BY DEF Flight
<1>2. PICK flights : flights = [voice.flights EXCEPT ![f] = landed]
  OBVIOUS
<1>3. /\ flights \in Seq(Flight) /\ Len(flights) = Len(voice.flights) /\ flights[f] = landed
      /\ \A g \in 1..Len(voice.flights) : g # f => flights[g] = voice.flights[g]
  BY <1>1, <1>2, VoiceFacts
<1>4. voice \in VoiceType
  BY VoiceFacts
<1>5. voice' = [cached |-> c, inflight |-> i, flights |-> flights, drops |-> voice.drops]
  BY <1>2, <1>4 DEF VoiceType, Lands
<1>6. voice' \in VoiceType
  BY <1>3, <1>5, VoiceFacts DEF VoiceType
<1>7. /\ State(f)' = state /\ Value(f)' = value
      /\ \A g \in 1..Len(voice.flights) : g # f => State(g)' = State(g) /\ Value(g)' = Value(g)
  BY <1>3, <1>5 DEF State, Value
<1>8. ValuesStay
  BY <1>3, <1>5, <1>7, VoiceFacts DEF ValuesStay
<1> QED
  BY <1>3, <1>5, <1>6, <1>7, <1>8

LEMMA PublishKeeps ==
  ASSUME IInv, NEW h \in Hosts, Publish(h) PROVE IInv'
<1> DEFINE x == host[h]
<1>0. PICK f : f = x.flight
  OBVIOUS
<1>1. /\ x.at = "publish" /\ x \in HostState /\ Knows(x) /\ UNCHANGED <<world, Store, guard>>
      /\ Goto(h, "resolve")
  BY HostFacts DEF Publish, At
<1>2. /\ f \in 1..Len(voice.flights) /\ voice.inflight = f /\ State(f) = "pending"
      /\ Value(f) = None /\ x.signals # None /\ x.signals \in Inferences \cup {None, {}}
      /\ voice.cached = 0
      /\ \A g \in Hosts \ {h} : /\ host[g].at \notin {"lead", "publish", "fail", "pop"}
                                /\ host[g].at = "resolve" => host[g].flight # f
  BY <1>0, <1>1, LeaderAlone DEF IInv, Flights, Leads, Landings, Leading, HostState
<1>3. /\ voice' \in VoiceType /\ voice'.cached = f /\ voice'.inflight = 0
      /\ voice'.drops = voice.drops /\ Len(voice'.flights) = Len(voice.flights)
      /\ {voice'.cached, voice'.inflight} \subseteq 0..Len(voice'.flights)
      /\ State(f)' = "pending" /\ Value(f)' = x.signals
      /\ \A g \in 1..Len(voice.flights) : g # f => State(g)' = State(g) /\ Value(g)' = Value(g)
      /\ ValuesStay
  <2>1. voice.flights[f] \in Flight /\ voice.flights[f].state = "pending"
    BY <1>2, VoiceFacts DEF State
  <2>2. [voice.flights[f] EXCEPT !.value = x.signals]
          = [state |-> "pending", value |-> x.signals]
    BY <2>1 DEF Flight
  <2>3. Lands(f, f, 0, "pending", x.signals)
    BY <1>0, <2>2 DEF Publish, Lands
  <2>4. PICK value \in Inferences \cup {None, {}} : value = x.signals
    BY <1>2
  <2>5. 0 \in 0..Len(voice.flights) /\ f \in 0..Len(voice.flights)
    BY <1>2, VoiceFacts
  <2> QED
    BY <1>2, <2>3, <2>4, <2>5, LandFacts
<1>4. PICK n : n = [x EXCEPT !.at = "resolve"]
  OBVIOUS
<1>5. /\ n \in HostState /\ n.at = "resolve" /\ n.signals = x.signals /\ n.mode = x.mode
      /\ n.number = x.number
      /\ n.version = x.version /\ n.reason = x.reason /\ n.compact = x.compact
      /\ n.flight = f /\ n.recorded = x.recorded /\ n.outcome = x.outcome
  BY <1>0, <1>1, <1>4 DEF HostState, Stages
<1>6. Moves(h, n)
  BY <1>1, <1>4, <1>5 DEF Goto, Moves, IInv, Shape
<1>7. Knows(n)
  BY <1>1, <1>5 DEF Knows, Addressed, Excused, Deliberated, Resting, Heard, Borne, Calling,
     Stages, Deliberating, Replying, Reviewing, Offering
<1>8. /\ host'[h] = n
      /\ \A g \in Hosts \ {h} : host'[g] = host[g]
  BY <1>6, MovesAt DEF IInv
<1>9. Flights'
  <2>1. ASSUME NEW g \in Hosts PROVE Leads(g)'
    <3>1. CASE g = h
      BY <1>2, <1>3, <1>5, <1>8, <3>1 DEF Leads, Leading
    <3>2. CASE g # h
      <4>1. Leads(g) /\ host[g].flight \in 0..Len(voice.flights) /\ Len(voice.flights) \in Nat
        BY HostFacts, VoiceFacts DEF IInv, Flights
      <4> QED
        BY <1>2, <1>3, <1>8, <3>2, <4>1 DEF Leads, Leading
    <3> QED
      BY <3>1, <3>2
  <2>2. LeadersDiffer'
    BY <1>0, <1>1, <1>2, <1>5, <1>8 DEF IInv, Flights, LeadersDiffer, Leading
  <2>3. AirIsLed' /\ Landings'
    <3>1. \A g \in 1..Len(voice.flights) : State(g)' = State(g)
                                        /\ (Value(g) # None => Value(g)' # None)
      BY <1>2, <1>3
    <3> QED
      BY <1>2, <1>3, <3>1 DEF IInv, Flights, AirIsLed, InFlight, Landings
  <2>4. FollowersAreLed'
    <3>1. \A g \in 1..Len(voice.flights) : voice'.flights[g].state = voice.flights[g].state
      BY <1>2, <1>3 DEF State
    <3>2. ASSUME NEW g \in Hosts, host'[g].at = "follow",
                 voice'.flights[host'[g].flight].state = "pending"
          PROVE  \E leader \in Hosts : /\ host'[leader].at \in {"lead", "publish", "resolve", "fail"}
                                       /\ host'[leader].flight = host'[g].flight
      <4>1. g # h /\ host'[g] = host[g] /\ host[g].at = "follow"
        BY <1>5, <1>8, <3>2
      <4>2. host[g].flight \in 1..Len(voice.flights)
        BY <4>1, HostFacts, VoiceFacts DEF IInv, Flights, Leads
      <4>3. voice.flights[host[g].flight].state = "pending"
        BY <3>1, <3>2, <4>1, <4>2
      <4>4. PICK leader \in Hosts : /\ host[leader].at \in {"lead", "publish", "resolve", "fail"}
                                    /\ host[leader].flight = host[g].flight
        BY <4>1, <4>3 DEF IInv, Flights, FollowersAreLed, At
      <4> QED
        BY <1>0, <1>1, <1>5, <1>8, <4>1, <4>4
    <3> QED
      BY <3>2 DEF FollowersAreLed, At
  <2>5. Accounted'
    <3>1. Errors(voice'.flights) = Errors(voice.flights)
      BY <1>2, <1>3 DEF Errors, State
    <3>2. InFlight
      BY <1>2, VoiceFacts DEF InFlight
    <3> QED
      BY <1>2, <1>3, <3>1, <3>2, VoiceFacts, ErrorsAreFinite DEF IInv, Flights, Accounted
  <2> QED
    BY <2>1, <2>2, <2>3, <2>4, <2>5 DEF Flights
<1>10. n.flight \in 0..Len(voice'.flights)
  BY <1>2, <1>3, <1>5
<1> QED
  BY <1>1, <1>3, <1>5, <1>6, <1>7, <1>9, <1>10, VoiceStep, HostFacts

LEMMA LandOnly ==
  ASSUME IInv, NEW f, NEW state, NEW value,
         voice' = [voice EXCEPT !.flights = Land(f, state, value)]
  PROVE  Lands(f, voice.cached, voice.inflight, state, value)
<1>1. voice \in VoiceType
  BY VoiceFacts
<1>2. PICK flights : flights = Land(f, state, value)
  OBVIOUS
<1>3. voice' = [voice EXCEPT !.cached = voice.cached, !.inflight = voice.inflight,
                             !.flights = flights]
  BY <1>1, <1>2 DEF VoiceType
<1> QED
  BY <1>2, <1>3 DEF Lands, Land

\* Who waits for another flight than the one that lands still waits for a leader.
LEMMA FollowersStay ==
  ASSUME IInv, NEW h \in Hosts, NEW n, Moves(h, n), n.at # "follow",
         NEW f, host[h].flight = f,
         \A g \in 1..Len(voice.flights) :
            g # f => voice'.flights[g].state = voice.flights[g].state,
         voice'.flights[f].state # "pending"
  PROVE  FollowersAreLed'
<1>1. /\ host'[h] = n
      /\ \A g \in Hosts \ {h} : host'[g] = host[g]
  BY MovesAt DEF IInv
<1>2. ASSUME NEW g \in Hosts, host'[g].at = "follow",
             voice'.flights[host'[g].flight].state = "pending"
      PROVE  \E leader \in Hosts : /\ host'[leader].at \in {"lead", "publish", "resolve", "fail"}
                                   /\ host'[leader].flight = host'[g].flight
  <2>1. g # h /\ host'[g] = host[g] /\ host[g].at = "follow" /\ host[g].flight # f
    BY <1>1, <1>2
  <2>2. host[g].flight \in 1..Len(voice.flights)
    BY <2>1, HostFacts, VoiceFacts DEF IInv, Flights, Leads
  <2>3. voice.flights[host[g].flight].state = "pending"
    BY <1>2, <2>1, <2>2
  <2>4. PICK leader \in Hosts : /\ host[leader].at \in {"lead", "publish", "resolve", "fail"}
                                /\ host[leader].flight = host[g].flight
    BY <2>1, <2>3 DEF IInv, Flights, FollowersAreLed, At
  <2> QED
    BY <1>1, <2>1, <2>4
<1> QED
  BY <1>2 DEF FollowersAreLed, At

LEMMA ResolveKeeps ==
  ASSUME IInv, NEW h \in Hosts, Resolve(h) PROVE IInv'
<1> DEFINE x == host[h]
<1>0. PICK f : f = x.flight
  OBVIOUS
<1>1. /\ x.at = "resolve" /\ x \in HostState /\ Knows(x) /\ UNCHANGED <<world, Store, guard>>
      /\ host' = [host EXCEPT ![h].at = "judge", ![h].flight = 0]
  BY HostFacts DEF Resolve, At
<1>2. /\ f \in 1..Len(voice.flights) /\ State(f) = "pending"
      /\ Value(f) = x.signals /\ x.signals # None /\ x.signals \in Inferences \cup {None, {}}
      /\ \A g \in Hosts \ {h} : host[g].at \in Leading \cup {"pop"} => host[g].flight # f
  BY <1>0, <1>1, LeaderAlone DEF IInv, Flights, Leads, Leading, HostState
<1>3. voice.inflight # f
  BY <1>0, <1>1, <1>2 DEF IInv, Flights, AirIsLed, InFlight, Leading
<1>4. /\ voice' \in VoiceType /\ voice'.cached = voice.cached /\ voice'.inflight = voice.inflight
      /\ voice'.drops = voice.drops /\ Len(voice'.flights) = Len(voice.flights)
      /\ {voice'.cached, voice'.inflight} \subseteq 0..Len(voice'.flights)
      /\ State(f)' = "value" /\ Value(f)' = x.signals
      /\ \A g \in 1..Len(voice.flights) : g # f => State(g)' = State(g) /\ Value(g)' = Value(g)
      /\ ValuesStay
  <2>1. Lands(f, voice.cached, voice.inflight, "value", x.signals)
    BY <1>0, LandOnly DEF Resolve
  <2>2. PICK value \in Inferences \cup {None, {}} : value = x.signals
    BY <1>2
  <2>3. PICK c \in 0..Len(voice.flights), i \in 0..Len(voice.flights) :
          c = voice.cached /\ i = voice.inflight
    BY VoiceFacts
  <2> QED
    BY <1>2, <2>1, <2>2, <2>3, LandFacts
<1>5. PICK n : n = [x EXCEPT !.at = "judge", !.flight = 0]
  OBVIOUS
<1>6. /\ n \in HostState /\ n.at = "judge" /\ n.signals = x.signals /\ n.mode = x.mode
      /\ n.number = x.number
      /\ n.version = x.version /\ n.reason = x.reason /\ n.compact = x.compact
      /\ n.flight = 0 /\ n.recorded = x.recorded /\ n.outcome = x.outcome
  BY <1>1, <1>5 DEF HostState, Stages
<1>7. Moves(h, n)
  BY <1>1, <1>5, <1>6 DEF Moves, IInv, Shape
<1>8. Found(x.signals) /\ x.signals \in Inferences \cup {{}}
  BY <1>2 DEF Found, Value
<1>9. Knows(n)
  BY <1>1, <1>6, <1>8 DEF Knows, Addressed, Excused, Deliberated, Resting, Heard, Borne, Calling,
     Stages, Deliberating, Replying, Reviewing, Offering
<1>10. /\ host'[h] = n
       /\ \A g \in Hosts \ {h} : host'[g] = host[g]
  BY <1>7, MovesAt DEF IInv
<1>11. Flights'
  <2>1. ASSUME NEW g \in Hosts PROVE Leads(g)'
    <3>1. CASE g = h
      BY <1>6, <1>10, <3>1 DEF Leads, Leading
    <3>2. CASE g # h
      <4>1. Leads(g) /\ host[g].flight \in 0..Len(voice.flights) /\ Len(voice.flights) \in Nat
        BY HostFacts, VoiceFacts DEF IInv, Flights
      <4> QED
        BY <1>2, <1>4, <1>10, <3>2, <4>1 DEF Leads, Leading
    <3> QED
      BY <3>1, <3>2
  <2>2. LeadersDiffer'
    BY <1>6, <1>10 DEF IInv, Flights, LeadersDiffer, Leading
  <2>3. InFlight' = InFlight
    BY <1>3, <1>4, VoiceFacts DEF InFlight
  <2>4. AirIsLed'
    BY <1>1, <1>4, <1>10, <2>3 DEF IInv, Flights, AirIsLed
  <2>7. Landings'
    <3>1. \A g \in 1..Len(voice.flights) :
             Value(g)' = Value(g) /\ (g # f => State(g)' = State(g))
      BY <1>2, <1>4
    <3> QED
      BY <1>2, <1>3, <1>4, <3>1, VoiceFacts DEF IInv, Flights, Landings
  <2>5. FollowersAreLed'
    BY <1>0, <1>4, <1>6, <1>7, FollowersStay DEF State
  <2>6. Accounted'
    <3>1. Errors(voice'.flights) = Errors(voice.flights)
      BY <1>2, <1>4 DEF Errors, State
    <3> QED
      BY <1>4, <2>3, <3>1, VoiceFacts, ErrorsAreFinite DEF IInv, Flights, Accounted
  <2> QED
    BY <2>1, <2>2, <2>4, <2>5, <2>6, <2>7 DEF Flights
<1>12. n.flight \in 0..Len(voice'.flights) /\ n.outcome = "refused" => Stale
  BY <1>4, <1>6, VoiceFacts, HostFacts
<1> QED
  BY <1>1, <1>4, <1>6, <1>7, <1>9, <1>11, <1>12, VoiceStep, VoiceFacts, HostFacts

LEMMA FailKeeps ==
  ASSUME IInv, NEW h \in Hosts, Fail(h) PROVE IInv'
<1> DEFINE x == host[h]
<1>0. PICK f : f = x.flight
  OBVIOUS
<1>1. /\ x.at = "fail" /\ x \in HostState /\ Knows(x) /\ UNCHANGED <<world, Store, guard>>
      /\ Goto(h, "pop")
  BY HostFacts DEF Fail, At
<1>2. /\ f \in 1..Len(voice.flights) /\ State(f) = "pending" /\ Value(f) = None
      /\ voice.inflight = f /\ voice.cached = 0
      /\ \A g \in Hosts \ {h} : host[g].at \in Leading \cup {"pop"} => host[g].flight # f
  BY <1>0, <1>1, LeaderAlone DEF IInv, Flights, Leads, Landings, Leading
<1>3. /\ voice' \in VoiceType /\ voice'.cached = 0 /\ voice'.inflight = f
      /\ voice'.drops = voice.drops /\ Len(voice'.flights) = Len(voice.flights)
      /\ {voice'.cached, voice'.inflight} \subseteq 0..Len(voice'.flights)
      /\ State(f)' = "error" /\ Value(f)' = None
      /\ \A g \in 1..Len(voice.flights) : g # f => State(g)' = State(g) /\ Value(g)' = Value(g)
      /\ ValuesStay
  <2>1. Lands(f, voice.cached, voice.inflight, "error", None)
    BY <1>0, LandOnly DEF Fail
  <2>2. PICK value \in Inferences \cup {None, {}} : value = None
    OBVIOUS
  <2>3. PICK c \in 0..Len(voice.flights), i \in 0..Len(voice.flights) :
          c = voice.cached /\ i = voice.inflight
    BY VoiceFacts
  <2> QED
    BY <1>2, <2>1, <2>2, <2>3, LandFacts
<1>4. PICK n : n = [x EXCEPT !.at = "pop"]
  OBVIOUS
<1>5. /\ n \in HostState /\ n.at = "pop" /\ n.mode = x.mode /\ n.number = x.number
      /\ n.version = x.version /\ n.reason = x.reason /\ n.compact = x.compact
      /\ n.flight = f /\ n.recorded = x.recorded /\ n.outcome = x.outcome
  BY <1>0, <1>1, <1>4 DEF HostState, Stages
<1>6. Moves(h, n)
  BY <1>1, <1>4, <1>5 DEF Goto, Moves, IInv, Shape
<1>7. Knows(n)
  BY <1>1, <1>5 DEF Knows, Addressed, Excused, Deliberated, Resting, Heard, Borne, Calling,
     Stages, Deliberating, Replying, Reviewing, Offering
<1>8. /\ host'[h] = n
      /\ \A g \in Hosts \ {h} : host'[g] = host[g]
  BY <1>6, MovesAt DEF IInv
<1>9. Flights'
  <2>1. ASSUME NEW g \in Hosts PROVE Leads(g)'
    <3>1. CASE g = h
      BY <1>2, <1>3, <1>5, <1>8, <3>1 DEF Leads, Leading
    <3>2. CASE g # h
      <4>1. Leads(g) /\ host[g].flight \in 0..Len(voice.flights) /\ Len(voice.flights) \in Nat
        BY HostFacts, VoiceFacts DEF IInv, Flights
      <4> QED
        BY <1>2, <1>3, <1>8, <3>2, <4>1 DEF Leads, Leading
    <3> QED
      BY <3>1, <3>2
  <2>2. LeadersDiffer'
    BY <1>2, <1>5, <1>8 DEF IInv, Flights, LeadersDiffer, Leading
  <2>3. InFlight /\ ~InFlight'
    BY <1>2, <1>3, VoiceFacts DEF InFlight
  <2>4. AirIsLed'
    BY <2>3 DEF AirIsLed
  <2>5. Landings'
    <3>1. \A g \in 1..Len(voice.flights) :
             Value(g)' = Value(g) /\ (g # f => State(g)' = State(g))
      BY <1>2, <1>3
    <3> QED
      BY <1>2, <1>3, <3>1, VoiceFacts DEF IInv, Flights, Landings
  <2>6. FollowersAreLed'
    BY <1>0, <1>3, <1>5, <1>6, FollowersStay DEF State
  <2>7. Accounted'
    <3>1. Errors(voice'.flights) = Errors(voice.flights) \cup {f} /\ f \notin Errors(voice.flights)
      BY <1>2, <1>3 DEF Errors, State
    <3>2. Cardinality(Errors(voice'.flights)) = Cardinality(Errors(voice.flights)) + 1
      BY <3>1, VoiceFacts, ErrorsAreFinite, FS_AddElement
    <3> QED
      BY <1>2, <1>3, <2>3, <3>2, VoiceFacts, ErrorsAreFinite DEF IInv, Flights, Accounted
  <2> QED
    BY <2>1, <2>2, <2>4, <2>5, <2>6, <2>7 DEF Flights
<1>10. n.flight \in 0..Len(voice'.flights) /\ (n.outcome = "refused" => Stale)
  BY <1>2, <1>3, <1>5, HostFacts
<1> QED
  BY <1>1, <1>3, <1>5, <1>6, <1>7, <1>9, <1>10, VoiceStep, HostFacts

LEMMA PopKeeps ==
  ASSUME IInv, NEW h \in Hosts, Pop(h) PROVE IInv'
<1> DEFINE x == host[h]
<1>0. PICK f : f = x.flight
  OBVIOUS
<1>1. /\ x.at = "pop" /\ x \in HostState /\ Knows(x) /\ UNCHANGED <<world, Store>>
      /\ Unreviewed(h, "continuity_evaluation_failed")
      /\ voice' = [voice EXCEPT !.inflight = 0]
  BY HostFacts DEF Pop, At
<1>2. /\ f \in 1..Len(voice.flights) /\ State(f) = "error" /\ voice.inflight = f
      /\ \A g \in Hosts \ {h} : host[g].at \notin {"lead", "publish", "fail", "pop"}
  BY <1>0, <1>1, LeaderAlone DEF IInv, Flights, Leads, Leading
<1>3. x.mode \in {"off", "compact", "activate"}
  BY <1>1 DEF Knows, Addressed, Reviewing
<1>4. PICK n : Rests(h, n) /\ n.at \in {"idle", "record"}
  BY <1>1, <1>3, UnreviewedRests DEF Reasons, Codes
<1>5. /\ voice' \in VoiceType /\ voice'.cached = voice.cached /\ voice'.inflight = 0
      /\ voice'.drops = voice.drops /\ voice'.flights = voice.flights /\ ValuesStay
  <2>1. voice' = [cached |-> voice.cached, inflight |-> 0, flights |-> voice.flights,
                  drops |-> voice.drops]
    BY <1>1, VoiceFacts DEF VoiceType
  <2> QED
    BY <2>1, VoiceFacts DEF VoiceType, ValuesStay, Value
<1>6. /\ host'[h] = n
      /\ \A g \in Hosts \ {h} : host'[g] = host[g]
  BY <1>4, MovesAt DEF IInv, Rests
<1>7. Flights'
  <2>1. ASSUME NEW g \in Hosts PROVE Leads(g)'
    <3>1. CASE g = h
      BY <1>4, <1>6, <3>1 DEF Leads, Leading
    <3>2. CASE g # h
      <4>1. Leads(g)
        BY DEF IInv, Flights
      <4> QED
        BY <1>2, <1>5, <1>6, <3>2, <4>1 DEF Leads, Leading, State, Value
    <3> QED
      BY <3>1, <3>2
  <2>2. LeadersDiffer'
    BY <1>4, <1>6 DEF IInv, Flights, LeadersDiffer, Leading
  <2>3. ~InFlight /\ ~InFlight'
    BY <1>2, <1>5 DEF InFlight
  <2>4. AirIsLed'
    BY <2>3 DEF AirIsLed
  <2>5. Landings' /\ Accounted'
    BY <1>5, <2>3 DEF IInv, Flights, Landings, Accounted, State, Value
  <2>6. FollowersAreLed'
    BY <1>1, <1>4, <1>5, <1>6 DEF IInv, Flights, FollowersAreLed, At
  <2> QED
    BY <2>1, <2>2, <2>4, <2>5, <2>6 DEF Flights
<1>8. {voice'.cached, voice'.inflight} \subseteq 0..Len(voice'.flights)
  BY <1>5, VoiceFacts
<1> QED
  BY <1>1, <1>4, <1>5, <1>7, <1>8, VoiceStep DEF Rests

\* A thread begins an evaluation of its own.
Takes(h) ==
  /\ voice' = [voice EXCEPT !.flights = Append(@, [state |-> "pending", value |-> None]),
                            !.inflight = Len(voice.flights) + 1]
  /\ host' = [host EXCEPT ![h].at = "lead", ![h].flight = Len(voice.flights) + 1]

LEMMA LookupKeeps ==
  ASSUME IInv, NEW h \in Hosts, host[h].at = "voice", UNCHANGED <<world, Store, guard>>,
         voice.cached = 0, ~Airborne, Takes(h)
  PROVE  IInv'
<1> DEFINE x == host[h]
<1>0. PICK f \in Nat : f = Len(voice.flights) + 1
  BY VoiceFacts
<1>1. x \in HostState /\ Knows(x)
  BY HostFacts
<1>2. PICK flights : flights = Append(voice.flights, [state |-> "pending", value |-> None])
  OBVIOUS
<1>3. [state |-> "pending", value |-> None] \in Flight
  BY DEF Flight
<1>4. /\ flights \in Seq(Flight) /\ Len(flights) = f
      /\ flights[f] = [state |-> "pending", value |-> None]
      /\ \A g \in 1..Len(voice.flights) : flights[g] = voice.flights[g]
  BY <1>0, <1>2, <1>3, VoiceFacts
<1>5. voice' = [cached |-> 0, inflight |-> f, flights |-> flights, drops |-> voice.drops]
  <2>1. voice \in VoiceType
    BY VoiceFacts
  <2>2. voice' = [voice EXCEPT !.flights = flights, !.inflight = f]
    BY <1>0, <1>2 DEF Takes
  <2> QED
    BY <2>1, <2>2 DEF VoiceType
<1>6. /\ voice' \in VoiceType /\ {voice'.cached, voice'.inflight} \subseteq 0..Len(voice'.flights)
      /\ State(f)' = "pending" /\ Value(f)' = None
      /\ \A g \in 1..Len(voice.flights) : State(g)' = State(g) /\ Value(g)' = Value(g)
      /\ ValuesStay
  <2>1. voice' \in VoiceType
    BY <1>4, <1>5, VoiceFacts DEF VoiceType
  <2>2. /\ State(f)' = "pending" /\ Value(f)' = None
        /\ \A g \in 1..Len(voice.flights) : State(g)' = State(g) /\ Value(g)' = Value(g)
    <3>1. voice'.flights = flights
      BY <1>5
    <3>2. flights[f].state = "pending" /\ flights[f].value = None
      BY <1>4
    <3> QED
      BY <1>4, <3>1, <3>2 DEF State, Value
  <2>3. {voice'.cached, voice'.inflight} \subseteq 0..Len(voice'.flights)
    BY <1>0, <1>4, <1>5
  <2>4. Len(voice.flights) <= Len(voice'.flights)
    BY <1>0, <1>4, <1>5, VoiceFacts
  <2>5. ValuesStay
    BY <2>2, <2>4 DEF ValuesStay
  <2> QED
    BY <2>1, <2>2, <2>3, <2>5
<1>7. PICK n : n = [x EXCEPT !.at = "lead", !.flight = f]
  OBVIOUS
<1>8. /\ n \in HostState /\ n.at = "lead" /\ n.mode = x.mode /\ n.number = x.number
      /\ n.version = x.version /\ n.reason = x.reason /\ n.compact = x.compact
      /\ n.flight = f /\ n.recorded = x.recorded /\ n.outcome = x.outcome
  BY <1>1, <1>7 DEF HostState, Stages
<1>9. Moves(h, n)
  BY <1>0, <1>1, <1>7, <1>8 DEF Takes, Moves, IInv, Shape
<1>10. Knows(n)
  BY <1>1, <1>8 DEF Knows, Addressed, Excused, Deliberated, Resting, Heard, Borne, Calling,
     Stages, Deliberating, Replying, Reviewing, Offering
<1>11. /\ host'[h] = n
       /\ \A g \in Hosts \ {h} : host'[g] = host[g]
  BY <1>9, MovesAt DEF IInv
<1>12. \A g \in Hosts \ {h} : /\ host[g].flight \in 0..Len(voice.flights) /\ host[g].flight # f
                              /\ host[g].at \notin {"lead", "publish", "fail", "pop"}
  <2>1. ASSUME NEW g \in Hosts \ {h} PROVE host[g].at \notin {"lead", "publish", "fail", "pop"}
    BY DEF IInv, Flights, Leads, Leading, Airborne
  <2>2. ASSUME NEW g \in Hosts PROVE host[g].flight \in 0..Len(voice.flights)
    BY HostFacts
  <2> QED
    BY <1>0, <2>1, <2>2, VoiceFacts
<1>13. Flights'
  <2>1. ASSUME NEW g \in Hosts PROVE Leads(g)'
    <3>1. CASE g = h
      BY <1>0, <1>5, <1>6, <1>8, <1>11, <3>1, VoiceFacts DEF Leads, Leading
    <3>2. CASE g # h
      <4>1. Leads(g)
        BY DEF IInv, Flights
      <4>2. PICK e \in 0..Len(voice.flights) : e = host[g].flight
        BY <1>12, <3>2
      <4>3. e # 0 => State(e)' = State(e) /\ Value(e)' = Value(e)
        BY <1>6, VoiceFacts
      <4>4. host'[g] = host[g] /\ host[g].at \notin {"lead", "publish", "fail", "pop"}
        BY <1>11, <1>12, <3>2
      <4> QED
        BY <4>1, <4>2, <4>3, <4>4 DEF Leads, Leading, State, Value
    <3> QED
      BY <3>1, <3>2
  <2>2. LeadersDiffer'
    <3>1. \A g \in Hosts \ {h} : host'[g].flight # host'[h].flight
      BY <1>8, <1>11, <1>12
    <3>2. \A g, k \in Hosts \ {h} :
            host'[g].at \in Leading \cup {"pop"} /\ host'[k].at \in Leading \cup {"pop"}
              /\ host'[g].flight = host'[k].flight => g = k
      BY <1>11 DEF IInv, Flights, LeadersDiffer
    <3> QED
      BY <3>1, <3>2 DEF LeadersDiffer
  <2>3. ~InFlight /\ InFlight'
    BY <1>0, <1>5, <1>6, VoiceFacts DEF InFlight, Airborne
  <2>4. AirIsLed'
    <3>1. host'[h].at = "lead" /\ host'[h].flight = voice'.inflight
      BY <1>5, <1>8, <1>11
    <3> QED
      BY <3>1 DEF AirIsLed
  <2>5. Landings'
    BY <1>0, <1>4, <1>5, <1>6, VoiceFacts DEF IInv, Flights, Landings
  <2>6. FollowersAreLed'
    <3>1. ASSUME NEW g \in Hosts, host'[g].at = "follow",
                 voice'.flights[host'[g].flight].state = "pending"
          PROVE  \E leader \in Hosts : /\ host'[leader].at \in {"lead", "publish", "resolve", "fail"}
                                       /\ host'[leader].flight = host'[g].flight
      <4>1. g # h /\ host'[g] = host[g] /\ host[g].at = "follow"
        BY <1>8, <1>11, <3>1
      <4>2. host[g].flight \in 1..Len(voice.flights)
        BY <4>1, HostFacts, VoiceFacts DEF IInv, Flights, Leads
      <4>3. voice.flights[host[g].flight].state = "pending"
        BY <1>4, <1>5, <3>1, <4>1, <4>2
      <4>4. PICK leader \in Hosts : /\ host[leader].at \in {"lead", "publish", "resolve", "fail"}
                                    /\ host[leader].flight = host[g].flight
        BY <4>1, <4>3 DEF IInv, Flights, FollowersAreLed, At
      <4> QED
        BY <1>11, <4>1, <4>4
    <3> QED
      BY <3>1 DEF FollowersAreLed, At
  <2>7. Accounted'
    <3>1. Errors(voice'.flights) = Errors(voice.flights)
      <4>1. \A g \in 1..f : voice'.flights[g].state = "error" <=>
                              g \in 1..Len(voice.flights) /\ voice.flights[g].state = "error"
        BY <1>0, <1>4, <1>5, VoiceFacts
      <4> QED
        BY <1>0, <1>4, <1>5, <4>1, VoiceFacts DEF Errors
    <3> QED
      BY <1>0, <1>4, <1>5, <2>3, <3>1, VoiceFacts, ErrorsAreFinite DEF IInv, Flights, Accounted
  <2> QED
    BY <2>1, <2>2, <2>4, <2>5, <2>6, <2>7 DEF Flights
<1>14. n.flight \in 0..Len(voice'.flights) /\ (n.outcome = "refused" => Stale)
  BY <1>0, <1>4, <1>5, <1>8, HostFacts
<1> QED
  BY <1>6, <1>9, <1>10, <1>13, <1>14, VoiceStep, HostFacts

LEMMA ActivateKeeps ==
  ASSUME IInv, NEW h \in Hosts, Activate(h) PROVE IInv'
<1> DEFINE x == host[h]
<1>1. /\ x.at = "voice" /\ x \in HostState /\ Knows(x) /\ UNCHANGED <<world, Store>>
      /\ x.mode \in {"off", "compact", "activate"}
  BY HostFacts DEF Activate, At, Knows, Addressed, Reviewing
<1>2. CASE Unreviewed(h, "continuity_evaluation_failed") /\ UNCHANGED voice
  <2>1. \E n : Rests(h, n)
    BY <1>1, <1>2, UnreviewedRests DEF Reasons, Codes
  <2> QED
    BY <1>1, <1>2, <2>1, RestStep DEF Quiet, Leading
<1>3. ASSUME NEW S \in Inferences \cup {{}}, Found(S), UNCHANGED <<guard, voice>>,
             host' = [host EXCEPT ![h].at = "judge", ![h].signals = S]
      PROVE  IInv'
  <2>1. host' = [host EXCEPT ![h].at = "judge", ![h].signals = S, ![h].flight = x.flight]
    <3>1. [x EXCEPT !.at = "judge", !.signals = S]
            = [x EXCEPT !.at = "judge", !.signals = S, !.flight = x.flight]
      BY <1>1 DEF HostState
    <3> QED
      BY <1>3, <3>1
  <2>2. PICK f \in 0..Len(voice.flights) : f = x.flight
    BY HostFacts
  <2>3. \E n : Rests(h, n)
    BY <1>1, <1>3, <2>1, <2>2, HeardRests
  <2> QED
    BY <1>1, <1>3, <2>3, RestStep DEF Quiet, Leading
<1>4. CASE Lookup(h) /\ UNCHANGED guard
  <2>1. CASE /\ voice.cached # 0 /\ UNCHANGED voice
             /\ host' = [host EXCEPT ![h].at = "judge",
                                     ![h].signals = voice.flights[voice.cached].value]
    <3>1. voice.cached \in 1..Len(voice.flights) /\ voice.flights[voice.cached].value # None
      BY <2>1, VoiceFacts DEF IInv, Flights, Landings, Value
    <3>2. PICK S : S = voice.flights[voice.cached].value
      OBVIOUS
    <3>3. Found(S) /\ S \in Inferences \cup {{}}
      BY <3>1, <3>2, VoiceFacts DEF Found, Flight
    <3> QED
      BY <1>3, <1>4, <2>1, <3>2, <3>3
  <2>2. CASE /\ voice.cached = 0 /\ Airborne /\ UNCHANGED voice
             /\ host' = [host EXCEPT ![h].at = "follow", ![h].flight = voice.inflight]
    <3>1. PICK n : n = [x EXCEPT !.at = "follow", !.flight = voice.inflight]
      OBVIOUS
    <3>2. voice.inflight \in Nat
      BY VoiceFacts
    <3>3. /\ n \in HostState /\ n.at = "follow" /\ n.mode = x.mode /\ n.number = x.number
          /\ n.version = x.version /\ n.reason = x.reason /\ n.compact = x.compact
          /\ n.flight = voice.inflight /\ n.recorded = x.recorded /\ n.outcome = x.outcome
      BY <1>1, <3>1, <3>2 DEF HostState, Stages
    <3>4. Moves(h, n)
      BY <1>1, <2>2, <3>1, <3>3 DEF Moves, IInv, Shape
    <3>5. Knows(n)
      BY <1>1, <3>3 DEF Knows, Addressed, Excused, Deliberated, Resting, Heard, Borne, Calling,
         Stages, Deliberating, Replying, Reviewing, Offering
    <3>6. Rests(h, n)
      BY <1>4, <2>2, <3>3, <3>4, <3>5, HostFacts, VoiceFacts DEF Rests, Leading, Airborne
    <3> QED
      BY <1>1, <2>2, <3>6, RestStep DEF Quiet, Leading
  <2> QED
    BY <1>1, <1>4, <2>1, <2>2, LookupKeeps DEF Lookup, Takes
<1>5. Found({}) /\ {} \in Inferences \cup {{}}
  BY DEF Found
<1> QED
  BY <1>1, <1>2, <1>3, <1>4, <1>5 DEF Activate

LEMMA RestartKeeps ==
  ASSUME IInv, Restart PROVE IInv'
<1>1. /\ UNCHANGED <<world, turn, attempts, now>> /\ host' = [h \in Hosts |-> Idle] /\ guard' = None
      /\ voice' = [voice EXCEPT !.cached = 0, !.inflight = 0,
                                !.drops = @ + IF voice.cached # 0 \/ Airborne THEN 1 ELSE 0]
  BY DEF Restart
<1>2. PICK more \in Nat : more = IF voice.cached # 0 \/ Airborne THEN 1 ELSE 0
  OBVIOUS
<1>3. /\ voice' = [voice EXCEPT !.cached = 0, !.inflight = 0, !.drops = voice.drops + more]
      /\ voice \in VoiceType
  BY <1>1, <1>2, VoiceFacts
<1>4. /\ voice' \in VoiceType /\ voice'.cached = 0 /\ voice'.inflight = 0
      /\ voice'.flights = voice.flights /\ voice'.drops = voice.drops + more
  <2>1. PICK drops : drops = voice.drops + more
    OBVIOUS
  <2>2. voice' = [cached |-> 0, inflight |-> 0, flights |-> voice.flights, drops |-> drops]
    BY <1>3, <2>1 DEF VoiceType
  <2>3. drops \in Nat
    BY <1>2, <2>1, VoiceFacts
  <2> QED
    BY <2>1, <2>2, <2>3, VoiceFacts DEF VoiceType
<1>5. PICK i : i = Over(None)
  OBVIOUS
<1>6. Idle = i
  BY <1>5 DEF Over, Idle
<1>7. /\ i \in HostState /\ i.at = "idle" /\ i.flight = 0 /\ i.compact = None
      /\ i.outcome = None
  BY <1>5, <1>6, OverType DEF Idle
<1>8. \A g \in Hosts : host'[g] = i
  BY <1>1, <1>6
<1>9. Knows(i)'
  BY <1>7 DEF Knows, Addressed, Excused, Deliberated, Resting, Heard, Borne, Calling,
     Deliberating, Stages, Replying, Reviewing, Offering
<1>10. (\A g \in Hosts : Knows(host[g]) /\ (host[g].outcome = "refused" => Stale))'
  BY <1>7, <1>8, <1>9, ReplyAssumption
<1>11. Shape'
  <2>1. host' \in [Hosts -> HostState]
    BY <1>1, <1>6, <1>7
  <2>2. \A h \in Hosts : host'[h].flight \in 0..Len(voice'.flights)
    BY <1>4, <1>7, <1>8, VoiceFacts
  <2>3. {voice'.cached, voice'.inflight} \subseteq 0..Len(voice'.flights)
    BY <1>4, VoiceFacts
  <2> QED
    BY <1>1, <1>4, <2>1, <2>2, <2>3 DEF IInv, Shape, VoiceType
<1>12. Steady /\ Len(now.journal) <= Len(now'.journal)
  <2>1. ValuesStay
    BY <1>4, VoiceFacts DEF ValuesStay, Value
  <2> QED
    BY <1>1, <2>1 DEF Steady, AttemptsStay, Frozen, IInv, Shape
<1>13. Sealed'
  BY <1>1, <1>11, <1>12, SealedStays
<1>14. Flights'
  <2>1. (\A g \in Hosts : Leads(g))' /\ LeadersDiffer' /\ FollowersAreLed'
    BY <1>7, <1>8 DEF Leads, LeadersDiffer, FollowersAreLed, Leading, At
  <2>2. AirIsLed' /\ ~InFlight'
    BY <1>4 DEF AirIsLed, InFlight
  <2>3. Landings'
    BY <1>4 DEF IInv, Flights, Landings, State, Value
  <2>4. Accounted'
    <3>1. (IF voice.cached # 0 \/ InFlight THEN 1 ELSE 0) <= more
      BY <1>2 DEF Airborne, InFlight
    <3>2. (IF voice.cached # 0 \/ InFlight THEN 1 ELSE 0) \in Nat
      OBVIOUS
    <3> QED
      BY <1>4, <2>2, <3>1, <3>2, VoiceFacts, ErrorsAreFinite DEF IInv, Flights, Accounted
  <2> QED
    BY <2>1, <2>2, <2>3, <2>4 DEF Flights
<1> QED
  BY <1>10, <1>11, <1>13, <1>14 DEF IInv

-----------------------------------------------------------------------------
(* The invariant *)

LEMMA InitIsIInv == Init => IInv
<1> SUFFICES ASSUME Init PROVE IInv
  OBVIOUS
<1>1. PICK i : i = Over(None)
  OBVIOUS
<1>2. Idle = i
  BY <1>1 DEF Over, Idle
<1>3. /\ i \in HostState /\ i.at = "idle" /\ i.flight = 0 /\ i.compact = None
      /\ i.outcome = None
  BY <1>1, <1>2, OverType DEF Idle
<1>4. \A g \in Hosts : host[g] = i
  BY <1>2 DEF Init
<1>5. Knows(i)
  BY <1>3 DEF Knows, Addressed, Excused, Deliberated, Resting, Heard, Borne, Calling,
     Deliberating, Stages, Replying, Reviewing, Offering
<1>6. \A g \in Hosts : Knows(host[g]) /\ (host[g].outcome = "refused" => Stale)
  BY <1>3, <1>4, <1>5, ReplyAssumption
<1>7. /\ voice.cached = 0 /\ voice.inflight = 0 /\ voice.flights = << >> /\ voice.drops = 0
      /\ Len(voice.flights) = 0 /\ voice.flights \in Seq(Flight)
  BY DEF Init
<1>8. /\ world \in Worlds /\ world.journal \in Seq(Changes) /\ now.journal = world.journal
      /\ world.opened <= Len(now.journal)
  BY ReplyAssumption DEF Init
<1>9. Shape
  <2>1. turn \in [status: {"open", "completed", "abandoned"}, version: Nat, reply: Reply0 \cup {None}]
    BY DEF Init
  <2>2. now \in [approved: BOOLEAN, memory: BOOLEAN, journal: Seq(Changes)]
    BY <1>8 DEF Init
  <2>3. voice \in [cached: Nat, inflight: Nat, flights: Seq(Flight), drops: Nat]
    BY <1>7 DEF Init
  <2>4. host \in [Hosts -> HostState]
    BY <1>2, <1>3 DEF Init
  <2>5. \A h \in Hosts : host[h].flight \in 0..Len(voice.flights)
    BY <1>3, <1>4, <1>7
  <2>6. attempts \in [Numbers -> {None} \cup Failures] /\ guard \in Hosts \cup {None}
    BY DEF Init
  <2> QED
    BY <1>7, <1>8, <2>1, <2>2, <2>3, <2>4, <2>5, <2>6 DEF Shape
<1>10. Sealed
  BY <1>8 DEF Init, Sealed
<1>11. Flights
  <2>1. (\A g \in Hosts : Leads(g)) /\ LeadersDiffer /\ FollowersAreLed
    BY <1>3, <1>4 DEF Leads, LeadersDiffer, FollowersAreLed, Leading, At
  <2>2. AirIsLed /\ ~InFlight /\ Landings
    BY <1>7 DEF AirIsLed, InFlight, Landings
  <2>3. Accounted
    BY <1>7, <2>2, ErrorsAreFinite DEF Accounted
  <2> QED
    BY <2>1, <2>2, <2>3 DEF Flights
<1> QED
  BY <1>6, <1>9, <1>10, <1>11 DEF IInv

LEMMA StepKeeps ==
  ASSUME IInv, NEW h \in Hosts, Step(h) PROVE IInv'
BY EnterKeeps, PrepareKeeps, BeforeCallKeeps, AskKeeps, ScanKeeps, VerifyKeeps, RecordKeeps,
   DirectKeeps, ReviewKeeps, ActivateKeeps, InferKeeps, PublishKeeps, ResolveKeeps, FailKeeps,
   PopKeeps, FollowKeeps, JudgeKeeps, CheckKeeps, SealKeeps, TransitionKeeps, AbandonKeeps,
   EvictKeeps
   DEF Step

LEMMA NextKeeps == IInv /\ [Next]_vars => IInv'
<1> SUFFICES ASSUME IInv, [Next]_vars PROVE IInv'
  OBVIOUS
<1>1. ASSUME NEW h \in Hosts, Call(h) \/ Show(h) \/ Discard(h) \/ Step(h) PROVE IInv'
  BY <1>1, CallKeeps, ShowKeeps, DiscardKeeps, StepKeeps
<1>2. CASE Revoke \/ Compact
  BY <1>2, LossKeeps DEF Revoke, Compact
<1>3. CASE RivalEnds \/ AppendEvent \/ Displace \/ Restart
  BY <1>3, RivalEndsKeeps, AppendEventKeeps, DisplaceKeeps, RestartKeeps
<1>4. CASE UNCHANGED vars
  <2>1. Steady /\ (Stale => Stale') /\ Len(now.journal) <= Len(now'.journal)
    BY <1>4 DEF vars, Steady, AttemptsStay, ValuesStay, Value, Frozen, Stale, Open, IInv, Shape
  <2>2. Shape'
    BY <1>4 DEF vars, IInv, Shape
  <2>3. Sealed'
    BY <1>4, <2>1, <2>2, SealedStays DEF vars
  <2> QED
    BY <1>4, <2>1, <2>2, <2>3, OthersStep DEF vars
<1> QED
  BY <1>1, <1>2, <1>3, <1>4 DEF Next, Others

LEMMA SpecKeeps == Spec => []IInv
BY InitIsIInv, NextKeeps, PTL DEF Spec

-----------------------------------------------------------------------------
(* The theorems *)

\* The Turn, its attempts, what a review reads, the threads and the shared
\* inference keep their shapes.
THEOREM ReplyTypes == Spec => []TypeOK
<1>1. ASSUME IInv PROVE TypeOK
  <2>1. ASSUME NEW h \in Hosts PROVE DOMAIN host[h] = DOMAIN Idle
    <3>1. host[h] \in HostState
      BY <1>1, HostFacts
    <3> QED
      BY <3>1 DEF HostState, Idle
  <2>2. Shape
    BY <1>1 DEF IInv
  <2>3. /\ turn.status \in {"open", "completed", "abandoned"} /\ turn.version \in Nat
        /\ now.approved \in BOOLEAN /\ now.memory \in BOOLEAN
    BY <2>2 DEF Shape
  <2> QED
    BY <2>1, <2>2, <2>3 DEF Shape, TypeOK
<1> QED
  BY <1>1, SpecKeeps, PTL

\* A direct reply that stands in for a failed deliberation is offered, and sealed,
\* only with exactly that failure on record under its number (orchestration.py,
\* _record_failure before _prepare_direct).
THEOREM FallbacksAreRecorded == Spec => []FallbackIsRecorded
<1>1. ASSUME IInv PROVE FallbackIsRecorded
  <2>1. ASSUME NEW h \in Hosts, Prepared(h) PROVE Recorded(host[h])
    <3>1. Addressed(host[h]) /\ Excused(host[h])
      BY <1>1, HostFacts DEF Knows
    <3>2. host[h].mode \in {"off", "compact"} /\ host[h].at \in Calling /\ host[h].at # "record"
      BY <2>1, <3>1 DEF Prepared, Addressed, Replying, Calling, Stages
    <3> QED
      BY <3>1, <3>2 DEF Excused, Recorded
  <2>2. ASSUME turn.reply # None PROVE Recorded(turn.reply)
    BY <1>1, <2>2 DEF IInv, Sealed, Answer
  <2> QED
    BY <2>1, <2>2 DEF FallbackIsRecorded
<1> QED
  BY <1>1, SpecKeeps, PTL

\* A shown reply is refused only if its Turn has ended, or an authority or a memory
\* that its review cites is gone (_matches_prepared_turn, validate_binding).
THEOREM RefusalsAreStale == Spec => []RefusedOnlyStale
<1>1. ASSUME IInv PROVE RefusedOnlyStale
  BY <1>1, HostFacts DEF RefusedOnlyStale, Stale
<1> QED
  BY <1>1, SpecKeeps, PTL

\* A sealed reply has findings, a voice and claims that what the kernel knows bears
\* out, whatever evaluators and providers say (continuity.py, security.py).
THEOREM CompletionsAreEarned == Spec => []CompletionIsEarned
<1>1. ASSUME IInv PROVE CompletionIsEarned
  <2>1. ASSUME turn.reply # None PROVE Answer(turn.reply)
    BY <1>1, <2>1 DEF IInv, Sealed
  <2>2. ShownIsContinuous
    BY <2>1 DEF ShownIsContinuous, Answer, Continuous
  <2>3. VoiceIsEarned
    BY <2>1 DEF VoiceIsEarned, Answer, Spoken
  <2>4. CompactIsGrounded
    BY <2>1 DEF CompactIsGrounded, Answer, Scanned, Grounded, References
  <2> QED
    BY <2>2, <2>3, <2>4 DEF CompletionIsEarned
<1> QED
  BY <1>1, SpecKeeps, PTL

\* The emotion evaluator runs once for one input and again only after a failure or
\* after its result was dropped, and whoever waits for it has somebody to wait for
\* (engine.py, _evaluate_interaction_context_cached).
THEOREM EvaluationsAreShared == Spec => []SingleFlight
<1>1. ASSUME IInv PROVE SingleFlight
  <2>1. Len(voice.flights) <= voice.drops + Cardinality(Errors(voice.flights))
                                + (IF voice.cached # 0 \/ InFlight THEN 1 ELSE 0)
    BY <1>1 DEF IInv, Flights, Accounted
  <2>2. Len(voice.flights) <= 1 + voice.drops + Cardinality(Errors(voice.flights))
    BY <1>1, <2>1, VoiceFacts, ErrorsAreFinite
  <2>3. OneEvaluation
    BY <2>2 DEF OneEvaluation, Errors
  <2> QED
    BY <1>1, <2>3 DEF SingleFlight, IInv, Flights
<1> QED
  BY <1>1, SpecKeeps, PTL

\* Nothing that answers late touches a Turn that has ended, or its attempts
\* (append_reply_attempt, transition_turn_record).
THEOREM EndedTurnsRest == Spec => AfterTheEnd
<1>1. ASSUME NEW h \in Hosts, Call(h) \/ Show(h) \/ Discard(h) \/ Step(h), ~Open
      PROVE  UNCHANGED <<turn, attempts>>
  <2>1. CASE Call(h) \/ Show(h) \/ Discard(h)
    BY <2>1 DEF Call, Show, Discard, Store
  <2>2. CASE Record(h)
    BY <1>1, <2>2 DEF Record, AppendAttempt
  <2>3. CASE Transition(h)
    BY <1>1, <2>3 DEF Transition, Matches
  <2>4. CASE Abandon(h)
    BY <1>1, <2>4 DEF Abandon
  <2>5. CASE Enter(h) \/ Prepare(h) \/ BeforeCall(h) \/ Ask(h) \/ Scan(h) \/ Verify(h)
             \/ Direct(h) \/ Review(h) \/ Activate(h) \/ Infer(h) \/ Publish(h)
    BY <2>5 DEF Enter, Prepare, BeforeCall, Ask, Scan, Verify, Direct, Review, Activate, Infer,
       Publish, Store
  <2>6. CASE Resolve(h) \/ Fail(h) \/ Pop(h) \/ Follow(h) \/ Judge(h) \/ Check(h) \/ Seal(h)
             \/ Evict(h)
    BY <2>6 DEF Resolve, Fail, Pop, Follow, Judge, Check, Seal, Evict, Store
  <2> QED
    BY <1>1, <2>1, <2>2, <2>3, <2>4, <2>5, <2>6 DEF Step
<1>2. ASSUME Others, ~Open PROVE UNCHANGED <<turn, attempts>>
  BY <1>2 DEF Others, RivalEnds, Revoke, Compact, AppendEvent, Displace, Restart
<1>3. [Next]_vars => [~Open => UNCHANGED <<turn, attempts>>]_vars
  BY <1>1, <1>2 DEF Next
<1> QED
  BY <1>3, PTL DEF Spec, AfterTheEnd
=============================================================================
