------------------------ MODULE LegacyArchiverProofs ------------------------
(***************************************************************************)
(* Proofs about LegacyArchiver for any number of tasks, nodes, threads,    *)
(* foreground callers and attempts.                                        *)
(***************************************************************************)
EXTENDS LegacyArchiver, TLAPS

-----------------------------------------------------------------------------
(* The inductive invariant. *)

\* On the way to report what became of the task.
Settling == {"complete", "fail", "settle"}

\* Only a thread at work has a task, and only a task is completed or failed.
JobInv ==
  \A w \in Threads :
    /\ thread[w].pc \notin Busy => thread[w].job = Inline
    /\ thread[w].pc \in Settling => thread[w].job \in Tasks

\* A task nothing has happened to has no timeline entry before its thread has
\* passed the append, and a dead-lettered task has failed.
EntryInv ==
  \A t \in Tasks :
    /\ status[t] = "failed" => "failed" \in trouble[t]
    /\ trouble[t] = {} =>
         /\ entries[t] <= 1
         /\ status[t] \in {"absent", "pending"} => entries[t] = 0
         /\ \A w \in Threads :
              Holds(w, t) /\ thread[w].pc \in {"extract", "answered", "timeline"}
                => entries[t] = 0

\* Nobody has worked on a task that is still to be enqueued.
NewInv ==
  \A t \in Tasks :
    status[t] = "absent" => attempts[t] = 0 /\ \A w \in Threads : ~Holds(w, t)

IInv == TypeOK /\ JobInv /\ NewInv /\ ExclusiveClaim /\ RetryBudget /\ EntryInv

-----------------------------------------------------------------------------
(* Facts about the operators. *)

\* The local state of a thread that does nothing.
LEMMA AtFacts ==
  ASSUME NEW pc \in {"down", "off", "idle"} \cup Busy
  PROVE  /\ At(pc) \in Thread
         /\ At(pc).pc = pc /\ At(pc).job = Inline
BY DEF At, Thread, Inline

\* Returning from _process_archival() ends an inline turn and goes on to
\* complete a task; either way the job is kept or given up.
LEMMA ReturnsFacts ==
  ASSUME TypeOK, NEW w \in Threads, Returns(w)
  PROVE  /\ thread' \in [Threads -> Thread]
         /\ \A v \in Threads \ {w} : thread'[v] = thread[v]
         /\ thread[w].job = Inline => thread'[w].pc = "idle" /\ thread'[w].job = Inline
         /\ thread[w].job # Inline =>
              thread'[w].pc = "complete" /\ thread'[w].job = thread[w].job
<1>1. At("idle") \in Thread /\ At("idle").pc = "idle" /\ At("idle").job = Inline
  BY AtFacts
<1>2. ASSUME NEW t \in Tasks \cup {Inline}
      PROVE  LET a == [At("complete") EXCEPT !.job = t] IN
             a \in Thread /\ a.pc = "complete" /\ a.job = t
  BY DEF At, Thread, Busy
<1>3. thread[w] \in Thread /\ thread[w].job \in Tasks \cup {Inline}
  BY DEF TypeOK, Thread
<1>4. CASE thread[w].job = Inline
  <2>1. thread' = [thread EXCEPT ![w] = At("idle")]
    BY <1>4 DEF Returns
  <2>2. QED  BY <1>1, <1>4, <2>1 DEF TypeOK
<1>5. CASE thread[w].job # Inline
  <2>1. thread' = [thread EXCEPT ![w] = [At("complete") EXCEPT !.job = thread[w].job]]
    BY <1>5 DEF Returns
  <2>2. QED  BY <1>2, <1>3, <1>5, <2>1 DEF TypeOK
<1>6. QED  BY <1>4, <1>5

\* save_nodes() of nodes leaves nodes.
LEMMA SavedFacts ==
  ASSUME NEW list \in SUBSET Node, TypeOK
  PROVE  /\ Saved(list) \in SUBSET Node
         /\ \A n \in nodes : n.origin = "archived" => \E m \in Saved(list) : m.id = n.id
BY DEF Saved, TypeOK

\* A fresh memory is a node.
LEMMA MintedFacts ==
  ASSUME TypeOK, minted < MaxNodes, NEW o \in Origins, NEW open \in BOOLEAN
  PROVE  /\ minted + 1 \in 0..MaxNodes
         /\ [id |-> minted + 1, origin |-> o, unresolved |-> open] \in Node
BY BoundsAssumption DEF TypeOK, Node

-----------------------------------------------------------------------------
(* Type correctness. *)

\* The variables have their types initially.
LEMMA InitTypeOK == Init => TypeOK
<1>1. At("down") \in Thread
  BY AtFacts
<1>2. QED  BY <1>1, BoundsAssumption DEF Init, TypeOK, Statuses, Caller, Operations, Many

-----------------------------------------------------------------------------
(* What a step does to the threads.  Only dequeue() gives a thread a task. *)

\* Before the timeline entry is written.
Early == {"extract", "answered", "timeline"}

ThreadsKeep ==
  /\ thread' \in [Threads -> Thread]
  /\ JobInv'
  /\ \A v \in Threads, t \in Tasks :
       Holds(v, t)' => /\ Holds(v, t)
                       /\ thread'[v].pc \in Early => thread[v].pc \in Early

\* A thread that moves on with its task, or without one, takes no other task.
LEMMA MoveFacts ==
  ASSUME TypeOK, JobInv, NEW w \in Threads, NEW r \in Thread,
         thread' = [thread EXCEPT ![w] = r],
         r.pc \notin Busy => r.job = Inline,
         r.pc \in Settling => r.job \in Tasks,
         r.job # Inline => r.job = thread[w].job /\ thread[w].pc \in Busy,
         r.job # Inline /\ r.pc \in Early => thread[w].pc \in Early
  PROVE  ThreadsKeep
<1>1. thread' \in [Threads -> Thread] /\ thread'[w] = r
  BY DEF TypeOK
<1>2. \A v \in Threads : v # w => thread'[v] = thread[v]
  BY DEF TypeOK
<1>3. JobInv'
  BY <1>1, <1>2 DEF JobInv
<1>4. ASSUME NEW v \in Threads, NEW t \in Tasks, Holds(v, t)'
      PROVE  Holds(v, t) /\ (thread'[v].pc \in Early => thread[v].pc \in Early)
  <2>1. CASE v = w
    <3>1. r.job = t /\ t # Inline
      BY <1>1, <1>4, <2>1, BoundsAssumption DEF Holds, Tasks, Inline
    <3>2. QED  BY <1>1, <2>1, <3>1 DEF Holds
  <2>2. CASE v # w
    BY <1>2, <1>4, <2>2 DEF Holds
  <2>3. QED  BY <2>1, <2>2
<1>5. QED  BY <1>1, <1>3, <1>4 DEF ThreadsKeep

\* A thread that becomes idle, stops or dies has no task.
LEMMA RestFacts ==
  ASSUME TypeOK, JobInv, NEW w \in Threads, NEW pc \in {"down", "off", "idle"},
         thread' = [thread EXCEPT ![w] = At(pc)]
  PROVE  ThreadsKeep
<1>1. At(pc) \in Thread /\ At(pc).pc = pc /\ At(pc).job = Inline
  BY AtFacts
<1>2. At(pc).pc \notin Busy /\ At(pc).pc \notin Settling
  BY <1>1 DEF Busy, Settling
<1>3. QED  BY <1>1, <1>2, MoveFacts

\* A thread at work that changes its control state only keeps its task.
LEMMA GoFacts ==
  ASSUME TypeOK, JobInv, NEW w \in Threads, NEW pc \in Busy, NEW found \in BOOLEAN,
         NEW seen \in SUBSET Node,
         thread' = [thread EXCEPT ![w].pc = pc, ![w].found = found, ![w].seen = seen],
         \/ thread[w].pc \in Busy
         \/ thread[w].pc = "idle" /\ pc \in Early,
         pc \in Settling => thread[w].job \in Tasks,
         pc \in Early /\ thread[w].pc \in Busy => thread[w].pc \in Early
  PROVE  ThreadsKeep
<1> DEFINE r == [thread[w] EXCEPT !.pc = pc, !.found = found, !.seen = seen]
<1>1. thread[w] \in Thread
  BY DEF TypeOK
<1>2. r \in Thread /\ r.pc = pc /\ r.job = thread[w].job
  BY <1>1 DEF Thread
<1>3. thread' = [thread EXCEPT ![w] = r]
  OBVIOUS
<1>4. "idle" \notin Busy /\ "complete" \notin Early /\ "fail" \notin Early
  BY DEF Busy, Early
<1>5. thread[w].pc = "idle" => thread[w].job = Inline
  BY <1>4 DEF JobInv
<1>6. QED  BY <1>2, <1>3, <1>4, <1>5, MoveFacts

\* The same when nothing but the control state changes.
LEMMA GoesFacts ==
  ASSUME TypeOK, JobInv, NEW w \in Threads, NEW pc \in Busy, Goes(w, pc),
         \/ thread[w].pc \in Busy
         \/ thread[w].pc = "idle" /\ pc \in Early,
         pc \in Settling => thread[w].job \in Tasks,
         pc \in Early /\ thread[w].pc \in Busy => thread[w].pc \in Early
  PROVE  ThreadsKeep
<1>1. thread[w] \in Thread
  BY DEF TypeOK
<1>2. thread[w].found \in BOOLEAN /\ thread[w].seen \in SUBSET Node
  BY <1>1 DEF Thread
<1>3. [thread[w] EXCEPT !.pc = pc, !.found = thread[w].found, !.seen = thread[w].seen]
        = [thread[w] EXCEPT !.pc = pc]
  BY <1>1 DEF Thread
<1>4. thread' = [thread EXCEPT ![w].pc = pc, ![w].found = thread[w].found,
                               ![w].seen = thread[w].seen]
  BY <1>3 DEF Goes
<1>5. QED  BY <1>2, <1>4, GoFacts

\* A thread that returns from _process_archival() keeps its task or has none.
LEMMA ReturnsKeep ==
  ASSUME TypeOK, JobInv, NEW w \in Threads, Returns(w), thread[w].pc \in Busy
  PROVE  ThreadsKeep
<1>1. At("idle") \in Thread /\ thread[w].job \in Tasks \cup {Inline}
  BY AtFacts DEF TypeOK, Thread
<1>2. CASE thread[w].job = Inline
  BY <1>2, RestFacts DEF Returns
<1>3. CASE thread[w].job # Inline
  <2> DEFINE r == [At("complete") EXCEPT !.job = thread[w].job]
  <2>1. r \in Thread /\ r.pc = "complete" /\ r.job = thread[w].job
    BY <1>1, AtFacts DEF At, Thread, Busy
  <2>2. thread' = [thread EXCEPT ![w] = r]
    BY <1>3 DEF Returns
  <2>3. "complete" \in Busy /\ "complete" \notin Early
    BY DEF Busy, Early
  <2>4. QED  BY <1>1, <1>3, <2>1, <2>2, <2>3, MoveFacts
<1>4. QED  BY <1>2, <1>3

\* Nothing happens to the threads.
LEMMA StillFacts ==
  ASSUME TypeOK, JobInv, UNCHANGED thread
  PROVE  ThreadsKeep
BY DEF ThreadsKeep, TypeOK, JobInv, Holds

\* The steps of a thread at work, but for dequeue().
LEMMA WorkKeeps ==
  ASSUME TypeOK, JobInv, NEW w \in Threads, Works(w), ~Dequeue(w)
  PROVE  ThreadsKeep
<1>1. CASE Generate(w)
  <2>1. "extract" \in Busy /\ "answered" \in Busy /\ "answered" \notin Settling
    BY DEF Busy, Settling
  <2>2. "extract" \in Early
    BY DEF Early
  <2>3. QED  BY <1>1, <2>1, <2>2, GoesFacts DEF Generate
<1>2. CASE Parse(w)
  <2>1. "answered" \in Busy /\ "answered" \in Early
    BY DEF Busy, Early
  <2>2. ASSUME NEW next \in {"timeline", "load"}, NEW found \in BOOLEAN,
               thread' = [thread EXCEPT ![w].pc = next, ![w].found = found]
        PROVE  ThreadsKeep
    <3>1. next \in Busy /\ next \notin Settling
      BY DEF Busy, Settling
    <3>2. thread[w] \in Thread
      BY DEF TypeOK
    <3>3. thread[w].seen \in SUBSET Node
      BY <3>2 DEF Thread
    <3>4. [thread[w] EXCEPT !.pc = next, !.found = found, !.seen = thread[w].seen]
            = [thread[w] EXCEPT !.pc = next, !.found = found]
      BY <3>2 DEF Thread
    <3>5. thread' = [thread EXCEPT ![w].pc = next, ![w].found = found,
                                   ![w].seen = thread[w].seen]
      BY <2>2, <3>4
    <3>6. thread[w].pc = "answered"
      BY <1>2 DEF Parse
    <3>7. QED  BY <2>1, <3>1, <3>3, <3>5, <3>6, GoFacts
  <2>3. QED  BY <1>2, <2>1, <2>2, ReturnsKeep DEF Parse
<1>3. CASE Swallow(w)
  <2>1. thread[w].pc \in Busy
    BY <1>3 DEF Swallow, Busy
  <2>2. QED  BY <1>3, <2>1, ReturnsKeep DEF Swallow
<1>4. CASE AddTimelineEntry(w)
  <2>1. "timeline" \in Busy /\ "load" \in Busy /\ "load" \notin Settling
    BY DEF Busy, Settling
  <2>2. "load" \notin Early
    BY DEF Early
  <2>3. QED  BY <1>4, <2>1, <2>2, GoesFacts DEF AddTimelineEntry
<1>5. CASE LoadNodes(w)
  <2>1. "load" \in Busy /\ "save" \in Busy /\ "save" \notin Settling
    BY DEF Busy, Settling
  <2>2. "save" \notin Early
    BY DEF Early
  <2>3. CASE thread[w].found
    <3>1. thread[w] \in Thread /\ nodes \in SUBSET Node
      BY DEF TypeOK
    <3>2. thread[w].found \in BOOLEAN
      BY <3>1 DEF Thread
    <3>3. [thread[w] EXCEPT !.pc = "save", !.found = thread[w].found, !.seen = nodes]
            = [thread[w] EXCEPT !.pc = "save", !.seen = nodes]
      BY <3>1 DEF Thread
    <3>4. thread' = [thread EXCEPT ![w].pc = "save", ![w].found = thread[w].found,
                                   ![w].seen = nodes]
      BY <1>5, <2>3, <3>3 DEF LoadNodes
    <3>5. thread[w].pc = "load"
      BY <1>5 DEF LoadNodes
    <3>6. QED  BY <2>1, <2>2, <3>1, <3>2, <3>4, <3>5, GoFacts
  <2>4. CASE ~thread[w].found
    BY <1>5, <2>1, <2>4, ReturnsKeep DEF LoadNodes
  <2>5. QED  BY <2>3, <2>4
<1>6. CASE SaveNodes(w)
  <2>1. thread[w].pc \in Busy
    BY <1>6 DEF SaveNodes, Busy
  <2>2. QED  BY <1>6, <2>1, ReturnsKeep DEF SaveNodes
<1>7. CASE Complete(w)
  BY <1>7, RestFacts DEF Complete, Rests
<1>8. CASE CompleteRaises(w)
  <2>1. "complete" \in Busy /\ "fail" \in Busy /\ "fail" \notin Early
    BY DEF Busy, Early
  <2>2. thread[w].pc = "complete" /\ thread[w].job \in Tasks
    BY <1>8 DEF CompleteRaises, JobInv, Settling
  <2>3. QED  BY <1>8, <2>1, <2>2, GoesFacts DEF CompleteRaises
<1>9. CASE FailReads(w)
  <2> DEFINE n == NextAttempt(attempts[thread[w].job])
             r == [thread[w] EXCEPT !.pc = "settle", !.tries = n]
  <2>1. thread[w] \in Thread /\ thread[w].pc = "fail"
    BY <1>9 DEF FailReads, TypeOK
  <2>2. thread[w].job \in Tasks
    BY <2>1 DEF JobInv, Settling
  <2>3. n \in Nat
    BY <2>2, BoundsAssumption DEF TypeOK, NextAttempt
  <2>4. r \in Thread /\ r.pc = "settle" /\ r.job = thread[w].job
    BY <2>1, <2>3 DEF Thread, Busy
  <2>5. thread' = [thread EXCEPT ![w] = r]
    BY <1>9 DEF FailReads
  <2>6. "settle" \in Busy /\ "fail" \in Busy /\ "settle" \notin Early
    BY DEF Busy, Early
  <2> HIDE DEF r
  <2>7. QED  BY <2>1, <2>2, <2>4, <2>5, <2>6, MoveFacts
<1>10. CASE Fail(w)
  BY <1>10, RestFacts DEF Fail, Rests
<1>11. CASE FailRaises(w)
  BY <1>11, RestFacts DEF FailRaises, Rests
<1>12. QED
  BY <1>1, <1>2, <1>3, <1>4, <1>5, <1>6, <1>7, <1>8, <1>9, <1>10, <1>11 DEF Works

\* The steps of the host and of the process.
LEMMA HostKeeps ==
  ASSUME TypeOK, JobInv, NEW w \in Threads,
         \/ Open(w) \/ Crash(w)
         \/ w \in Loops /\ (Start(w) \/ Shutdown(w) \/ LoopEnds(w))
         \/ w \in Hosts /\ ProcessNow(w)
  PROVE  ThreadsKeep
<1>1. thread[w] \in Thread
  BY DEF TypeOK
<1>2. ASSUME NEW pc \in {"off", "idle"}, Goes(w, pc),
             thread[w].pc \in {"off", "idle"}
      PROVE  ThreadsKeep
  <2> DEFINE r == [thread[w] EXCEPT !.pc = pc]
  <2>1. r \in Thread /\ r.pc = pc /\ r.job = thread[w].job
    BY <1>1 DEF Thread
  <2>2. pc \notin Busy /\ pc \notin Settling /\ thread[w].pc \notin Busy
    BY <1>2 DEF Busy, Settling
  <2>3. thread[w].job = Inline
    BY <2>2 DEF JobInv
  <2>4. thread' = [thread EXCEPT ![w] = r]
    BY <1>2 DEF Goes
  <2>5. QED  BY <2>1, <2>2, <2>3, <2>4, MoveFacts
<1>3. CASE Open(w)
  BY <1>3, RestFacts DEF Open
<1>4. CASE Crash(w)
  BY <1>4, RestFacts DEF Crash
<1>5. CASE w \in Loops /\ Start(w)
  <2>1. CASE Alive(w)
    BY <1>5, <2>1, StillFacts DEF Start
  <2>2. CASE ~Alive(w)
    <3>1. thread[w].pc = "off" /\ Goes(w, "idle")
      BY <1>5, <2>2 DEF Start, Alive
    <3>2. QED  BY <1>2, <3>1
  <2>3. QED  BY <2>1, <2>2
<1>6. CASE w \in Loops /\ Shutdown(w)
  BY <1>6, StillFacts DEF Shutdown
<1>7. CASE w \in Loops /\ LoopEnds(w)
  BY <1>2, <1>7 DEF LoopEnds
<1>8. CASE w \in Hosts /\ ProcessNow(w)
  <2>1. "extract" \in Busy /\ "extract" \in Early /\ "extract" \notin Settling
        /\ "idle" \notin Busy
    BY DEF Busy, Early, Settling
  <2>2. thread[w].pc = "idle" /\ Goes(w, "extract")
    BY <1>8 DEF ProcessNow
  <2>3. QED  BY <2>1, <2>2, GoesFacts
<1>9. QED  BY <1>3, <1>4, <1>5, <1>6, <1>7, <1>8

\* Whatever happens, but for dequeue(), no thread takes a task.
LEMMA NextKeeps ==
  ASSUME TypeOK, JobInv, [Next]_vars, \A w \in Threads : ~Dequeue(w)
  PROVE  ThreadsKeep
<1>1. CASE UNCHANGED thread
  BY <1>1, StillFacts
<1>2. ASSUME NEW w \in Threads, Works(w)
      PROVE  ThreadsKeep
  BY <1>2, WorkKeeps
<1>3. ASSUME NEW w \in Threads, Open(w) \/ Crash(w)
      PROVE  ThreadsKeep
  BY <1>3, HostKeeps
<1>4. ASSUME NEW w \in Loops, Start(w) \/ Shutdown(w) \/ LoopEnds(w)
      PROVE  ThreadsKeep
  BY <1>4, HostKeeps DEF Threads
<1>5. ASSUME NEW w \in Hosts, ProcessNow(w)
      PROVE  ThreadsKeep
  BY <1>5, HostKeeps DEF Threads
<1>6. ASSUME NEW t \in Tasks, Enqueue(t) \/ BackoffElapses(t) \/ TimeoutElapses(t)
      PROVE  UNCHANGED thread
  BY <1>6 DEF Enqueue, BackoffElapses, TimeoutElapses
<1>7. RetryFailed \/ Publish => UNCHANGED thread
  BY DEF RetryFailed, Publish
<1>8. ASSUME NEW c \in Callers, CallSteps(c)
      PROVE  UNCHANGED thread
  BY <1>8 DEF CallSteps, CallLoads, RecallSaves, RememberThoughtSaves,
              ResolveThoughtSaves, CallEnds
<1>9. QED
  BY <1>1, <1>2, <1>3, <1>4, <1>5, <1>6, <1>7, <1>8 DEF Next, vars

\* dequeue() gives a pending task to an idle thread.
LEMMA DequeueFacts ==
  ASSUME TypeOK, JobInv, NEW w \in Threads, NEW t \in Tasks,
         thread' = [thread EXCEPT ![w] = [At("extract") EXCEPT !.job = t]],
         thread[w].pc = "idle"
  PROVE  /\ thread' \in [Threads -> Thread]
         /\ JobInv'
         /\ \A v \in Threads, u \in Tasks :
              Holds(v, u)' => \/ Holds(v, u) /\ thread'[v] = thread[v]
                              \/ v = w /\ u = t
<1> DEFINE r == [At("extract") EXCEPT !.job = t]
<1>1. r \in Thread /\ r.pc = "extract" /\ r.job = t
  BY DEF At, Thread, Busy
<1>2. "extract" \in Busy
  BY DEF Busy
<1>3. thread'[w] = r /\ \A v \in Threads : v # w => thread'[v] = thread[v]
  BY DEF TypeOK
<1>4. thread' \in [Threads -> Thread]
  BY <1>1 DEF TypeOK
<1>5. JobInv'
  BY <1>1, <1>2, <1>3 DEF JobInv
<1>6. ASSUME NEW v \in Threads, NEW u \in Tasks, Holds(v, u)'
      PROVE  (Holds(v, u) /\ thread'[v] = thread[v]) \/ (v = w /\ u = t)
  <2>1. CASE v = w
    BY <1>1, <1>3, <1>6, <2>1 DEF Holds
  <2>2. CASE v # w
    BY <1>3, <1>6, <2>2 DEF Holds
  <2>3. QED  BY <2>1, <2>2
<1>7. QED  BY <1>4, <1>5, <1>6

\* A step is a dequeue() by some thread, or no thread takes a task.
LEMMA ThreadsTyped ==
  ASSUME TypeOK, JobInv, [Next]_vars
  PROVE  thread' \in [Threads -> Thread] /\ JobInv'
<1>1. CASE \E w \in Threads : Dequeue(w)
  <2>1. PICK w \in Threads : Dequeue(w)
    BY <1>1
  <2>2. PICK t \in Oldest : thread' = [thread EXCEPT ![w] = [At("extract") EXCEPT !.job = t]]
    BY <2>1 DEF Dequeue
  <2>3. t \in Tasks /\ thread[w].pc = "idle"
    BY <2>1, <2>2 DEF Dequeue, Oldest, Ready
  <2>4. QED  BY <2>2, <2>3, DequeueFacts
<1>2. CASE \A w \in Threads : ~Dequeue(w)
  BY <1>2, NextKeeps DEF ThreadsKeep
<1>3. QED  BY <1>1, <1>2

QueueTyped ==
  /\ status \in [Tasks -> Statuses]
  /\ attempts \in [Tasks -> Nat]
  /\ due \subseteq Tasks
  /\ overdue \subseteq Tasks

RestTyped ==
  /\ running \subseteq Loops
  /\ nodes \subseteq Node
  /\ minted \in 0..MaxNodes
  /\ caller \in [Callers -> Caller]

HistoryTyped ==
  /\ entries \in [Tasks -> 0..Many]
  /\ trouble \in [Tasks -> SUBSET {"recovered", "failed"}]

\* The queue table keeps its types.
LEMMA QueueStep ==
  ASSUME TypeOK, JobInv, [Next]_vars
  PROVE  QueueTyped'
<1> USE DEF QueueTyped
<1>1. ASSUME NEW t \in Tasks, Enqueue(t) \/ BackoffElapses(t) \/ TimeoutElapses(t)
      PROVE  QueueTyped'
  BY <1>1 DEF Enqueue, BackoffElapses, TimeoutElapses, TypeOK, Statuses
<1>2. CASE RetryFailed
  BY <1>2 DEF RetryFailed, TypeOK, Statuses
<1>3. ASSUME NEW w \in Threads, Open(w)
      PROVE  QueueTyped'
  BY <1>3 DEF Open, Abandoned, TypeOK, Statuses
<1>4. ASSUME NEW w \in Threads, Dequeue(w)
      PROVE  QueueTyped'
  BY <1>4 DEF Dequeue, TypeOK, Statuses
<1>5. ASSUME NEW w \in Threads, Complete(w)
      PROVE  QueueTyped'
  BY <1>5 DEF Complete, TypeOK, Statuses
<1>6. ASSUME NEW w \in Threads, Fail(w)
      PROVE  QueueTyped'
  <2> DEFINE t == thread[w].job
  <2>1. t \in Tasks /\ thread[w].tries \in Nat
    BY <1>6 DEF Fail, JobInv, Settling, TypeOK, Thread
  <2>2. AfterFailure(thread[w].tries) \in Statuses
    BY DEF AfterFailure, Statuses
  <2>3. QED  BY <1>6, <2>1, <2>2 DEF Fail, TypeOK
<1>7. CASE UNCHANGED queue
  BY <1>7 DEF queue, TypeOK
<1>8. ASSUME NEW w \in Threads,
             \/ Generate(w) \/ Parse(w) \/ Swallow(w) \/ AddTimelineEntry(w)
             \/ LoadNodes(w) \/ SaveNodes(w) \/ CompleteRaises(w) \/ FailReads(w)
             \/ FailRaises(w) \/ Crash(w) \/ Start(w) \/ Shutdown(w) \/ LoopEnds(w) \/ ProcessNow(w)
      PROVE  UNCHANGED queue
  BY <1>8 DEF Generate, Parse, Swallow, AddTimelineEntry, LoadNodes, SaveNodes,
              CompleteRaises, FailReads, FailRaises, Crash, Start, Shutdown, LoopEnds,
              ProcessNow
<1>9. ASSUME NEW c \in Callers, CallSteps(c)
      PROVE  UNCHANGED queue
  BY <1>9 DEF CallSteps, CallLoads, RecallSaves, RememberThoughtSaves,
              ResolveThoughtSaves, CallEnds
<1>10. Publish \/ UNCHANGED vars => UNCHANGED queue
  BY DEF Publish, vars
<1>11. QED
  BY <1>1, <1>2, <1>3, <1>4, <1>5, <1>6, <1>7, <1>8, <1>9, <1>10 DEF Next, Works, Threads

\* The memories and the foreground calls keep their types.
LEMMA RestStep ==
  ASSUME TypeOK, [Next]_vars
  PROVE  RestTyped'
<1> USE DEF RestTyped
<1>1. ASSUME NEW w \in Threads, SaveNodes(w)
      PROVE  RestTyped'
  <2>1. PICK open \in BOOLEAN :
          nodes' = Saved(thread[w].seen \cup
                     {[id |-> minted + 1, origin |-> "legacy", unresolved |-> open]})
    BY <1>1 DEF SaveNodes
  <2>2. thread[w] \in Thread
    BY DEF TypeOK
  <2>3. thread[w].seen \in SUBSET Node
    BY <2>2 DEF Thread
  <2>4. minted < MaxNodes /\ minted' = minted + 1
    BY <1>1 DEF SaveNodes
  <2>5. /\ minted + 1 \in 0..MaxNodes
        /\ [id |-> minted + 1, origin |-> "legacy", unresolved |-> open] \in Node
    BY <2>4, MintedFacts DEF Origins
  <2>6. nodes' \in SUBSET Node
    BY <2>1, <2>3, <2>5, SavedFacts
  <2>7. QED  BY <1>1, <2>4, <2>5, <2>6 DEF SaveNodes, TypeOK
<1>2. ASSUME NEW c \in Callers, CallSteps(c)
      PROVE  RestTyped'
  <2>1. caller[c] \in Caller
    BY DEF TypeOK
  <2>2. caller[c].seen \in SUBSET Node
    BY <2>1 DEF Caller
  <2>3. [pc |-> "idle", op |-> "recall", seen |-> {}] \in Caller
    BY DEF Caller, Operations
  <2>4. ASSUME NEW op \in Operations, CallLoads(c, op)
        PROVE  RestTyped'
    <3>1. [pc |-> "save", op |-> op, seen |-> nodes] \in Caller
      BY DEF Caller, TypeOK
    <3>2. QED  BY <2>4, <3>1 DEF CallLoads, TypeOK, memory
  <2>5. CASE RecallSaves(c)
    <3>1. nodes' \in SUBSET Node
      BY <2>2, <2>5, SavedFacts DEF RecallSaves
    <3>2. QED  BY <2>3, <2>5, <3>1 DEF RecallSaves, Finished, TypeOK
  <2>6. CASE RememberThoughtSaves(c)
    <3>1. PICK open \in BOOLEAN :
            nodes' = Saved(caller[c].seen \cup
                       {[id |-> minted + 1, origin |-> "thought", unresolved |-> open]})
      BY <2>6 DEF RememberThoughtSaves
    <3>2. minted < MaxNodes /\ minted' = minted + 1
      BY <2>6 DEF RememberThoughtSaves
    <3>3. /\ minted + 1 \in 0..MaxNodes
          /\ [id |-> minted + 1, origin |-> "thought", unresolved |-> open] \in Node
      BY <3>2, MintedFacts DEF Origins
    <3>4. nodes' \in SUBSET Node
      BY <2>2, <3>1, <3>3, SavedFacts
    <3>5. QED  BY <2>3, <2>6, <3>2, <3>3, <3>4 DEF RememberThoughtSaves, Finished, TypeOK
  <2>7. CASE ResolveThoughtSaves(c)
    <3>1. PICK n \in caller[c].seen :
            nodes' = Saved((caller[c].seen \ {n}) \cup {[n EXCEPT !.unresolved = FALSE]})
      BY <2>7 DEF ResolveThoughtSaves
    <3>2. n \in Node
      BY <2>2
    <3>3. [n EXCEPT !.unresolved = FALSE] \in Node
      BY <3>2 DEF Node
    <3>4. nodes' \in SUBSET Node
      BY <2>2, <3>1, <3>3, SavedFacts
    <3>5. QED  BY <2>3, <2>7, <3>4 DEF ResolveThoughtSaves, Finished, TypeOK
  <2>8. CASE CallEnds(c)
    BY <2>3, <2>8 DEF CallEnds, Finished, TypeOK, memory
  <2>9. QED  BY <1>2, <2>4, <2>5, <2>6, <2>7, <2>8 DEF CallSteps
<1>3. CASE Publish
  <2>1. PICK open \in BOOLEAN :
          nodes' = nodes \cup {[id |-> minted + 1, origin |-> "archived", unresolved |-> open]}
    BY <1>3 DEF Publish
  <2>2. minted < MaxNodes /\ minted' = minted + 1
    BY <1>3 DEF Publish
  <2>3. /\ minted + 1 \in 0..MaxNodes
        /\ [id |-> minted + 1, origin |-> "archived", unresolved |-> open] \in Node
    BY <2>2, MintedFacts DEF Origins
  <2>4. QED  BY <1>3, <2>1, <2>2, <2>3 DEF Publish, TypeOK
<1>4. ASSUME NEW w \in Loops, Start(w) \/ Shutdown(w) \/ LoopEnds(w)
      PROVE  RestTyped'
  BY <1>4 DEF Start, Shutdown, LoopEnds, TypeOK, memory
<1>5. ASSUME NEW w \in Threads, Open(w) \/ Crash(w)
      PROVE  RestTyped'
  BY <1>5 DEF Open, Crash, TypeOK, memory
<1>6. CASE UNCHANGED <<running, memory, caller>>
  BY <1>6 DEF memory, TypeOK
<1>7. ASSUME NEW w \in Threads,
             \/ Dequeue(w) \/ Generate(w) \/ Parse(w) \/ Swallow(w) \/ AddTimelineEntry(w)
             \/ LoadNodes(w) \/ Complete(w) \/ CompleteRaises(w) \/ FailReads(w)
             \/ Fail(w) \/ FailRaises(w) \/ ProcessNow(w)
      PROVE  UNCHANGED <<running, memory, caller>>
  BY <1>7 DEF Dequeue, Generate, Parse, Swallow, AddTimelineEntry, LoadNodes, Complete,
              CompleteRaises, FailReads, Fail, FailRaises, ProcessNow
<1>8. ASSUME NEW t \in Tasks, Enqueue(t) \/ BackoffElapses(t) \/ TimeoutElapses(t)
      PROVE  UNCHANGED <<running, memory, caller>>
  BY <1>8 DEF Enqueue, BackoffElapses, TimeoutElapses
<1>9. RetryFailed \/ UNCHANGED vars => UNCHANGED <<running, memory, caller>>
  BY DEF RetryFailed, vars
<1>10. QED
  BY <1>1, <1>2, <1>3, <1>4, <1>5, <1>6, <1>7, <1>8, <1>9 DEF Next, Works, Threads

\* The history variables keep their types and never forget a trouble.
LEMMA HistoryStep ==
  ASSUME TypeOK, [Next]_vars
  PROVE  HistoryTyped' /\ \A t \in Tasks : trouble[t] \subseteq trouble'[t]
<1>1. ASSUME NEW w \in Threads, AddTimelineEntry(w)
      PROVE  HistoryTyped' /\ UNCHANGED trouble
  BY <1>1 DEF AddTimelineEntry, HistoryTyped, TypeOK, More, Many
<1>2. ASSUME NEW w \in Threads, Open(w)
      PROVE  HistoryTyped' /\ \A t \in Tasks : trouble[t] \subseteq trouble'[t]
  BY <1>2 DEF Open, HistoryTyped, TypeOK
<1>3. ASSUME NEW w \in Threads, Fail(w)
      PROVE  HistoryTyped' /\ \A t \in Tasks : trouble[t] \subseteq trouble'[t]
  BY <1>3 DEF Fail, HistoryTyped, TypeOK
<1>4. UNCHANGED history => HistoryTyped' /\ UNCHANGED trouble
  BY DEF history, HistoryTyped, TypeOK
<1>5. ASSUME NEW w \in Threads,
             \/ Dequeue(w) \/ Generate(w) \/ Parse(w) \/ Swallow(w)
             \/ LoadNodes(w) \/ SaveNodes(w) \/ Complete(w) \/ CompleteRaises(w)
             \/ FailReads(w) \/ FailRaises(w) \/ Crash(w) \/ Start(w) \/ Shutdown(w)
             \/ LoopEnds(w)
             \/ ProcessNow(w)
      PROVE  UNCHANGED history
  BY <1>5 DEF Dequeue, Generate, Parse, Swallow, LoadNodes, SaveNodes, Complete,
              CompleteRaises, FailReads, FailRaises, Crash, Start, Shutdown, LoopEnds,
              ProcessNow
<1>6. ASSUME NEW t \in Tasks, Enqueue(t) \/ BackoffElapses(t) \/ TimeoutElapses(t)
      PROVE  UNCHANGED history
  BY <1>6 DEF Enqueue, BackoffElapses, TimeoutElapses
<1>7. ASSUME NEW c \in Callers, CallSteps(c)
      PROVE  UNCHANGED history
  BY <1>7 DEF CallSteps, CallLoads, RecallSaves, RememberThoughtSaves,
              ResolveThoughtSaves, CallEnds
<1>8. RetryFailed \/ Publish \/ UNCHANGED vars => UNCHANGED history
  BY DEF RetryFailed, Publish, vars
<1>9. QED
  BY <1>1, <1>2, <1>3, <1>4, <1>5, <1>6, <1>7, <1>8 DEF Next, Works, Threads

LEMMA TypeOKStep ==
  ASSUME TypeOK, JobInv, [Next]_vars
  PROVE  TypeOK' /\ JobInv'
<1>1. QueueTyped' /\ RestTyped' /\ HistoryTyped'
  BY QueueStep, RestStep, HistoryStep
<1>2. thread' \in [Threads -> Thread] /\ JobInv'
  BY ThreadsTyped
<1>3. QED  BY <1>1, <1>2 DEF TypeOK, QueueTyped, RestTyped, HistoryTyped

-----------------------------------------------------------------------------
(* Claims. *)

\* A thread that settles a task holds it before and not afterwards.
LEMMA SettleFacts ==
  ASSUME TypeOK, JobInv, NEW w \in Threads, Complete(w) \/ Fail(w)
  PROVE  /\ thread[w].job \in Tasks
         /\ Holds(w, thread[w].job)
         /\ \A t \in Tasks : ~Holds(w, t)'
         /\ \A t \in Tasks : t # thread[w].job => status'[t] = status[t]
<1>1. thread[w].pc \in Settling /\ Rests(w)
  BY DEF Complete, Fail, Settling
<1>2. thread[w].job \in Tasks /\ Holds(w, thread[w].job)
  BY <1>1 DEF JobInv, Settling, Holds, Busy
<1>3. thread'[w] = At("idle")
  BY <1>1 DEF Rests, TypeOK
<1>4. At("idle").pc \notin Busy
  BY AtFacts DEF Busy
<1>5. \A t \in Tasks : t # thread[w].job => status'[t] = status[t]
  BY DEF Complete, Fail, TypeOK
<1>6. QED  BY <1>2, <1>3, <1>4, <1>5 DEF Holds

\* How a task leaves a status, but for dequeue(): by its thread, by a recovery,
\* by retry_failed() or by being enqueued.
LEMMA StatusFacts ==
  ASSUME TypeOK, JobInv, [Next]_vars, \A w \in Threads : ~Dequeue(w),
         NEW t \in Tasks, status'[t] # status[t]
  PROVE  \/ \E w \in Threads : Holds(w, t) /\ ~Holds(w, t)' /\ (Complete(w) \/ Fail(w))
         \/ status[t] = "processing" /\ "recovered" \in trouble'[t]
         \/ status[t] \in {"failed", "absent"}
<1>1. ASSUME NEW w \in Threads, Complete(w) \/ Fail(w)
      PROVE  Holds(w, t) /\ ~Holds(w, t)'
  <2>1. t = thread[w].job
    BY <1>1, SettleFacts
  <2>2. QED  BY <1>1, <2>1, SettleFacts
<1>2. ASSUME NEW w \in Threads, Open(w)
      PROVE  status[t] = "processing" /\ "recovered" \in trouble'[t]
  BY <1>2 DEF Open, Abandoned, TypeOK
<1>3. RetryFailed => status[t] = "failed"
  BY DEF RetryFailed, TypeOK
<1>4. ASSUME NEW u \in Tasks, Enqueue(u) \/ BackoffElapses(u) \/ TimeoutElapses(u)
      PROVE  status[t] = "absent"
  BY <1>4 DEF Enqueue, BackoffElapses, TimeoutElapses, TypeOK
<1>5. ASSUME NEW w \in Threads,
             \/ Generate(w) \/ Parse(w) \/ Swallow(w) \/ AddTimelineEntry(w)
             \/ LoadNodes(w) \/ SaveNodes(w) \/ CompleteRaises(w) \/ FailReads(w)
             \/ FailRaises(w) \/ Crash(w) \/ Start(w) \/ Shutdown(w) \/ LoopEnds(w) \/ ProcessNow(w)
      PROVE  FALSE
  BY <1>5 DEF Generate, Parse, Swallow, AddTimelineEntry, LoadNodes, SaveNodes,
              CompleteRaises, FailReads, FailRaises, Crash, Start, Shutdown, LoopEnds,
              ProcessNow, queue
<1>6. ASSUME NEW c \in Callers, CallSteps(c)
      PROVE  FALSE
  BY <1>6 DEF CallSteps, CallLoads, RecallSaves, RememberThoughtSaves,
              ResolveThoughtSaves, CallEnds, queue
<1>7. ~Publish /\ ~UNCHANGED vars
  BY DEF Publish, vars, queue
<1>8. QED
  BY <1>1, <1>2, <1>3, <1>4, <1>5, <1>6, <1>7 DEF Next, Works, Threads

\* ExclusiveClaim is preserved.
LEMMA ClaimStep ==
  ASSUME TypeOK, JobInv, ExclusiveClaim, [Next]_vars
  PROVE  ExclusiveClaim'
<1>1. CASE \E w \in Threads : Dequeue(w)
  <2>1. PICK w \in Threads : Dequeue(w)
    BY <1>1
  <2>2. PICK t \in Oldest :
          /\ status' = [status EXCEPT ![t] = "processing"]
          /\ thread' = [thread EXCEPT ![w] = [At("extract") EXCEPT !.job = t]]
    BY <2>1 DEF Dequeue
  <2>3. t \in Tasks /\ status[t] = "pending" /\ thread[w].pc = "idle" /\ UNCHANGED trouble
    BY <2>1, <2>2 DEF Dequeue, Oldest, Ready, history
  <2>4. \A v \in Threads, u \in Tasks :
          Holds(v, u)' => \/ Holds(v, u) /\ thread'[v] = thread[v]
                          \/ v = w /\ u = t
    BY <2>2, <2>3, DequeueFacts
  <2>5. status' \in [Tasks -> Statuses] /\ status'[t] = "processing"
        /\ \A u \in Tasks : u # t => status'[u] = status[u]
    BY <2>2, <2>3 DEF TypeOK, Statuses
  <2>6. ASSUME NEW u \in Tasks, NEW v \in Threads, Holds(v, u)', "recovered" \notin trouble'[u]
        PROVE  /\ status'[u] = "processing"
               /\ \A x \in Threads : Holds(x, u)' => x = v
    <3>1. CASE u = t
      <4>1. \A x \in Threads : ~Holds(x, t)
        BY <2>3, <2>6, <3>1 DEF ExclusiveClaim
      <4>2. QED  BY <2>4, <2>5, <2>6, <3>1, <4>1
    <3>2. CASE u # t
      <4>1. Holds(v, u) /\ status[u] = "processing"
            /\ \A x \in Threads : Holds(x, u) => x = v
        BY <2>3, <2>4, <2>6, <3>2 DEF ExclusiveClaim
      <4>2. QED  BY <2>4, <2>5, <3>2, <4>1
    <3>3. QED  BY <3>1, <3>2
  <2>7. QED  BY <2>6 DEF ExclusiveClaim
<1>2. CASE \A w \in Threads : ~Dequeue(w)
  <2>1. \A v \in Threads, u \in Tasks : Holds(v, u)' => Holds(v, u)
    BY <1>2, NextKeeps DEF ThreadsKeep
  <2>2. ASSUME NEW u \in Tasks, NEW v \in Threads, Holds(v, u)', "recovered" \notin trouble'[u]
        PROVE  /\ status'[u] = "processing"
               /\ \A x \in Threads : Holds(x, u)' => x = v
    <3>1. "recovered" \notin trouble[u]
      BY <2>2, HistoryStep
    <3>2. /\ Holds(v, u) /\ status[u] = "processing"
          /\ \A x \in Threads : Holds(x, u) => x = v
      BY <2>1, <2>2, <3>1 DEF ExclusiveClaim
    <3>3. status'[u] = status[u]
      <4>1. SUFFICES ASSUME status'[u] # status[u]  PROVE FALSE
        OBVIOUS
      <4>2. \E w \in Threads : Holds(w, u) /\ ~Holds(w, u)'
        BY <1>2, <2>2, <3>2, <4>1, StatusFacts
      <4>3. QED  BY <2>2, <3>2, <4>2
    <3>4. QED  BY <2>1, <3>2, <3>3
  <2>3. QED  BY <2>2 DEF ExclusiveClaim
<1>3. QED  BY <1>1, <1>2

-----------------------------------------------------------------------------
(* Attempts. *)

\* The steps that touch neither the status nor the attempts of a task.
LEMMA QueueFrame ==
  ASSUME TypeOK, [Next]_vars,
         \A w \in Threads : ~(Dequeue(w) \/ Complete(w) \/ Fail(w) \/ Open(w)),
         \A t \in Tasks : ~Enqueue(t), ~RetryFailed
  PROVE  UNCHANGED <<status, attempts>>
<1>1. ASSUME NEW t \in Tasks, BackoffElapses(t) \/ TimeoutElapses(t)
      PROVE  UNCHANGED <<status, attempts>>
  BY <1>1 DEF BackoffElapses, TimeoutElapses
<1>2. ASSUME NEW w \in Threads,
             \/ Generate(w) \/ Parse(w) \/ Swallow(w) \/ AddTimelineEntry(w)
             \/ LoadNodes(w) \/ SaveNodes(w) \/ CompleteRaises(w) \/ FailReads(w)
             \/ FailRaises(w) \/ Crash(w) \/ Start(w) \/ Shutdown(w) \/ LoopEnds(w) \/ ProcessNow(w)
      PROVE  UNCHANGED <<status, attempts>>
  BY <1>2 DEF Generate, Parse, Swallow, AddTimelineEntry, LoadNodes, SaveNodes,
              CompleteRaises, FailReads, FailRaises, Crash, Start, Shutdown, LoopEnds,
              ProcessNow, queue
<1>3. ASSUME NEW c \in Callers, CallSteps(c)
      PROVE  UNCHANGED <<status, attempts>>
  BY <1>3 DEF CallSteps, CallLoads, RecallSaves, RememberThoughtSaves,
              ResolveThoughtSaves, CallEnds, queue
<1>4. Publish \/ UNCHANGED vars => UNCHANGED <<status, attempts>>
  BY DEF Publish, vars, queue
<1>5. QED  BY <1>1, <1>2, <1>3, <1>4 DEF Next, Works, Threads

\* RetryBudget is preserved.
LEMMA BudgetStep ==
  ASSUME TypeOK, JobInv, NewInv, RetryBudget, [Next]_vars
  PROVE  RetryBudget'
<1>1. ASSUME NEW w \in Threads, Dequeue(w)
      PROVE  RetryBudget'
  <2>1. PICK t \in Oldest : status' = [status EXCEPT ![t] = "processing"]
    BY <1>1 DEF Dequeue
  <2>2. t \in Tasks /\ status[t] = "pending" /\ UNCHANGED attempts
    BY <1>1, <2>1 DEF Dequeue, Oldest, Ready
  <2>3. QED  BY <2>1, <2>2 DEF RetryBudget, TypeOK
<1>2. ASSUME NEW w \in Threads, Complete(w)
      PROVE  RetryBudget'
  BY <1>2 DEF Complete, RetryBudget, TypeOK
<1>3. ASSUME NEW w \in Threads, Fail(w)
      PROVE  RetryBudget'
  <2> DEFINE t == thread[w].job
             n == thread[w].tries
  <2>1. t \in Tasks /\ n \in Nat
    BY <1>3, SettleFacts DEF TypeOK, Thread
  <2>2. /\ status' = [status EXCEPT ![t] = AfterFailure(n)]
        /\ attempts' = [attempts EXCEPT ![t] = n]
    BY <1>3 DEF Fail
  <2>3. /\ AfterFailure(n) \in {"pending", "processing"} => n < MaxAttempts
        /\ AfterFailure(n) = "failed" => n >= MaxAttempts
    BY <2>1, BoundsAssumption DEF AfterFailure
  <2>4. QED  BY <2>1, <2>2, <2>3 DEF RetryBudget, TypeOK
<1>4. ASSUME NEW w \in Threads, Open(w)
      PROVE  RetryBudget'
  BY <1>4 DEF Open, Abandoned, RetryBudget, TypeOK
<1>5. ASSUME NEW t \in Tasks, Enqueue(t)
      PROVE  RetryBudget'
  <2>1. attempts[t] = 0 /\ 0 < MaxAttempts /\ UNCHANGED attempts
    BY <1>5, BoundsAssumption DEF Enqueue, NewInv
  <2>2. QED  BY <1>5, <2>1 DEF Enqueue, RetryBudget, TypeOK
<1>6. CASE RetryFailed
  BY <1>6, BoundsAssumption DEF RetryFailed, RetryBudget, TypeOK
<1>7. CASE UNCHANGED <<status, attempts>>
  BY <1>7 DEF RetryBudget
<1>8. QED  BY <1>1, <1>2, <1>3, <1>4, <1>5, <1>6, <1>7, QueueFrame

\* NewInv is preserved.
LEMMA NewStep ==
  ASSUME TypeOK, JobInv, NewInv, [Next]_vars
  PROVE  NewInv'
<1>1. ASSUME NEW w \in Threads, Dequeue(w)
      PROVE  NewInv'
  <2>1. PICK t \in Oldest :
          /\ status' = [status EXCEPT ![t] = "processing"]
          /\ thread' = [thread EXCEPT ![w] = [At("extract") EXCEPT !.job = t]]
    BY <1>1 DEF Dequeue
  <2>2. t \in Tasks /\ thread[w].pc = "idle" /\ UNCHANGED attempts
    BY <1>1, <2>1 DEF Dequeue, Oldest, Ready
  <2>3. \A v \in Threads, u \in Tasks : Holds(v, u)' => Holds(v, u) \/ u = t
    BY <2>1, <2>2, DequeueFacts
  <2>4. ASSUME NEW u \in Tasks, status'[u] = "absent"
        PROVE  attempts'[u] = 0 /\ \A v \in Threads : ~Holds(v, u)'
    <3>1. u # t /\ status[u] = "absent"
      BY <2>1, <2>2, <2>4 DEF TypeOK
    <3>2. QED  BY <2>2, <2>3, <3>1 DEF NewInv
  <2>5. QED  BY <2>4 DEF NewInv
<1>2. ASSUME \A w \in Threads : ~Dequeue(w)
      PROVE  NewInv'
  <2> DEFINE Older == \A u \in Tasks :
        status'[u] = "absent" => status[u] = "absent" /\ attempts'[u] = attempts[u]
  <2>1. \A v \in Threads, u \in Tasks : Holds(v, u)' => Holds(v, u)
    BY <1>2, NextKeeps DEF ThreadsKeep
  <2>2. Older
    <3>1. ASSUME NEW w \in Threads, Complete(w)
          PROVE  Older
      BY <3>1 DEF Complete, TypeOK
    <3>2. ASSUME NEW w \in Threads, Fail(w)
          PROVE  Older
      BY <3>2, SettleFacts DEF Fail, AfterFailure, TypeOK
    <3>3. ASSUME NEW w \in Threads, Open(w)
          PROVE  Older
      BY <3>3 DEF Open, TypeOK
    <3>4. ASSUME NEW t \in Tasks, Enqueue(t)
          PROVE  Older
      BY <3>4 DEF Enqueue, TypeOK
    <3>5. RetryFailed => Older
      BY DEF RetryFailed, TypeOK
    <3>6. UNCHANGED <<status, attempts>> => Older
      OBVIOUS
    <3>7. QED  BY <1>2, <3>1, <3>2, <3>3, <3>4, <3>5, <3>6, QueueFrame
  <2>3. QED  BY <2>1, <2>2 DEF NewInv
<1>3. QED  BY <1>1, <1>2

-----------------------------------------------------------------------------
(* Timeline entries. *)

\* The steps that append no entry and settle, claim or recover no task.
LEMMA EntryFrame ==
  ASSUME TypeOK, [Next]_vars, \A w \in Threads : ~AddTimelineEntry(w)
  PROVE  UNCHANGED entries
<1>1. ASSUME NEW w \in Threads,
             \/ Open(w) \/ Dequeue(w) \/ Complete(w) \/ Fail(w)
             \/ Generate(w) \/ Parse(w) \/ Swallow(w)
             \/ LoadNodes(w) \/ SaveNodes(w) \/ CompleteRaises(w) \/ FailReads(w)
             \/ FailRaises(w) \/ Crash(w) \/ Start(w) \/ Shutdown(w) \/ LoopEnds(w) \/ ProcessNow(w)
      PROVE  UNCHANGED entries
  BY <1>1 DEF Open, Dequeue, Complete, Fail, Generate, Parse, Swallow, LoadNodes, SaveNodes,
              CompleteRaises, FailReads, FailRaises, Crash, Start, Shutdown, LoopEnds,
              ProcessNow, history
<1>2. ASSUME NEW c \in Callers, CallSteps(c)
      PROVE  UNCHANGED entries
  BY <1>2 DEF CallSteps, CallLoads, RecallSaves, RememberThoughtSaves,
              ResolveThoughtSaves, CallEnds, history
<1>3. ASSUME NEW t \in Tasks, Enqueue(t) \/ BackoffElapses(t) \/ TimeoutElapses(t)
      PROVE  UNCHANGED entries
  BY <1>3 DEF Enqueue, BackoffElapses, TimeoutElapses, history
<1>4. RetryFailed \/ Publish \/ UNCHANGED vars => UNCHANGED entries
  BY DEF RetryFailed, Publish, vars, history
<1>5. QED  BY <1>1, <1>2, <1>3, <1>4 DEF Next, Works, Threads

\* A task nothing has happened to is neither failed nor pending again.
LEMMA UntroubledStatus ==
  ASSUME TypeOK, JobInv, EntryInv, [Next]_vars, NEW t \in Tasks,
         \A w \in Threads : ~Dequeue(w)
  PROVE  /\ status'[t] = "failed" => "failed" \in trouble'[t]
         /\ trouble'[t] = {} /\ status'[t] \in {"absent", "pending"}
              => status[t] \in {"absent", "pending"}
<1> DEFINE Goal == /\ status'[t] = "failed" => "failed" \in trouble'[t]
                   /\ trouble'[t] = {} /\ status'[t] \in {"absent", "pending"}
                        => status[t] \in {"absent", "pending"}
<1>1. trouble[t] \subseteq trouble'[t]
  BY HistoryStep
<1>2. ASSUME NEW w \in Threads, Complete(w)
      PROVE  Goal
  BY <1>1, <1>2 DEF Complete, EntryInv, TypeOK
<1>3. ASSUME NEW w \in Threads, Fail(w)
      PROVE  Goal
  <2>1. CASE t = thread[w].job
    BY <1>3, <2>1 DEF Fail, TypeOK
  <2>2. CASE t # thread[w].job
    BY <1>1, <1>3, <2>2, SettleFacts DEF EntryInv
  <2>3. QED  BY <2>1, <2>2
<1>4. ASSUME NEW w \in Threads, Open(w)
      PROVE  Goal
  BY <1>1, <1>4 DEF Open, EntryInv, TypeOK
<1>5. ASSUME NEW u \in Tasks, Enqueue(u)
      PROVE  Goal
  BY <1>1, <1>5 DEF Enqueue, EntryInv, TypeOK
<1>6. CASE RetryFailed
  BY <1>1, <1>6 DEF RetryFailed, EntryInv, TypeOK
<1>7. CASE UNCHANGED <<status, attempts>>
  BY <1>1, <1>7 DEF EntryInv
<1>8. QED  BY <1>2, <1>3, <1>4, <1>5, <1>6, <1>7, QueueFrame

\* EntryInv is preserved.
LEMMA EntryStep ==
  ASSUME TypeOK, JobInv, ExclusiveClaim, EntryInv, [Next]_vars
  PROVE  EntryInv'
<1>1. ASSUME NEW w \in Threads, Dequeue(w)
      PROVE  EntryInv'
  <2>1. PICK t \in Oldest :
          /\ status' = [status EXCEPT ![t] = "processing"]
          /\ thread' = [thread EXCEPT ![w] = [At("extract") EXCEPT !.job = t]]
    BY <1>1 DEF Dequeue
  <2>2. t \in Tasks /\ status[t] = "pending" /\ thread[w].pc = "idle"
        /\ UNCHANGED <<trouble, entries>>
    BY <1>1, <2>1 DEF Dequeue, Oldest, Ready, history
  <2>3. \A v \in Threads, u \in Tasks :
          Holds(v, u)' => \/ Holds(v, u) /\ thread'[v] = thread[v]
                          \/ v = w /\ u = t
    BY <2>1, <2>2, DequeueFacts
  <2>4. status'[t] = "processing" /\ \A u \in Tasks : u # t => status'[u] = status[u]
    BY <2>1, <2>2 DEF TypeOK
  <2>5. QED  BY <2>2, <2>3, <2>4 DEF EntryInv
<1>2. ASSUME NEW w \in Threads, AddTimelineEntry(w)
      PROVE  EntryInv'
  <2>1. /\ thread[w].pc = "timeline" /\ thread' = [thread EXCEPT ![w].pc = "load"]
        /\ UNCHANGED <<status, trouble>>
        /\ entries' = [t \in Tasks |-> IF t = thread[w].job THEN More(entries[t])
                                       ELSE entries[t]]
    BY <1>2 DEF AddTimelineEntry, Goes, queue
  <2>2. thread'[w].pc = "load" /\ thread'[w].job = thread[w].job
        /\ \A v \in Threads : v # w => thread'[v] = thread[v]
    <3>1. thread[w] \in Thread
      BY DEF TypeOK
    <3>2. QED  BY <2>1, <3>1 DEF TypeOK, Thread
  <2>3. ASSUME NEW t \in Tasks, trouble[t] = {}
        PROVE  /\ entries'[t] <= 1
               /\ status'[t] \in {"absent", "pending"} => entries'[t] = 0
               /\ \A v \in Threads :
                    Holds(v, t)' /\ thread'[v].pc \in Early => entries'[t] = 0
    <3>1. CASE t # thread[w].job
      <4>1. entries'[t] = entries[t]
        BY <2>1, <3>1
      <4>2. \A v \in Threads : Holds(v, t)' => v # w /\ Holds(v, t)
        BY <2>2, <3>1 DEF Holds
      <4>3. QED  BY <2>1, <2>2, <2>3, <4>1, <4>2 DEF EntryInv, Early
    <3>2. CASE t = thread[w].job
      <4>1. Holds(w, t) /\ thread[w].pc \in Early
        BY <2>1, <3>2 DEF Holds, Busy, Early
      <4>2. /\ status[t] = "processing" /\ entries[t] = 0
            /\ \A v \in Threads : Holds(v, t) => v = w
        BY <2>3, <4>1 DEF ExclusiveClaim, EntryInv, Early
      <4>3. entries'[t] = 1
        BY <2>1, <3>2, <4>2 DEF More, Many
      <4>4. \A v \in Threads : Holds(v, t)' => v = w
        BY <2>2, <4>2 DEF Holds
      <4>5. "load" \notin Early
        BY DEF Early
      <4>6. QED  BY <2>1, <2>2, <4>2, <4>3, <4>4, <4>5
    <3>3. QED  BY <3>1, <3>2
  <2>4. \A t \in Tasks : status'[t] = "failed" => "failed" \in trouble'[t]
    BY <2>1 DEF EntryInv
  <2>5. QED  BY <2>1, <2>3, <2>4 DEF EntryInv, Early
<1>3. ASSUME \A w \in Threads : ~Dequeue(w) /\ ~AddTimelineEntry(w)
      PROVE  EntryInv'
  <2>1. UNCHANGED entries
    BY <1>3, EntryFrame
  <2>2. \A v \in Threads, t \in Tasks :
          Holds(v, t)' => /\ Holds(v, t)
                          /\ thread'[v].pc \in Early => thread[v].pc \in Early
    BY <1>3, NextKeeps DEF ThreadsKeep
  <2>3. ASSUME NEW t \in Tasks
        PROVE  /\ status'[t] = "failed" => "failed" \in trouble'[t]
               /\ trouble'[t] = {} => trouble[t] = {}
               /\ trouble'[t] = {} /\ status'[t] \in {"absent", "pending"}
                    => status[t] \in {"absent", "pending"}
    BY <1>3, UntroubledStatus, HistoryStep
  <2>4. QED  BY <2>1, <2>2, <2>3 DEF EntryInv, Early
<1>4. QED  BY <1>1, <1>2, <1>3

-----------------------------------------------------------------------------
(* The theorems. *)

\* The inductive invariant holds of every reachable state.
THEOREM Invariance == Spec => []IInv
<1>1. Init => IInv
  <2>1. ASSUME Init  PROVE IInv
    <3>1. TypeOK
      BY <2>1, InitTypeOK
    <3>2. \A w \in Threads : thread[w].pc = "down" /\ thread[w].job = Inline
      BY <2>1, AtFacts DEF Init
    <3>3. "down" \notin Busy \cup Settling
      BY DEF Busy, Settling
    <3>4. QED
      BY <2>1, <3>1, <3>2, <3>3
         DEF Init, IInv, JobInv, NewInv, ExclusiveClaim, RetryBudget, EntryInv, Holds
  <2>2. QED  BY <2>1
<1>2. IInv /\ [Next]_vars => IInv'
  BY TypeOKStep, NewStep, ClaimStep, BudgetStep, EntryStep DEF IInv
<1>3. QED  BY <1>1, <1>2, PTL DEF Spec

\* The variables of the queue, the workers and the memories keep their types.
THEOREM TypeCorrect == Spec => []TypeOK
<1>1. IInv => TypeOK
  BY DEF IInv
<1>2. QED  BY <1>1, Invariance, PTL

\* Unless its claim was recovered, one thread at most works on a task, and the
\* task is then PROCESSING.
THEOREM ClaimsAreExclusive == Spec => []ExclusiveClaim
<1>1. IInv => ExclusiveClaim
  BY DEF IInv
<1>2. QED  BY <1>1, Invariance, PTL

\* A task is retried exactly while it has attempts left.
THEOREM BudgetIsKept == Spec => []RetryBudget
<1>1. IInv => RetryBudget
  BY DEF IInv
<1>2. QED  BY <1>1, Invariance, PTL

\* A task nothing has happened to enters the timeline once at most.
THEOREM UntroubledOnce == Spec => []OnceUntroubled
<1>1. IInv => OnceUntroubled
  BY DEF IInv, EntryInv, OnceUntroubled
<1>2. QED  BY <1>1, Invariance, PTL

\* For any number of workers, tasks and attempts a claim is exclusive and its turn
\* archived once, unless it was recovered or its settlement failed.
THEOREM ClaimsAreHonoured == Spec => []ClaimIsHonoured
<1>1. ExclusiveClaim /\ OnceUntroubled => ClaimIsHonoured
  BY DEF ClaimIsHonoured
<1>2. QED  BY <1>1, ClaimsAreExclusive, UntroubledOnce, PTL

\* A COMPLETED task whose claim was never recovered stays COMPLETED.
THEOREM CompletedIsFinal == Spec => CompletedStays
<1>1. ASSUME IInv, [Next]_vars
      PROVE  [\A t \in Tasks : status[t] = "completed" /\ "recovered" \notin trouble[t]
                => status'[t] = "completed"]_status
  <2>1. ASSUME NEW t \in Tasks, status[t] = "completed", "recovered" \notin trouble[t]
        PROVE  status'[t] = "completed"
    <3>1. \A w \in Threads : ~Holds(w, t)
      BY <1>1, <2>1 DEF IInv, ExclusiveClaim
    <3>2. CASE \E w \in Threads : Dequeue(w)
      <4>1. PICK w \in Threads : Dequeue(w)
        BY <3>2
      <4>2. PICK u \in Oldest : status' = [status EXCEPT ![u] = "processing"]
        BY <4>1 DEF Dequeue
      <4>3. u # t
        BY <2>1, <4>2 DEF Oldest, Ready
      <4>4. QED  BY <1>1, <2>1, <4>2, <4>3 DEF IInv, TypeOK
    <3>3. CASE \A w \in Threads : ~Dequeue(w)
      <4>1. SUFFICES ASSUME status'[t] # status[t]  PROVE FALSE
        BY <2>1
      <4>2. QED  BY <1>1, <2>1, <3>1, <3>3, <4>1, StatusFacts DEF IInv
    <3>4. QED  BY <3>2, <3>3
  <2>2. QED  BY <2>1
<1>2. IInv /\ [Next]_vars
        => [\A t \in Tasks : status[t] = "completed" /\ "recovered" \notin trouble[t]
              => status'[t] = "completed"]_status
  BY <1>1
<1>3. QED  BY <1>2, Invariance, PTL DEF Spec, CompletedStays

\* A published memory with archival provenance survives every save of a list
\* that was read before it was published.
THEOREM ArchivedIsKept == Spec => ArchivedSurvives
<1>1. ASSUME IInv, [Next]_vars
      PROVE  [\A n \in nodes : n.origin = "archived" => \E m \in nodes' : m.id = n.id]_nodes
  <2> DEFINE Kept == \A n \in nodes : n.origin = "archived" => \E m \in nodes' : m.id = n.id
  <2>1. \A list \in SUBSET Node : nodes' = Saved(list) => Kept
    BY <1>1, SavedFacts DEF IInv
  <2>2. ASSUME NEW w \in Threads, SaveNodes(w)
        PROVE  Kept
    <3>1. PICK open \in BOOLEAN :
            nodes' = Saved(thread[w].seen \cup
                       {[id |-> minted + 1, origin |-> "legacy", unresolved |-> open]})
      BY <2>2 DEF SaveNodes
    <3>2. [id |-> minted + 1, origin |-> "legacy", unresolved |-> open] \in Node
      BY <1>1, <2>2, MintedFacts DEF SaveNodes, Origins, IInv
    <3>3. thread[w] \in Thread
      BY <1>1 DEF IInv, TypeOK
    <3>4. thread[w].seen \in SUBSET Node
      BY <3>3 DEF Thread
    <3>5. QED  BY <2>1, <3>1, <3>2, <3>4
  <2>3. ASSUME NEW c \in Callers, CallSteps(c)
        PROVE  Kept \/ UNCHANGED nodes
    <3>1. caller[c] \in Caller
      BY <1>1 DEF IInv, TypeOK
    <3>2. caller[c].seen \in SUBSET Node
      BY <3>1 DEF Caller
    <3>3. CASE RecallSaves(c)
      BY <2>1, <3>2, <3>3 DEF RecallSaves
    <3>4. CASE RememberThoughtSaves(c)
      <4>1. PICK open \in BOOLEAN :
              nodes' = Saved(caller[c].seen \cup
                         {[id |-> minted + 1, origin |-> "thought", unresolved |-> open]})
        BY <3>4 DEF RememberThoughtSaves
      <4>2. [id |-> minted + 1, origin |-> "thought", unresolved |-> open] \in Node
        BY <1>1, <3>4, MintedFacts DEF RememberThoughtSaves, Origins, IInv
      <4>3. QED  BY <2>1, <3>2, <4>1, <4>2
    <3>5. CASE ResolveThoughtSaves(c)
      <4>1. PICK n \in caller[c].seen :
              nodes' = Saved((caller[c].seen \ {n}) \cup {[n EXCEPT !.unresolved = FALSE]})
        BY <3>5 DEF ResolveThoughtSaves
      <4>2. n \in Node
        BY <3>2
      <4>3. [n EXCEPT !.unresolved = FALSE] \in Node
        BY <4>2 DEF Node
      <4>4. QED  BY <2>1, <3>2, <4>1, <4>3
    <3>6. (\E op \in Operations : CallLoads(c, op)) \/ CallEnds(c) => UNCHANGED nodes
      BY DEF CallLoads, CallEnds, memory
    <3>7. QED  BY <2>3, <3>3, <3>4, <3>5, <3>6 DEF CallSteps
  <2>4. Publish => Kept
    BY DEF Publish
  <2>5. ASSUME NEW w \in Threads,
               \/ Open(w) \/ Dequeue(w) \/ Complete(w) \/ Fail(w)
               \/ Generate(w) \/ Parse(w) \/ Swallow(w) \/ AddTimelineEntry(w)
               \/ LoadNodes(w) \/ CompleteRaises(w) \/ FailReads(w) \/ FailRaises(w)
               \/ Crash(w) \/ Start(w) \/ Shutdown(w) \/ LoopEnds(w) \/ ProcessNow(w)
        PROVE  UNCHANGED nodes
    BY <2>5 DEF Open, Dequeue, Complete, Fail, Generate, Parse, Swallow, AddTimelineEntry,
                LoadNodes, CompleteRaises, FailReads, FailRaises, Crash, Start, Shutdown, LoopEnds,
                ProcessNow, memory
  <2>6. ASSUME NEW t \in Tasks, Enqueue(t) \/ BackoffElapses(t) \/ TimeoutElapses(t)
        PROVE  UNCHANGED nodes
    BY <2>6 DEF Enqueue, BackoffElapses, TimeoutElapses, memory
  <2>7. RetryFailed \/ UNCHANGED vars => UNCHANGED nodes
    BY DEF RetryFailed, vars, memory
  <2>8. QED
    BY <1>1, <2>2, <2>3, <2>4, <2>5, <2>6, <2>7 DEF Next, Works, Threads
<1>2. IInv /\ [Next]_vars
        => [\A n \in nodes : n.origin = "archived" => \E m \in nodes' : m.id = n.id]_nodes
  BY <1>1
<1>3. QED  BY <1>2, Invariance, PTL DEF Spec, ArchivedSurvives

=============================================================================
