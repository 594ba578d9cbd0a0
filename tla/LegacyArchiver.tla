--------------------------- MODULE LegacyArchiver ---------------------------
(***************************************************************************)
(* The archival path behind the deprecated remember(): a persistent task   *)
(* queue in one SQLite table, the AsyncArchiverWorker threads that claim   *)
(* tasks from it, and the memory nodes they and the foreground calls       *)
(* (recall, remember_thought, resolve_thought) read and write back.        *)
(*                                                                         *)
(* A loop thread is the background thread of one engine; a host thread     *)
(* calls process_pending() or an inline remember().  Each has a process of *)
(* its own, and every process constructs its own PersistentTaskQueue on    *)
(* the same file, which is when abandoned claims are recovered.            *)
(*                                                                         *)
(* Every queue operation and every storage call is one transaction and so  *)
(* one action, but fail(), which reads before its transaction begins; what *)
(* happens between two of them is free to interleave.                      *)
(* Time is abstracted to what the code compares it with: a retry is due or *)
(* not, a claim is older than the processing timeout or not.  Tasks are    *)
(* numbered in the order of their created_at.                              *)
(***************************************************************************)
EXTENDS Naturals, FiniteSets

CONSTANTS
  MaxTasks,     \* bound: tasks enqueued in one behaviour
  MaxNodes,     \* bound: memory nodes ever minted
  Loops,        \* background threads, one per engine
  Hosts,        \* threads that call process_pending() or an inline remember()
  Callers,      \* threads that call the foreground memory operations
  MaxAttempts   \* max_attempts of a task

ASSUME BoundsAssumption ==
  /\ MaxTasks \in Nat
  /\ MaxNodes \in Nat
  /\ MaxAttempts \in Nat \ {0}

VARIABLES
  status,       \* status column of each task
  attempts,     \* attempts column, up to MaxAttempts
  due,          \* pending tasks whose next_attempt_at has passed
  overdue,      \* tasks in processing since before the recovery cutoff
  thread,       \* what each AsyncArchiverWorker thread is doing
  running,      \* loop threads whose worker's running flag is set
  nodes,        \* the memory nodes of the pair
  minted,       \* node ids (uuid4) handed out so far
  caller,       \* what each foreground call is doing
  entries,      \* history: timeline entries a task has appended (Many = more)
  trouble       \* history: what has interfered with a task

queue   == <<status, attempts, due, overdue>>
memory  == <<nodes, minted>>
history == <<entries, trouble>>
vars    == <<queue, thread, running, memory, caller, history>>

Tasks   == 1..MaxTasks
Inline  == 0                    \* process_now(): a turn without a task
Threads == Loops \cup Hosts
Many    == 2                    \* bound: counts above one are not told apart

Statuses == {"absent", "pending", "processing", "completed", "failed"}
Origins  == {"legacy", "thought", "archived"}
Node     == [id: 1..MaxNodes, origin: Origins, unresolved: BOOLEAN]

\* Between dequeue() and the return of complete() or fail().
Busy == {"extract", "answered", "timeline", "load", "save", "complete", "fail", "settle"}

Thread == [pc: {"down", "off", "idle"} \cup Busy, job: Tasks \cup {Inline},
           found: BOOLEAN,   \* the extraction found memories to save
           seen: SUBSET Node,
           tries: Nat]       \* the attempts fail() is about to write
At(pc) == [pc |-> pc, job |-> Inline, found |-> FALSE, seen |-> {}, tries |-> 0]

Operations == {"recall", "remember_thought", "resolve_thought"}
Caller == [pc: {"idle", "save"}, op: Operations, seen: SUBSET Node]

Init ==
  /\ status = [t \in Tasks |-> "absent"]
  /\ attempts = [t \in Tasks |-> 0]
  /\ due = {}
  /\ overdue = {}
  /\ thread = [w \in Threads |-> At("down")]
  /\ running = {}
  /\ nodes = {}
  /\ minted = 0
  /\ caller = [c \in Callers |-> [pc |-> "idle", op |-> "recall", seen |-> {}]]
  /\ entries = [t \in Tasks |-> 0]
  /\ trouble = [t \in Tasks |-> {}]

-----------------------------------------------------------------------------
(* The thread that is between dequeue() and complete() or fail() of a task. *)

Holds(w, t) == thread[w].pc \in Busy /\ thread[w].job = t
Orphaned(t) == status[t] = "processing" /\ \A w \in Threads : ~Holds(w, t)

Goes(w, pc) == thread' = [thread EXCEPT ![w].pc = pc]
Rests(w)    == thread' = [thread EXCEPT ![w] = At("idle")]

\* _process_archival() has returned: a claimed task is completed next.
Returns(w) ==
  thread' = [thread EXCEPT ![w] =
    IF @.job = Inline THEN At("idle") ELSE [At("complete") EXCEPT !.job = thread[w].job]]

-----------------------------------------------------------------------------
(* The queue table. *)

Abandoned == {t \in Tasks : status[t] = "processing" /\ t \in overdue}

\* Faulty: dequeue() also takes over a claim that is overdue.
ReadyOrOverdue == {t \in Tasks : \/ status[t] = "pending" /\ t \in due
                                 \/ t \in Abandoned}

\* Faulty: a task that has failed once is not picked up again.
ReadyFresh == {t \in Tasks : status[t] = "pending" /\ t \in due /\ attempts[t] = 0}

Ready     == {t \in Tasks : status[t] = "pending" /\ t \in due}
Oldest    == {t \in Ready : \A u \in Ready : t <= u}

\* The status fail() gives a task after its n-th attempt.
AfterFailure(n) == IF n >= MaxAttempts THEN "failed" ELSE "pending"

Enqueue(t) ==
  /\ status[t] = "absent"
  /\ \A u \in Tasks : u < t => status[u] # "absent"
  /\ status' = [status EXCEPT ![t] = "pending"]
  /\ due' = due \cup {t}
  /\ UNCHANGED <<attempts, overdue, thread, running, memory, caller, history>>

\* A process starts and constructs its queue, which recovers abandoned claims.
Open(w) ==
  /\ thread[w].pc = "down"
  /\ thread' = [thread EXCEPT ![w] = At(IF w \in Loops THEN "off" ELSE "idle")]
  /\ status' = [t \in Tasks |-> IF t \in Abandoned THEN "pending" ELSE status[t]]
  /\ due' = due \cup Abandoned
  /\ overdue' = overdue \ Abandoned
  /\ trouble' = [t \in Tasks |-> IF t \in Abandoned THEN trouble[t] \cup {"recovered"}
                                 ELSE trouble[t]]
  /\ UNCHANGED <<attempts, running, memory, caller, entries>>

Dequeue(w) ==
  /\ thread[w].pc = "idle"
  /\ w \in Loops => w \in running
  /\ \E t \in Oldest :
        /\ status' = [status EXCEPT ![t] = "processing"]
        /\ due' = due \ {t}
        /\ thread' = [thread EXCEPT ![w] = [At("extract") EXCEPT !.job = t]]
  /\ UNCHANGED <<attempts, overdue, running, memory, caller, history>>

\* complete() names the task only: it does not ask who claimed it.
Complete(w) ==
  /\ thread[w].pc = "complete"
  /\ status' = [status EXCEPT ![thread[w].job] = "completed"]
  /\ due' = due \ {thread[w].job}
  /\ overdue' = overdue \ {thread[w].job}
  /\ Rests(w)
  /\ UNCHANGED <<attempts, running, memory, caller, history>>

\* The only exception process_next() handles with fail() is one of complete().
CompleteRaises(w) ==
  /\ thread[w].pc = "complete"
  /\ Goes(w, "fail")
  /\ UNCHANGED <<queue, running, memory, caller, history>>

\* One attempt more; above MaxAttempts they are not told apart.
NextAttempt(n) == IF n < MaxAttempts THEN n + 1 ELSE n

\* fail() reads the attempts before its transaction begins ...
FailReads(w) ==
  /\ thread[w].pc = "fail"
  /\ thread' = [thread EXCEPT ![w].pc = "settle",
                              ![w].tries = NextAttempt(attempts[thread[w].job])]
  /\ UNCHANGED <<queue, running, memory, caller, history>>

\* ... and writes them, whatever became of the task: it too names the task only.
Fail(w) ==
  LET t == thread[w].job
      n == thread[w].tries
  IN /\ thread[w].pc = "settle"
     /\ status' = [status EXCEPT ![t] = AfterFailure(n)]
     /\ attempts' = [attempts EXCEPT ![t] = n]
     /\ due' = due \ {t}
     /\ overdue' = overdue \ {t}
     /\ trouble' = [trouble EXCEPT ![t] = @ \cup {"failed"}]
     /\ Rests(w)
     /\ UNCHANGED <<running, memory, caller, entries>>

\* The loop logs the exception and goes on; process_pending() passes it up.
FailRaises(w) ==
  /\ thread[w].pc \in {"fail", "settle"}
  /\ Rests(w)
  /\ UNCHANGED <<queue, running, memory, caller, history>>

RetryFailed ==
  LET failed == {t \in Tasks : status[t] = "failed"}
  IN /\ failed # {}
     /\ status' = [t \in Tasks |-> IF t \in failed THEN "pending" ELSE status[t]]
     /\ attempts' = [t \in Tasks |-> IF t \in failed THEN 0 ELSE attempts[t]]
     /\ due' = due \cup failed
     /\ UNCHANGED <<overdue, thread, running, memory, caller, history>>

BackoffElapses(t) ==
  /\ status[t] = "pending"
  /\ t \notin due
  /\ due' = due \cup {t}
  /\ UNCHANGED <<status, attempts, overdue, thread, running, memory, caller, history>>

TimeoutElapses(t) ==
  /\ status[t] = "processing"
  /\ t \notin overdue
  /\ overdue' = overdue \cup {t}
  /\ UNCHANGED <<status, attempts, due, thread, running, memory, caller, history>>

-----------------------------------------------------------------------------
(* The background thread and its process. *)

Alive(w) == thread[w].pc \notin {"down", "off"}

\* start() returns at once while the old thread is still alive.
Start(w) ==
  /\ thread[w].pc # "down"
  /\ IF Alive(w) THEN UNCHANGED <<thread, running>>
                 ELSE Goes(w, "idle") /\ running' = running \cup {w}
  /\ UNCHANGED <<queue, memory, caller, history>>

\* shutdown() waits for a second and returns, whatever the thread is doing.
Shutdown(w) ==
  /\ thread[w].pc # "down"
  /\ running' = running \ {w}
  /\ UNCHANGED <<queue, thread, memory, caller, history>>

LoopEnds(w) ==
  /\ thread[w].pc = "idle"
  /\ w \notin running
  /\ Goes(w, "off")
  /\ UNCHANGED <<queue, running, memory, caller, history>>

\* The process dies, and its thread between two transactions.
Crash(w) ==
  /\ thread[w].pc # "down"
  /\ thread' = [thread EXCEPT ![w] = At("down")]
  /\ running' = running \ {w}
  /\ UNCHANGED <<queue, memory, caller, history>>

-----------------------------------------------------------------------------
(* _process_archival(): one model call, then one transaction per write. *)

ProcessNow(w) ==
  /\ thread[w].pc = "idle"
  /\ Goes(w, "extract")
  /\ UNCHANGED <<queue, running, memory, caller, history>>

Generate(w) ==
  /\ thread[w].pc = "extract"
  /\ Goes(w, "answered")
  /\ UNCHANGED <<queue, running, memory, caller, history>>

\* The answer is empty, or parses into what is to be written.
Parse(w) ==
  /\ thread[w].pc = "answered"
  /\ \/ Returns(w)
     \/ \E next \in {"timeline", "load"}, found \in BOOLEAN :
          thread' = [thread EXCEPT ![w].pc = next, ![w].found = found]
  /\ UNCHANGED <<queue, running, memory, caller, history>>

\* Every exception of the model, the parser or the store ends here.
Swallow(w) ==
  /\ thread[w].pc \in {"extract", "answered", "timeline", "load", "save"}
  /\ Returns(w)
  /\ UNCHANGED <<queue, running, memory, caller, history>>

\* One more, up to Many.
More(n) == IF n < Many THEN n + 1 ELSE n

AddTimelineEntry(w) ==
  /\ thread[w].pc = "timeline"
  /\ Goes(w, "load")
  /\ entries' = [t \in Tasks |-> IF t = thread[w].job THEN More(entries[t]) ELSE entries[t]]
  /\ UNCHANGED <<queue, running, memory, caller, trouble>>

LoadNodes(w) ==
  /\ thread[w].pc = "load"
  /\ IF thread[w].found
       THEN thread' = [thread EXCEPT ![w].pc = "save", ![w].seen = nodes]
       ELSE Returns(w)
  /\ UNCHANGED <<queue, running, memory, caller, history>>

\* Faulty: the list is the truth, whatever the provenance of what it lacks.
SavedWhole(list) == list

\* save_nodes(): the caller's list replaces everything but nodes with archival
\* provenance it does not mention.
Saved(list) ==
  list \cup {n \in nodes : n.origin = "archived" /\ \A m \in list : m.id # n.id}

SaveNodes(w) ==
  /\ thread[w].pc = "save"
  /\ minted < MaxNodes
  /\ minted' = minted + 1
  /\ \E open \in BOOLEAN :
       nodes' = Saved(thread[w].seen \cup
                  {[id |-> minted + 1, origin |-> "legacy", unresolved |-> open]})
  /\ Returns(w)
  /\ UNCHANGED <<queue, running, caller, history>>

-----------------------------------------------------------------------------
(* Foreground calls: load_nodes(), then save_nodes() of the changed list.    *)
(* recall() makes two such rounds, each a "recall" here.                     *)

CallLoads(c, op) ==
  /\ caller[c].pc = "idle"
  /\ op # "remember_thought" => nodes # {}
  /\ caller' = [caller EXCEPT ![c] = [pc |-> "save", op |-> op, seen |-> nodes]]
  /\ UNCHANGED <<queue, thread, running, memory, history>>

Finished(c) == caller' = [caller EXCEPT ![c] = [pc |-> "idle", op |-> "recall", seen |-> {}]]

RecallSaves(c) ==
  /\ caller[c].pc = "save" /\ caller[c].op = "recall"
  /\ nodes' = Saved(caller[c].seen)
  /\ Finished(c)
  /\ UNCHANGED <<queue, thread, running, minted, history>>

RememberThoughtSaves(c) ==
  /\ caller[c].pc = "save" /\ caller[c].op = "remember_thought"
  /\ minted < MaxNodes
  /\ minted' = minted + 1
  /\ \E open \in BOOLEAN :
       nodes' = Saved(caller[c].seen \cup
                  {[id |-> minted + 1, origin |-> "thought", unresolved |-> open]})
  /\ Finished(c)
  /\ UNCHANGED <<queue, thread, running, history>>

ResolveThoughtSaves(c) ==
  /\ caller[c].pc = "save" /\ caller[c].op = "resolve_thought"
  /\ \E n \in caller[c].seen :
       nodes' = Saved((caller[c].seen \ {n}) \cup {[n EXCEPT !.unresolved = FALSE]})
  /\ Finished(c)
  /\ UNCHANGED <<queue, thread, running, minted, history>>

\* A recall that reinforces nothing, a node id not found, or a failure.
CallEnds(c) ==
  /\ caller[c].pc = "save"
  /\ Finished(c)
  /\ UNCHANGED <<queue, thread, running, memory, history>>

\* The reliable path publishes a memory with its provenance.
Publish ==
  /\ minted < MaxNodes
  /\ minted' = minted + 1
  /\ \E open \in BOOLEAN :
       nodes' = nodes \cup {[id |-> minted + 1, origin |-> "archived", unresolved |-> open]}
  /\ UNCHANGED <<queue, thread, running, caller, history>>

-----------------------------------------------------------------------------

Works(w) ==
  \/ Dequeue(w)
  \/ Generate(w) \/ Parse(w) \/ Swallow(w) \/ AddTimelineEntry(w)
  \/ LoadNodes(w) \/ SaveNodes(w)
  \/ Complete(w) \/ CompleteRaises(w)
  \/ FailReads(w) \/ Fail(w) \/ FailRaises(w)

CallSteps(c) ==
  \/ \E op \in Operations : CallLoads(c, op)
  \/ RecallSaves(c) \/ RememberThoughtSaves(c) \/ ResolveThoughtSaves(c)
  \/ CallEnds(c)

Next ==
  \/ \E t \in Tasks : Enqueue(t) \/ BackoffElapses(t) \/ TimeoutElapses(t)
  \/ RetryFailed
  \/ \E w \in Threads : Open(w) \/ Works(w) \/ Crash(w)
  \/ \E w \in Loops : Start(w) \/ Shutdown(w) \/ LoopEnds(w)
  \/ \E w \in Hosts : ProcessNow(w)
  \/ \E c \in Callers : CallSteps(c)
  \/ Publish

Spec == Init /\ [][Next]_vars

\* A thread that is not stopped by its host keeps going, a host's thread comes to
\* the end of its call, time passes, and a completion that is attempted again and
\* again is written in the end.
Fairness ==
  /\ \A w \in Loops : WF_vars(Works(w))
  /\ \A w \in Hosts : WF_vars(thread[w].pc # "idle" /\ Works(w))
  /\ \A w \in Threads : SF_vars(Complete(w))
  /\ \A t \in Tasks : WF_vars(BackoffElapses(t))

FairSpec == Spec /\ Fairness

-----------------------------------------------------------------------------
(* Properties. *)

\* Types of the variables.
TypeOK ==
  /\ status \in [Tasks -> Statuses]
  /\ attempts \in [Tasks -> Nat]
  /\ due \subseteq Tasks
  /\ overdue \subseteq Tasks
  /\ thread \in [Threads -> Thread]
  /\ running \subseteq Loops
  /\ nodes \subseteq Node
  /\ minted \in 0..MaxNodes
  /\ caller \in [Callers -> Caller]
  /\ entries \in [Tasks -> 0..Many]
  /\ trouble \in [Tasks -> SUBSET {"recovered", "failed"}]

\* Unless the timeout of a claim was taken for a crash, a task that somebody
\* works on is PROCESSING and nobody else works on it, however many processes
\* share the queue, die and come back.
ExclusiveClaim ==
  \A t \in Tasks, w \in Threads :
    Holds(w, t) /\ "recovered" \notin trouble[t] =>
      /\ status[t] = "processing"
      /\ \A v \in Threads : Holds(v, t) => v = w

\* A task is retried while it has attempts left and is dead-lettered when it has
\* none, also when workers that lost their claim report a failure.
RetryBudget ==
  \A t \in Tasks :
    /\ status[t] \in {"pending", "processing"} => attempts[t] < MaxAttempts
    /\ status[t] = "failed" => attempts[t] >= MaxAttempts

\* At least once is exactly once as long as nothing goes wrong: only a recovered
\* claim or a failed settlement lets a turn enter the timeline a second time.
OnceUntroubled == \A t \in Tasks : trouble[t] = {} => entries[t] <= 1

\* What a claim is worth: it is exclusive, and its turn is archived once, unless
\* the timeout mistook a slow worker for a dead one or a settlement failed.
ClaimIsHonoured == ExclusiveClaim /\ OnceUntroubled

\* Only a worker whose claim was recovered under its hands can reopen a task
\* that is COMPLETED.
CompletedStays ==
  [][\A t \in Tasks : status[t] = "completed" /\ "recovered" \notin trouble[t]
       => status'[t] = "completed"]_status

\* No save_nodes() of a list that was read earlier removes a memory that the
\* reliable path has published meanwhile.
ArchivedSurvives ==
  [][\A n \in nodes : n.origin = "archived" => \E m \in nodes' : m.id = n.id]_nodes

\* A pending task is served once hosts stop crashing, stopping and restarting
\* their workers: some thread brings it to an end, or it was orphaned by a crash
\* or by a settlement that could not be written, or no worker is left running.
\* (A task that kills its worker every time is claimed for ever: a crash does not
\* count as an attempt.)
WorkersSettle ==
  /\ \A w \in Loops : <>[](w \in running) \/ <>[](w \notin running)
  /\ \A w \in Threads : <>[](thread[w].pc = "down") \/ <>[](thread[w].pc # "down")
Served ==
  WorkersSettle =>
    \A t \in Tasks :
      status[t] = "pending" ~>
        status[t] \in {"completed", "failed"} \/ Orphaned(t) \/ running = {}

=============================================================================
