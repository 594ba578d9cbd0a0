---------------------------- MODULE FileStorage ----------------------------
(* The storage root of a FileStorage: JSON documents, each replaced          *)
(* atomically, the root-wide lock every writer holds, and the before-image   *)
(* journal that makes execute_memory_pack_write all or nothing across errors *)
(* and crashes.  What an operation writes is left to Plans; the modules that *)
(* extend this one say it for the operations they model.                     *)
(*                                                                           *)
(* A process holds the lock from entering the storage method to leaving it,  *)
(* so what its method reads it can read when it plans its writes.  Every     *)
(* single os.replace is one step; a crash may come between any two.          *)
EXTENDS Integers, Sequences, FiniteSets, Functions, TLC

CONSTANTS Processes,      \* engines, each with a FileStorage of its own
          Files,          \* the documents under the root
          Absent,         \* the contents of a document that does not exist
          Free,           \* the holder of the lock nobody holds
          Nothing,        \* no journal
          Plans(_, _),    \* Plans(op, files): what op may write when it finds files
          MaxCrashes,     \* bound: processes that die
          MaxFaults       \* bound: calls of the operating system that fail

ASSUME StorageAssumption == Free \notin Processes /\ Nothing \notin Files

VARIABLES files,     \* [Files -> contents]
          journal,   \* _memory_pack_write_transaction.json, as its writer remembers it
          lock,      \* _turn_context_snapshot.lock
          task,      \* what each process is doing
          crashes, faults

storage == <<files, journal, lock>>
vars == <<files, journal, lock, task, crashes, faults>>

(* One _write_json_atomic: the document, its new contents (Absent: unlink)   *)
(* and what the method does when it fails.                                   *)
Put(f, v) == [file |-> f, to |-> v, failing |-> "raise"]

(* Where a plan ends because the method refuses to go on.                    *)
Deny(why) == [file |-> Nothing, to |-> why, failing |-> "denied"]

NoOp == [kind |-> "none", whole |-> FALSE]
Idle == [at |-> "idle", op |-> NoOp, plan |-> <<>>, done |-> 0, again |-> FALSE,
         undo |-> 0, applied |-> FALSE, result |-> "none"]

(* The contents after the first n writes of a plan.                          *)
After(plan, n, fs) ==
    [f \in DOMAIN fs |->
        LET writes == {i \in 1..n : plan[i].file = f}
        IN  IF writes = {} THEN fs[f]
            ELSE plan[CHOOSE i \in writes : \A j \in writes : j <= i].to]

(* Before-images in the order of the first write to each document.  The last *)
(* one may be in the memory of the lock's holder only (not saved).           *)
NewJournal == [state |-> "active", entries |-> <<>>, saved |-> TRUE]
Unfinished == journal # Nothing /\ journal.state = "active"
Recorded == IF Unfinished THEN Len(journal.entries) ELSE 0
Images == IF Unfinished THEN {journal.entries[i].file : i \in 1..Recorded} ELSE {}
Before(f) == journal.entries[CHOOSE i \in 1..Recorded : journal.entries[i].file = f].before

(* The journal another process finds when its writer is gone.                *)
OnDisk == IF Unfinished /\ ~journal.saved
          THEN [journal EXCEPT !.entries = SubSeq(@, 1, Recorded - 1), !.saved = TRUE]
          ELSE journal

(* What recovery makes of the root: the committed contents.                  *)
Committed == [f \in Files |-> IF f \in Images THEN Before(f) ELSE files[f]]

StorageInit ==
    /\ journal = Nothing
    /\ lock = Free
    /\ task = [p \in Processes |-> Idle]
    /\ crashes = 0
    /\ faults = 0

-----------------------------------------------------------------------------
At(p, step) == task[p].at = step
Whole(p) == task[p].op.whole
Goto(p, step) == task' = [task EXCEPT ![p].at = step]

(* The method returns or raises, and the lock is released.                   *)
Leave(p, result) ==
    /\ task' = [task EXCEPT ![p].at = "left", ![p].result = result]
    /\ lock' = IF lock = p THEN Free ELSE lock

Fault == faults < MaxFaults /\ faults' = faults + 1

(* Calls a storage method.                                                   *)
Call(p, op) == task' = [task EXCEPT ![p] = [Idle EXCEPT !.at = "wait", !.op = op]]

\* Faulty: without the recovery.
EnterUnrecovered(p) ==
    /\ At(p, "wait")
    /\ lock = Free
    /\ lock' = p
    /\ Goto(p, IF Whole(p) THEN "begin" ELSE "plan")
    /\ UNCHANGED <<files, journal, crashes, faults>>

(* _memory_pack_write_barrier_guard: the lock, then recovery if a journal is *)
(* there; a committed journal is only removed.                               *)
Enter(p) ==
    /\ At(p, "wait")
    /\ lock = Free
    /\ lock' = p
    /\ task' = IF journal = Nothing
               THEN [task EXCEPT ![p].at = IF Whole(p) THEN "begin" ELSE "plan"]
               ELSE [task EXCEPT ![p].at = "recover", ![p].undo = Recorded]
    /\ UNCHANGED <<files, journal, crashes, faults>>

(* Rollback restores one before-image at a time, the last one first.         *)
Restore(p) ==
    /\ task[p].at \in {"recover", "rollback"}
    /\ task[p].undo > 0
    /\ LET entry == journal.entries[task[p].undo]
       IN  files' = [files EXCEPT ![entry.file] = entry.before]
    /\ task' = [task EXCEPT ![p].undo = @ - 1]
    /\ UNCHANGED <<journal, lock, crashes, faults>>

(* The journal goes when everything is restored, and the method goes on or   *)
(* its caller learns why it was rolled back.                                 *)
Restored(p) ==
    /\ task[p].undo = 0
    /\ journal' = Nothing
    /\ \/ /\ At(p, "recover")
          /\ Goto(p, IF Whole(p) THEN "begin" ELSE "plan")
          /\ UNCHANGED lock
       \/ /\ At(p, "rollback")
          /\ Leave(p, task[p].result)
    /\ UNCHANGED <<files, crashes, faults>>

(* Recovery or rollback fails: the journal stays for the next writer.        *)
CannotRestore(p) ==
    /\ task[p].at \in {"recover", "rollback"}
    /\ Fault
    /\ Leave(p, "error")
    /\ journal' = OnDisk
    /\ UNCHANGED <<files, crashes>>

(* execute_memory_pack_write makes its journal durable before anything else. *)
Begin(p) ==
    /\ At(p, "begin")
    /\ journal' = NewJournal
    /\ Goto(p, "plan")
    /\ UNCHANGED <<files, lock, crashes, faults>>

(* A failed replace may have happened all the same.                          *)
CannotBegin(p) ==
    /\ At(p, "begin")
    /\ Fault
    /\ journal' \in {Nothing, NewJournal}
    /\ Leave(p, "error")
    /\ UNCHANGED <<files, crashes>>

(* The method reads what it needs and decides what to write.                 *)
Plan(p) ==
    /\ At(p, "plan")
    /\ \E plan \in Plans(task[p].op, files) :
          task' = [task EXCEPT ![p].at = "write", ![p].plan = plan]
    /\ UNCHANGED <<files, journal, lock, crashes, faults>>

RollBack(p, result) ==
    /\ task' = [task EXCEPT ![p].at = "rollback", ![p].undo = Recorded, ![p].result = result]
    /\ UNCHANGED <<lock, journal>>

(* An exception leaves the method; around a pack it is rolled back first.    *)
Raise(p, result) ==
    IF Whole(p) THEN RollBack(p, result) ELSE Leave(p, result) /\ UNCHANGED journal

NextWrite(p) == task[p].plan[task[p].done + 1]

Refuse(p) ==
    /\ At(p, "write")
    /\ task[p].done < Len(task[p].plan)
    /\ NextWrite(p).failing = "denied"
    /\ Raise(p, NextWrite(p).to)
    /\ UNCHANGED <<files, crashes, faults>>

Writing(p) ==
    /\ At(p, "write")
    /\ task[p].done < Len(task[p].plan)
    /\ NextWrite(p).failing # "denied"

Imaged(f, saved) ==
    [journal EXCEPT !.entries = Append(@, [file |-> f, before |-> files[f]]), !.saved = saved]

(* A replace within a pack needs the before-image of its document; the       *)
(* removal of an approval's journal, a mere os.remove, does not.             *)
NeedsImage(p) ==
    Whole(p) /\ NextWrite(p).failing # "ignore" /\ NextWrite(p).file \notin Images

TriesAgain(p) == NextWrite(p).failing = "again" /\ ~task[p].again

(* The first replace of a document within a pack journals what it replaces.  *)
Record(p) ==
    /\ Writing(p)
    /\ NeedsImage(p)
    /\ journal' = Imaged(NextWrite(p).file, TRUE)
    /\ UNCHANGED <<files, lock, task, crashes, faults>>

(* The before-image cannot be read, or the journal cannot be written, or was *)
(* after all.  An approval tries once more, and if it finds the entry in     *)
(* memory it goes on as if it were durable.                                  *)
CannotRecord(p) ==
    /\ Writing(p)
    /\ NeedsImage(p)
    /\ Fault
    /\ LET f == NextWrite(p).file
       IN  IF TriesAgain(p)
           THEN /\ journal' \in {journal, Imaged(f, FALSE), Imaged(f, TRUE)}
                /\ task' = [task EXCEPT ![p].again = TRUE]
           ELSE /\ journal' \in {journal, Imaged(f, TRUE)}
                /\ task' = [task EXCEPT ![p].at = "rollback", ![p].undo = Recorded,
                                        ![p].result = "error"]
    /\ UNCHANGED <<files, lock, crashes>>

Write(p) ==
    /\ Writing(p)
    /\ ~NeedsImage(p)
    /\ files' = [files EXCEPT ![NextWrite(p).file] = NextWrite(p).to]
    /\ task' = [task EXCEPT ![p].done = @ + 1]
    /\ UNCHANGED <<journal, lock, crashes, faults>>

(* A write fails, before or after the replace.  Some methods try once more   *)
(* and some do not mind.                                                     *)
CannotWrite(p) ==
    /\ Writing(p)
    /\ ~NeedsImage(p)
    /\ Fault
    /\ files' \in {files, [files EXCEPT ![NextWrite(p).file] = NextWrite(p).to]}
    /\ CASE NextWrite(p).failing = "ignore" ->
              task' = [task EXCEPT ![p].done = @ + 1] /\ UNCHANGED <<journal, lock>>
         [] TriesAgain(p) ->
              task' = [task EXCEPT ![p].again = TRUE] /\ UNCHANGED <<journal, lock>>
         [] OTHER -> Raise(p, "error")
    /\ UNCHANGED crashes

(* Everything written: a plain method returns, a pack is committed by the    *)
(* state of its journal.                                                     *)
Return(p) ==
    /\ At(p, "write")
    /\ task[p].done = Len(task[p].plan)
    /\ ~Whole(p)
    /\ Leave(p, "done")
    /\ UNCHANGED <<files, journal, crashes, faults>>

Committing(p) == At(p, "write") /\ task[p].done = Len(task[p].plan) /\ Whole(p)

Marked == [journal EXCEPT !.state = "committed", !.saved = TRUE]

Commit(p) ==
    /\ Committing(p)
    /\ journal' = Marked
    /\ task' = [task EXCEPT ![p].at = "clean", ![p].applied = TRUE]
    /\ UNCHANGED <<files, lock, crashes, faults>>

(* Publishing the commit fails.  The journal is read back: still active and  *)
(* complete means rolled back, committed after all means success.  When it   *)
(* cannot be read or is neither, the error is raised and the next writer     *)
(* decides by what it finds.                                                 *)
CannotCommit(p) ==
    /\ Committing(p)
    /\ Fault
    /\ \/ journal.saved /\ RollBack(p, "error")
       \/ Leave(p, "error") /\ journal' = OnDisk
       \/ /\ journal' = Marked
          /\ \/ task' = [task EXCEPT ![p].at = "clean", ![p].applied = TRUE] /\ UNCHANGED lock
             \/ /\ task' = [task EXCEPT ![p].at = "left", ![p].applied = TRUE,
                                        ![p].result = "error"]
                /\ lock' = Free
    /\ UNCHANGED <<files, crashes>>

(* Success is reported only when the journal is gone.                        *)
Clean(p) ==
    /\ At(p, "clean")
    /\ journal' = Nothing
    /\ Leave(p, "done")
    /\ UNCHANGED <<files, crashes, faults>>

CannotClean(p) ==
    /\ At(p, "clean")
    /\ Fault
    /\ journal' \in {journal, Nothing}
    /\ Leave(p, "error")
    /\ UNCHANGED <<files, crashes>>

(* The process dies; the operating system releases its locks.                *)
Crash(p) ==
    /\ crashes < MaxCrashes
    /\ crashes' = crashes + 1
    /\ task[p].at # "down"
    /\ task' = [task EXCEPT ![p] = [Idle EXCEPT !.at = "down"]]
    /\ lock' = IF lock = p THEN Free ELSE lock
    /\ journal' = IF lock = p THEN OnDisk ELSE journal
    /\ UNCHANGED <<files, faults>>

StorageStep(p) ==
    \/ Enter(p)
    \/ Restore(p) \/ Restored(p) \/ CannotRestore(p)
    \/ Begin(p) \/ CannotBegin(p)
    \/ Plan(p) \/ Refuse(p)
    \/ Record(p) \/ CannotRecord(p)
    \/ Write(p) \/ CannotWrite(p)
    \/ Return(p)
    \/ Commit(p) \/ CannotCommit(p)
    \/ Clean(p) \/ CannotClean(p)
=============================================================================
