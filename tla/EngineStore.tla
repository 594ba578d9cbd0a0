---------------------------- MODULE EngineStore ----------------------------
(* The engine over its storage: every operation of MemoryPackTransfer and    *)
(* PersonaReview, by several processes over one FileStorage root or one      *)
(* SQLite database, with processes that die and operating-system calls that  *)
(* fail, and the erasure of the scope while all of them are stopped.         *)
EXTENDS StoreErasure

AllPlans(op, fs) ==
    CASE op.kind = "create"  -> CreatePlans(op, fs)
      [] op.kind = "turn"    -> TurnPlans(op, fs)
      [] op.kind = "archive" -> ArchivePlans(op, fs)
      [] op.kind = "core"    -> CorePlans(op, fs)
      [] op.kind = "import"  -> ImportPlans(op, fs)
      [] op.kind = "save"    -> SavePlans(op, fs)
      [] op.kind = "decide"  -> DecidePlans(op, fs)
      [] op.kind = "approve" -> ApprovePlans(op, fs)
      [] op.kind = "open"    -> OpenPlans(op, fs)
      [] OTHER               -> {}

VARIABLE lost   \* history: a pack may have replaced what is on no disk any more

evars == <<pvars, gone, lost>>

Init == StorageInit /\ MemoryInit /\ gone = FALSE /\ lost = FALSE

(* Dying gives up the guards too.                                            *)
Die(p) ==
    /\ p \in Mortal
    /\ Crash(p)
    /\ engine' = [engine EXCEPT ![p] = [at |-> "idle"]]
    /\ guards' = [r \in DOMAIN guards |-> IF guards[r] = p THEN Free ELSE guards[r]]
    /\ UNCHANGED calls

Store(p) ==
    /\ IF Transactional THEN Transact(p) ELSE StorageStep(p)
    /\ UNCHANGED <<engine, guards, calls>>

(* Nothing left to call.                                                     *)
Done ==
    /\ \A p \in Processes : task[p].at \in {"idle", "down"} /\ engine[p].at = "idle"
    /\ UNCHANGED evars

(* A writer goes with a before-image that was in its memory only, or a pack  *)
(* removes a journal that an approval before it had left behind.             *)
Loses ==
    \/ Unfinished' /\ Recorded' < Recorded
    \/ \E p \in Processes : /\ Writing(p) /\ Whole(p)
                            /\ NextWrite(p).file \notin Images
                            /\ files' # files

Next == /\ \/ \E p \in Processes : /\ MemoryStep(p) \/ PersonaStep(p) \/ Store(p) \/ Die(p)
                                  /\ Keeps
           \/ \E scope \in {"relationship", "complete user"} : Erase(scope)
           \/ Done
        /\ lost' = (lost \/ Loses)

Spec == Init /\ [][Next]_evars

-----------------------------------------------------------------------------
Contents(f) == IF f \in Images THEN Before(f) ELSE files[f]

(* Documents hold what they can hold, one process at a time is inside the    *)
(* storage, a journal is there only while it is needed, and a guard has one  *)
(* holder who knows it.                                                      *)
TypeOK ==
    /\ DOMAIN files = Files
    /\ lock \in Processes \cup {Free}
    /\ \A p \in Processes : task[p].at \in {"begin", "plan", "recover", "rollback", "clean"}
                            => lock = p
    /\ Images \subseteq Files
    /\ \A p \in Processes : task[p].at \in {"recover", "rollback"} => task[p].undo <= Recorded
    /\ \A r \in Relationships : guards[r] # Free => engine[guards[r]].at # "idle"

(* What a caller of execute_memory_pack_write is promised: the whole pack or *)
(* nothing, through failed writes, failed rollbacks and crashes, no matter   *)
(* which process recovers; "done" only when it is there for good; and the    *)
(* writes of a plain method happen one by one, as decided, undisturbed, and  *)
(* are never undone by somebody's rollback.  It ends where a before-image    *)
(* was lost.  Only the removal of an approval's journal may fail and be      *)
(* ignored: Without repeats what was written before it.                      *)
(* file_storage.py:392-733.                                                  *)
Ignored(plan) == {i \in DOMAIN plan : plan[i].failing = "ignore"}
Without(plan, skipped) ==
    [i \in DOMAIN plan |-> IF i \in skipped THEN plan[i - 1] ELSE plan[i]]

Outcomes(op, fs) ==
    LET found == IF op.whole THEN [op EXCEPT !.seen = <<>>] ELSE op
    IN  UNION {{Written(Without(plan, skipped), fs) : skipped \in SUBSET Ignored(plan)} :
               plan \in {q \in AllPlans(found, fs) : ~Denied(q)}}

(* What recovery would make of the root now; what a plain method has left to *)
(* write; and what the caller of a pack was told.                            *)
Base == [f \in Files |-> Contents(f)]
Remaining(t) ==
    IF t.at = "write" /\ ~t.op.whole THEN SubSeq(t.plan, t.done + 1, Len(t.plan)) ELSE <<>>
Answered(t) == IF t.at = "left" /\ t.op.whole THEN t.result ELSE "none"

Asked == [p \in Processes |-> task[p].op]
Left == [p \in Processes |-> Remaining(task[p])]
Applied == [p \in Processes |-> task[p].applied]
Answer == [p \in Processes |-> Answered(task[p])]

Atomic == INSTANCE AtomicStore WITH
              store <- Base, asked <- Asked, left <- Left, applied <- Applied,
              answer <- Answer, broken <- lost,
              Plans <- AllPlans,
              Updates <- Outcomes,
              AtOnce <- LAMBDA fs : fs["receipts"] # Absent,
              Resets <- LAMBDA fs : {Erased(fs)}
ImplementsAtomicStore == Atomic!Spec

(* With SQLite a pack's old-format timeline is appended once for each receipt*)
(* and never again, however often the import is retried after an answer that *)
(* was lost (sqlite_storage.py:302-443).                                     *)
ImportedOnce ==
    Transactional =>
        \A pack \in Packs : \A e \in Range(pack.timeline) :
            Cardinality({i \in DOMAIN files["timeline"] : files["timeline"][i] = e})
              = Cardinality({over \in BOOLEAN : Receipted(pack, over, files)})

(* Archivals, imports and Turns go on while a MemoryPack is exported, and    *)
(* still what was read closes over its own evidence: an export is refused    *)
(* only where something failed (engine.py:2573-2728).                        *)
ExportCloses ==
    \A p \in Processes :
        engine[p].at = "assemble" /\ crashes + faults = 0 => Closes(engine[p])

(* Concurrent initialisations and imports leave a scope with one             *)
(* relationship, unless a before-image was lost: the registry never names    *)
(* two, and every Turn that was committed is of it.                          *)
OneRelationship ==
    \/ lost
    \/ /\ Contents("registry") \subseteq {Contents("profile").rel}
       /\ Contents("turns") # {} => Contents("profile").rel \in Contents("registry")

(* A relationship is pinned only to a Manifest that is there and that an     *)
(* approval of its proposal made, whether it was approved here or imported;  *)
(* while the two documents may disagree the approval's journal is there to   *)
(* make them agree (file_storage.py:2791-2917, memory_pack_transfer.py:909). *)
PinnedFaithfully ==
    LET pin == Contents("profile").manifest
        approval == {ApprovalJournal(r) : r \in 1..2}
    IN  pin # 0 /\ (\A f \in approval : Contents(f) = Absent)
        => /\ \E m \in Contents("compilations").manifests : m.rev = pin
           /\ Contents("compilations").revisions[pin].status \in {"approved", "revoked"}
PinnedIsApproved == lost \/ PinnedFaithfully

(* "Persists one target's original bytes before its first replacement"       *)
(* (file_storage.py:618): what a pack replaced can be put back, whoever dies.*)
BeforeImagesAreKept == ~lost

(* initialize_relationship "Initializes one isolated Agent x User            *)
(* relationship idempotently" (engine.py:529): when it returns, the          *)
(* relationship can have a Turn, unless somebody is at work in the storage.  *)
InitializeIsRepeatable ==
    \A p \in Processes :
        /\ task[p].at = "left"
        /\ task[p].op.kind = "create"
        /\ task[p].result = "done"
        => task[p].op.rel \in files["registry"] \/ lock # Free

(* "Consequently, success means 'the selected data was removed from this     *)
(* verified live store and its local projections were rebuilt'"              *)
(* (docs/b1-implementation-contract.md:143): when a scope was erased, nothing*)
(* of it is there, and nothing comes back by opening the store again.        *)
ErasedIsGone ==
    gone => \A f \in Files \ {ApprovalJournal(r) : r \in 1..MaxRevisions} :
                files[f] = EmptyStore(RevokedReceipts(files))[f]
=============================================================================
