---------------------------- MODULE StoreErasure ----------------------------
(* Erasing the whole relationship of a scope, or a complete user, with the   *)
(* lifecycle coordinator while every host is stopped: the documents of the   *)
(* scope go from a private copy, the copy is opened to see what is left of   *)
(* the relationship, and takes the place of the store (Lifecycle models how).*)
(* The erasure reads the raw documents and knows nothing of the journals     *)
(* beside them: opening the root is what acts on those.                      *)
EXTENDS PersonaReview

CONSTANT EraseInterrupted  \* whether a store may be erased that was left with journals

VARIABLE gone   \* a scope was erased, and nobody has called the engine since

Leftovers == {r \in 1..2 : files[ApprovalJournal(r)] # Absent}

(* inspect_erasure_scope finds the relationship in the raw copy.             *)
Selected == files["profile"].rel # Absent

(* _erase_file_relationship: the directory of the pair, the documents named  *)
(* after the relationship and its Blueprint, and its part of what is shared. *)
PairDocuments == {"profile", "nodes", "core", "timeline"}
Aggregates == {"turns", "compilations"}
Shared == {"ledger", "registry"}
ErasedFiles(fs) ==
    [f \in Files |-> IF f \in PairDocuments \cup Aggregates \cup Shared
                     THEN EmptyStore(Absent)[f] ELSE fs[f]]

(* _erase_sqlite_relationship, with the receipts that would answer an import *)
(* into the scope.                                                           *)
ErasedRows(fs) == EmptyStore(RevokedReceipts(fs))

Erased(fs) == IF fs["receipts"] = Absent THEN ErasedFiles(fs) ELSE ErasedRows(fs)

(* Every relationship of the user, and every receipt for one.                *)
ErasedUser(fs) == [Erased(fs) EXCEPT !["receipts"] = RevokedReceipts(fs)]

(* FileStorage.__init__ on the copy: the journal of an unfinished pack is    *)
(* rolled back, the approval journals are installed.                         *)
Restoring(fs) == [f \in Files |-> IF f \in Images THEN Before(f) ELSE fs[f]]
Opened(fs) == Written(Replays(Restoring(fs)), Restoring(fs))

(* validate_staged_storage_semantics: nothing to say of a relationship that  *)
(* is gone; one that is there must be the one that was selected and survive  *)
(* an export and an import into a fresh store.                               *)
Survives(fs, rel) ==
    /\ fs["profile"].rel = rel
    /\ Closes([nodes |-> fs["nodes"] \cup fs["ledger"].artifacts,
               turns |-> {t.id : t \in fs["turns"]}, ledger |-> fs["ledger"].tombstones])
    /\ WellCompiled([compilations |->
           [revisions |-> Revisions(fs), manifests |-> Manifests(fs),
            pin |-> fs["profile"].manifest]])

Validated(fs, rel) == fs["profile"].rel = Absent \/ Survives(fs, rel)

Stopped == lock = Free /\ \A p \in Processes : task[p].at \in {"idle", "down"}
                                              /\ engine[p].at = "idle"

(* The copy of a complete user is published as it is, without opening it.    *)
Published(scope) == IF scope = "relationship" THEN Opened(Erased(files)) ELSE ErasedUser(files)

Erase(scope) ==
    /\ Stopped
    /\ calls < MaxCalls
    /\ Selected
    /\ EraseInterrupted \/ (journal = Nothing /\ Leftovers = {})
    /\ scope = "relationship" => Validated(Published(scope), files["profile"].rel)
    /\ files' = Published(scope)
    /\ journal' = IF scope = "relationship" THEN Nothing ELSE journal
    /\ calls' = calls + 1
    /\ task' = [p \in Processes |-> [Idle EXCEPT !.at = "down"]]
    /\ gone' = TRUE
    /\ UNCHANGED <<lock, crashes, faults, engine, guards>>

(* What any other step does to what was erased: a call of the engine may     *)
(* bring something new.                                                      *)
Keeps == gone' = (gone /\ calls' = calls)
=============================================================================
