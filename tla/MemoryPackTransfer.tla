------------------------ MODULE MemoryPackTransfer ------------------------
(* One Agent x User scope and what the engine does with it around the        *)
(* storage: initialize_relationship, a Turn, an archival, Core Memory, and   *)
(* export_memory and import_memory of a MemoryPack, which read, take the     *)
(* relationship's guard and write in one storage call.                       *)
(*                                                                           *)
(* A Turn, the artifact archived from it and the tombstone of that archival  *)
(* go by one name.  With SQLite a storage call is one transaction and an     *)
(* import leaves a receipt; the receipts document is Absent under            *)
(* FileStorage.                                                              *)
EXTENDS PersonaCompilation

CONSTANTS Packs,       \* the MemoryPacks there are
          TurnIds, Texts,
          Mortal,      \* the processes that may die
          MaxCalls     \* bound: calls of the engine

ASSUME PacksAssumption ==
    \A pack \in Packs : \A s \in {pack.timeline, pack.turns, pack.compilations.revisions} :
        s \in Seq(Range(s))

VARIABLES engine,   \* what each process is doing above the storage
          guards,   \* relationship_processing_guard: who holds it, by relationship
          calls     \* how many calls were made

pvars == <<files, journal, lock, task, crashes, faults, engine, guards, calls>>

(* A relationship is named by the pack that brought it or by who made it.    *)
Known == {"made here"} \cup {pack.rel : pack \in {q \in Packs : q.home}}
Relationships == Processes \cup Known \cup {"remap scope"}

ASSUME NamesAssumption == Absent \notin Relationships

Transactional == files["receipts"] # Absent

NoRelationship == [rel |-> Absent, manifest |-> 0]

(* A new root, or one with a relationship, its first Turn and a proposal.    *)
Started(rel) == [profile |-> [rel |-> rel, manifest |-> 0], registry |-> {rel},
                    turns |-> {[id |-> CHOOSE id \in TurnIds : TRUE,
                                text |-> CHOOSE text \in Texts : TRUE]},
                    compilations |-> [NoCompilations EXCEPT !.revisions = <<Proposed("host")>>]]

(* Nothing of the scope; receipts is Absent under FileStorage.               *)
EmptyStore(receipts) ==
    [f \in Files |->
        CASE f = "profile"      -> NoRelationship
          [] f \in {"registry", "nodes", "turns"} -> {}
          [] f = "timeline"     -> <<>>
          [] f = "ledger"       -> [tombstones |-> {}, artifacts |-> {}]
          [] f = "compilations" -> NoCompilations
          [] f = "receipts"     -> receipts
          [] OTHER              -> Absent]

(* _delete_sqlite_memory_pack_receipts.                                      *)
RevokedReceipts(fs) == IF fs["receipts"] = Absent THEN Absent ELSE {}

MemoryInit ==
    /\ \E receipts \in {Absent, {}}, old \in {<<>>} \cup {Started(r) : r \in Known} :
          files = [f \in Files |-> IF f \in DOMAIN old THEN old[f] ELSE EmptyStore(receipts)[f]]
    /\ engine = [p \in Processes |-> [at |-> "idle"]]
    /\ guards = [r \in Relationships |-> Free]
    /\ calls = 0

-----------------------------------------------------------------------------
(* What the storage methods write.                                           *)

\* Faulty: without that check.
CreatePlansAnyway(op, fs) ==
    {<<Put("profile", [rel |-> op.rel, manifest |-> 0]),
       Put("registry", fs["registry"] \cup {op.rel})>>}

(* create_relationship: an existing profile must be the same one.            *)
CreatePlans(op, fs) ==
    IF fs["profile"].rel = Absent
    THEN {<<Put("profile", [rel |-> op.rel, manifest |-> 0]),
            Put("registry", fs["registry"] \cup {op.rel})>>}
    ELSE {IF fs["profile"].rel = op.rel THEN <<>> ELSE <<Deny("rejected")>>}

(* create_turn_record: the relationship must be registered, and a Turn is    *)
(* never given other content.                                                *)
TurnConflict(turn, fs) == \E t \in fs["turns"] : t.id = turn.id /\ t # turn

TurnPlans(op, fs) ==
    IF op.rel \notin fs["registry"] \/ TurnConflict(op.turn, fs)
    THEN {<<Deny("rejected")>>}
    ELSE {IF op.turn \in fs["turns"] THEN <<>>
          ELSE <<Put("turns", fs["turns"] \cup {op.turn})>>}

(* commit_archival_batch: artifact and receipt in one document.              *)
ArchivePlans(op, fs) ==
    {<<Put("ledger", [tombstones |-> fs["ledger"].tombstones \cup {op.id},
                      artifacts |-> fs["ledger"].artifacts \cup {op.id}])>>}

CorePlans(op, fs) == {<<Put("core", op.by)>>}

(* The operation identity of a receipt: the source and whether it overwrites.*)
Receipt(pack, over) == <<pack.id, over>>

\* Faulty: nobody looks for the receipt.
Unreceipted(pack, over, fs) == FALSE

Receipted(pack, over, fs) == fs["receipts"] # Absent /\ Receipt(pack, over) \in fs["receipts"]

(* A pack may carry the revisions and Manifests of its relationship's        *)
(* Blueprint, and the Manifest it is pinned to.                              *)
Compiled(pack) ==
    pack.compilations.revisions # <<>> \/ pack.compilations.manifests # {}
        \/ pack.compilations.pin # 0

(* Every Manifest was approved, every approval made one, and the pin is one. *)
WellCompiled(pack) ==
    LET revs == pack.compilations.revisions
        made == pack.compilations.manifests
    IN  /\ \A r \in DOMAIN revs :
              /\ revs[r].status = "pending" <=> revs[r].decider = "nobody"
              /\ revs[r].status \in {"approved", "revoked"} <=> \E m \in made : m.rev = r
              /\ revs[r].status = "approved" => [rev |-> r, by |-> revs[r].decider] \in made
        /\ \A m \in made : m.rev \in DOMAIN revs
        /\ \A m, n \in made : m.rev = n.rev => m = n
        /\ pack.compilations.pin # 0 => \E m \in made : m.rev = pack.compilations.pin

(* A stored revision may go on to what the pack says became of it.           *)
GoesOn(old, new) ==
    /\ old.by = new.by
    /\ \/ old = new
       \/ old.status = "pending" /\ new.status # "pending"
       \/ old.status = "approved" /\ new.status = "revoked"

CompilationConflicts(pack, fs) ==
    LET revs == pack.compilations.revisions
        made == pack.compilations.manifests
    IN  \/ ~WellCompiled(pack)
        \/ /\ pack.compilations.pin # 0
           /\ fs["profile"].rel # Absent
           /\ fs["profile"].manifest \notin {0, pack.compilations.pin}
        \/ \E r \in DOMAIN revs \cap DOMAIN Revisions(fs) : ~GoesOn(Revisions(fs)[r], revs[r])
        \/ \E m \in Manifests(fs), n \in made : m.rev = n.rev /\ m # n

(* What the preflight read must read the same under the lock.                *)
Observed(pack) == {"profile"} \cup (IF pack.turns = <<>> THEN {} ELSE {"turns"})
                              \cup (IF pack.ledger = {} THEN {} ELSE {"ledger"})
                              \cup (IF Compiled(pack) THEN {"compilations"} ELSE {})
Current(op, fs) == \A f \in DOMAIN op.seen : op.seen[f] = fs[f]

Restores(pack) == pack.turns # <<>> \/ pack.ledger # {}   \* requires_exact_relationship_restore

Conflicts(pack, fs) ==
    \/ /\ fs["profile"].rel # Absent
       /\ Restores(pack)
       /\ fs["profile"].rel # pack.rel
    \/ \E t \in Range(pack.turns) : TurnConflict(t, fs)
    \/ Compiled(pack) /\ CompilationConflicts(pack, fs)

Target(op, fs) ==
    IF fs["profile"].rel # Absent THEN fs["profile"].rel
    ELSE IF op.pack.home THEN op.pack.rel ELSE op.fresh

CreateTarget(op, fs) ==
    IF fs["profile"].rel # Absent THEN <<>>
    ELSE <<Put("profile", [rel |-> Target(op, fs), manifest |-> op.pack.compilations.pin]),
           Put("registry", fs["registry"] \cup {Target(op, fs)})>>

Registered(op, fs) ==
    Target(op, fs) \in fs["registry"] \/ fs["profile"].rel = Absent

(* execute_memory_pack_persona_compilation: every revision that is missing   *)
(* is saved as pending, then each is decided as it was in the source, the    *)
(* pinned one bound with its approval, and a pin that is left is bound.      *)
MissingRevisions(pack, fs) ==
    LET revs == pack.compilations.revisions
        all == Revisions(fs) \o [i \in 1..(Len(revs) - Latest(fs)) |->
                                    Proposed(revs[Latest(fs) + i].by)]
    IN  [i \in 1..(Len(revs) - Latest(fs)) |->
            Put("compilations", WithRevisions(fs, SubSeq(all, 1, Latest(fs) + i)))]

Approver(pack, rev) == (CHOOSE m \in pack.compilations.manifests : m.rev = rev).by

ImportDecision(pack, rev, fs) ==
    LET new == pack.compilations.revisions[rev]
        now == Status(fs, rev)
        bound == ApproveAndBind(rev, fs["profile"].rel, Approver(pack, rev), now, fs)
        approved == IF now = "pending"
                    THEN ApproveWrites(rev, Approver(pack, rev), "pending", fs) ELSE <<>>
        revoked == IF now = "revoked" THEN <<>>
                   ELSE DecideWrites(rev, "revoked", new.decider, "approved",
                                     Written(approved, fs))
    IN  CASE new.status = "approved" /\ pack.compilations.pin = rev -> bound
          [] new.status = "approved" /\ pack.compilations.pin # rev -> approved
          [] new.status = "revoked"  -> approved \o revoked
          [] new.status = "rejected" /\ now = "pending" ->
                DecideWrites(rev, "rejected", new.decider, "pending", fs)
          [] OTHER -> <<>>

DecisionWrites(pack, fs) ==   \* with the first n revisions decided
    LET writes[n \in 0..Len(pack.compilations.revisions)] ==
            IF n = 0 THEN MissingRevisions(pack, fs)
            ELSE LET before == writes[n - 1]
                 IN  before \o ImportDecision(pack, n, Written(before, fs))
    IN  writes

CompilationWrites(pack, fs) ==
    LET decided == DecisionWrites(pack, fs)[Len(pack.compilations.revisions)]
    IN  decided \o (IF pack.compilations.pin = 0 THEN <<>>
                    ELSE BindWrites(pack.compilations.pin, Written(decided, fs)))

(* Merged by node identity unless the import overwrites.                     *)
Merged(op, fs) == (IF op.over THEN {} ELSE fs["nodes"]) \cup op.pack.nodes

CoreWrites(op, fs) ==
    IF op.pack.core # Absent /\ (op.over \/ fs["core"] = Absent)
    THEN <<Put("core", op.pack.core)>> ELSE <<>>

TimelineWrites(op, fs) ==
    [i \in 1..Len(op.pack.timeline) |->
        Put("timeline", fs["timeline"] \o SubSeq(op.pack.timeline, 1, i))]

NewTurns(turns, fs) ==   \* the writes for those of the first n that are missing
    LET writes[n \in 0..Len(turns)] ==
            IF n = 0 THEN <<>>
            ELSE IF turns[n] \in fs["turns"] THEN writes[n - 1]
            ELSE Append(writes[n - 1],
                        Put("turns", fs["turns"] \cup {turns[m] : m \in 1..n}))
    IN  writes

(* A Turn of an unregistered relationship fails after what was written first.*)
TurnWrites(op, fs) ==
    IF op.pack.turns # <<>> /\ ~Registered(op, fs) THEN <<Deny("rejected")>>
    ELSE NewTurns(op.pack.turns, fs)[Len(op.pack.turns)]

TombstoneWrites(op, fs) ==
    IF op.pack.ledger = {} THEN <<>>
    ELSE <<Put("ledger", [fs["ledger"] EXCEPT !.tombstones = @ \cup op.pack.ledger])>>

ReceiptWrites(op, fs) ==
    IF fs["receipts"] = Absent THEN <<>>
    ELSE <<Put("receipts", fs["receipts"] \cup {Receipt(op.pack, op.over)})>>

(* The batches in the order of _memory_pack_write_batch_order.               *)
PayloadWrites(op, fs) ==
    <<Put("nodes", Merged(op, fs))>> \o CoreWrites(op, fs) \o TimelineWrites(op, fs)
        \o TurnWrites(op, fs) \o TombstoneWrites(op, fs)

(* Transcripts and tombstones are for the relationship they were made in.    *)
WrongTarget(op, fs) == Restores(op.pack) /\ Target(op, fs) # op.pack.rel

(* execute_import: an existing relationship that is not the one whose guard  *)
(* is held sends the import round again.                                     *)
ImportPlans(op, fs) ==
    {IF Receipted(op.pack, op.over, fs) THEN <<>>
     ELSE IF ~Current(op, fs) \/ Conflicts(op.pack, fs) \/ WrongTarget(op, fs) THEN <<Deny("rejected")>>
     ELSE IF fs["profile"].rel \notin {Absent, op.guard} THEN <<Deny("changed")>>
     ELSE LET target == CreateTarget(op, fs)
          IN  target \o (IF Compiled(op.pack)
                         THEN CompilationWrites(op.pack, Written(target, fs)) ELSE <<>>)
                     \o PayloadWrites(op, fs) \o ReceiptWrites(op, fs)}

-----------------------------------------------------------------------------
(* The engine.                                                               *)

Ready(p) == engine[p].at = "idle" /\ task[p].at = "idle" /\ calls < MaxCalls

Start(p, at) ==
    /\ Ready(p)
    /\ calls' = calls + 1
    /\ engine' = [engine EXCEPT ![p] = at]

(* A call that is one storage call.                                          *)
Submit(p) ==
    /\ Start(p, [at |-> "waiting"])
    /\ UNCHANGED <<files, journal, lock, crashes, faults, guards>>

(* initialize_relationship: an existing profile is returned as it is, a new  *)
(* one is made with fresh identities.                                        *)
InitializeRelationship(p) ==
    LET rel == files["profile"].rel
        op == [kind |-> "create", whole |-> FALSE, rel |-> IF rel = Absent THEN p ELSE rel]
    IN  /\ Submit(p)
        /\ IF rel = Absent THEN Call(p, op)
           ELSE task' = [task EXCEPT ![p] = [Idle EXCEPT !.at = "left", !.op = op,
                                                         !.result = "done"]]

BeginTurn(p, id, text) ==
    /\ files["profile"].rel # Absent
    /\ Submit(p)
    /\ Call(p, [kind |-> "turn", whole |-> FALSE, rel |-> files["profile"].rel,
              turn |-> [id |-> id, text |-> text]])

Archive(p, id) ==
    /\ \E t \in files["turns"] : t.id = id
    /\ id \notin files["ledger"].tombstones
    /\ Submit(p)
    /\ Call(p, [kind |-> "archive", whole |-> FALSE, id |-> id])

SetCore(p) ==
    /\ Submit(p)
    /\ Call(p, [kind |-> "core", whole |-> FALSE, by |-> p])

(* The storage call returned, and with it the engine's.                      *)
Returned(p) ==
    /\ engine[p].at = "waiting"
    /\ task[p].at = "left"
    /\ task' = [task EXCEPT ![p] = Idle]
    /\ engine' = [engine EXCEPT ![p] = [at |-> "idle"]]
    /\ UNCHANGED <<files, journal, lock, crashes, faults, guards, calls>>

-----------------------------------------------------------------------------
Step(p, e) == engine' = [engine EXCEPT ![p] = e]
Release(r) == guards' = [guards EXCEPT ![r] = Free]
EngineOnly == UNCHANGED <<files, journal, lock, task, crashes, faults, calls>>

(* import_memory chooses the guard by the profile it reads.                  *)
GuardFor(pack) ==
    IF files["profile"].rel # Absent THEN files["profile"].rel
    ELSE IF pack.home THEN pack.rel ELSE "remap scope"

Import(p, pack, over) ==
    /\ Start(p, [at |-> "import", pack |-> pack, over |-> over, guard |-> GuardFor(pack),
                 tries |-> 1])
    /\ UNCHANGED <<files, journal, lock, task, crashes, faults, guards>>

ImportGuard(p) ==
    /\ engine[p].at = "import"
    /\ guards[engine[p].guard] = Free
    /\ guards' = [guards EXCEPT ![engine[p].guard] = p]
    /\ Step(p, [engine[p] EXCEPT !.at = "guarded"])
    /\ EngineOnly

(* Four times at most.                                                       *)
Again(p) ==
    /\ Release(engine[p].guard)
    /\ Step(p, IF engine[p].tries = 4 THEN [at |-> "idle"]
               ELSE [engine[p] EXCEPT !.at = "import", !.tries = @ + 1,
                                      !.guard = GuardFor(engine[p].pack)])

GuardIsStale(p) ==
    /\ engine[p].at = "guarded"
    /\ files["profile"].rel \notin {Absent, engine[p].guard}
    /\ Again(p)
    /\ EngineOnly

GuardHolds(p) ==
    /\ engine[p].at = "guarded"
    /\ files["profile"].rel \in {Absent, engine[p].guard}
    /\ Step(p, [engine[p] EXCEPT !.at = "checked"])
    /\ EngineOnly /\ UNCHANGED guards

(* Outside every storage lock: a receipt ends the import, a conflict refuses *)
(* it, and otherwise what was read is frozen into the operation.             *)
Preflight(p) ==
    LET pack == engine[p].pack
        ends == Receipted(pack, engine[p].over, files) \/ Conflicts(pack, files)
    IN  /\ engine[p].at = "checked"
        /\ IF ends
           THEN Step(p, [at |-> "idle"]) /\ Release(engine[p].guard) /\ UNCHANGED task
           ELSE /\ Call(p, [kind |-> "import", whole |-> TRUE, pack |-> pack,
                            over |-> engine[p].over, guard |-> engine[p].guard, fresh |-> p,
                            seen |-> [f \in Observed(pack) |-> files[f]]])
                /\ Step(p, [engine[p] EXCEPT !.at = "importing"])
                /\ UNCHANGED guards
        /\ UNCHANGED <<files, journal, lock, crashes, faults, calls>>

Imported(p) ==
    /\ engine[p].at = "importing"
    /\ task[p].at = "left"
    /\ task' = [task EXCEPT ![p] = Idle]
    /\ IF task[p].result = "changed" THEN Again(p)
       ELSE Step(p, [at |-> "idle"]) /\ Release(engine[p].guard)
    /\ UNCHANGED <<files, journal, lock, crashes, faults, calls>>

-----------------------------------------------------------------------------
(* export_memory reads the memories and the profile first and the            *)
(* relationship's journals under its guard.  No read takes the root lock.    *)
Export(p) ==
    /\ Start(p, [at |-> "export",
                 nodes |-> files["nodes"] \cup files["ledger"].artifacts])
    /\ UNCHANGED <<files, journal, lock, task, crashes, faults, guards>>

ExportProfile(p) ==
    /\ engine[p].at = "export"
    /\ Step(p, IF files["profile"].rel = Absent
               THEN [at |-> "assemble", nodes |-> engine[p].nodes, turns |-> {}, ledger |-> {}]
               ELSE [at |-> "export guard", nodes |-> engine[p].nodes,
                     rel |-> files["profile"].rel])
    /\ EngineOnly /\ UNCHANGED guards

\* Faulty: without the guard.
ExportUnguarded(p) ==
    /\ engine[p].at = "export guard"
    /\ Step(p, [engine[p] EXCEPT !.at = "export turns"])
    /\ EngineOnly /\ UNCHANGED guards

ExportGuard(p) ==
    /\ engine[p].at = "export guard"
    /\ guards[engine[p].rel] = Free
    /\ guards' = [guards EXCEPT ![engine[p].rel] = p]
    /\ Step(p, [engine[p] EXCEPT !.at = "export turns"])
    /\ EngineOnly

ExportTurns(p) ==
    /\ engine[p].at = "export turns"
    /\ Step(p, [at |-> "export ledger", nodes |-> engine[p].nodes, rel |-> engine[p].rel,
                turns |-> {t.id : t \in files["turns"]}])
    /\ EngineOnly /\ UNCHANGED guards

ExportLedger(p) ==
    /\ engine[p].at = "export ledger"
    /\ Step(p, [at |-> "assemble", nodes |-> engine[p].nodes, turns |-> engine[p].turns,
                ledger |-> files["ledger"].tombstones])
    /\ Release(engine[p].rel)
    /\ EngineOnly

(* validate_memory_pack_archival_evidence: every artifact has its Turn and   *)
(* its tombstone in the pack.                                                *)
Closes(pack) == pack.nodes \subseteq pack.turns /\ pack.nodes \subseteq pack.ledger

Assemble(p) ==
    /\ engine[p].at = "assemble"
    /\ Step(p, [at |-> "idle"])
    /\ EngineOnly /\ UNCHANGED guards

-----------------------------------------------------------------------------
(* SQLite: the storage call is one transaction, and its caller may not hear  *)
(* that it was committed.                                                    *)
Denied(plan) == \E i \in DOMAIN plan : plan[i].failing = "denied"
Reason(plan) == plan[CHOOSE i \in DOMAIN plan : plan[i].failing = "denied"].to

Transact(p) ==
    /\ At(p, "wait")
    /\ Transactional
    /\ lock = Free
    /\ \E plan \in Plans(task[p].op, files) :
          IF Denied(plan)
          THEN /\ Leave(p, Reason(plan))
               /\ UNCHANGED <<files, faults>>
          ELSE \/ /\ files' = After(plan, Len(plan), files)
                  /\ \/ task' = [task EXCEPT ![p].at = "left", ![p].applied = Whole(p),
                                             ![p].result = "done"] /\ UNCHANGED faults
                     \/ task' = [task EXCEPT ![p].at = "left", ![p].applied = Whole(p),
                                             ![p].result = "error"] /\ Fault
                  /\ UNCHANGED lock
               \/ Fault /\ Leave(p, "error") /\ UNCHANGED files
    /\ UNCHANGED <<journal, crashes>>

MemoryStep(p) ==
    \/ InitializeRelationship(p)
    \/ \E id \in TurnIds, text \in Texts : BeginTurn(p, id, text)
    \/ \E id \in TurnIds : Archive(p, id)
    \/ SetCore(p)
    \/ Returned(p)
    \/ \E pack \in Packs, over \in BOOLEAN : Import(p, pack, over)
    \/ ImportGuard(p) \/ GuardIsStale(p) \/ GuardHolds(p) \/ Preflight(p) \/ Imported(p)
    \/ Export(p) \/ ExportProfile(p) \/ ExportGuard(p) \/ ExportTurns(p) \/ ExportLedger(p)
    \/ Assemble(p)
=============================================================================
