----------------------------- MODULE Lifecycle -----------------------------
(* DataLifecycleCoordinator: backup, restore, upgrade, erase, rebuild and    *)
(* MemoryPack import, each planned over an exact content and executed, maybe *)
(* again and again, over names in a file system.  Everything is built under  *)
(* a hidden staging name that an owner file claims for one plan, published by*)
(* a rename that never replaces, and erase and rebuild move the original to a*)
(* hidden recovery name while they do it.  Executors die and calls fail at   *)
(* any step; hosts use the stores only while nobody executes.                *)
EXTENDS SQLiteSchema

CONSTANTS Executors,
          Requests,          \* [op, source, dest, bak, item] a host may ask to plan
          Found,             \* what the visible names hold in the beginning
          NewItems,          \* what hosts write
          Opened,            \* a name that hosts open step by step (StoreOpening)
          MaxPlans, MaxWrites, MaxCrashes, MaxFaults,
          Torn               \* a file or a tree cut off, or removed in part

VARIABLES disk,      \* contents by name, of the names that exist
          plans,     \* the frozen plans that hosts keep
          executor,  \* executor[p]: where p is in execute()
          budget     \* host writes, crashes and faults so far

lvars == <<disk, plans, executor, budget>>

Operations == {"backup", "restore", "upgrade", "erase", "rebuild", "import"}

InPlace(q) == q.op \in {"erase", "rebuild"}
BackupFirst(q) == InPlace(q) \/ q.op = "upgrade"

Has(d, n) == n \in DOMAIN d
Holds(d, n, c) == n \in DOMAIN d /\ d[n] = c
Without(d, n) == [k \in DOMAIN d \ {n} |-> d[k]]
With(d, n, c) == [k \in DOMAIN d \cup {n} |-> IF k = n THEN c ELSE d[k]]
Rename(d, from, to) == With(Without(d, from), to, d[from])

(* Visible names are <<name>>; the hidden ones say which plan they are of.   *)
Staging(n, q) == n \o <<q, "staging">>
Owner(n, q) == n \o <<q, "owner">>
Recovery(q) == q.dest \o <<q, "recovery">>

(* A bundle names its plan, so that no other plan takes it for its own.      *)
Bundle(q) == [plan |-> q, content |-> q.seen]

(* What the plan publishes at its destination.                               *)
Erased(c, q) == [c EXCEPT !.items = @ \ {q.item}, !.view = "fresh"]
Result(q) ==
    CASE q.op = "backup"  -> Bundle(q)
      [] q.op = "restore" -> q.seen.content
      [] q.op = "upgrade" -> [q.seen EXCEPT !.db = Upgraded(@)]
      [] q.op = "erase"   -> Erased(q.seen, q)
      [] q.op = "rebuild" -> [q.seen EXCEPT !.view = "fresh"]
      [] q.op = "import"  -> [db |-> Merged(Fresh, q.seen.timeline), items |-> q.seen.pack,
                             view |-> "fresh"]

Store(c) == c # Torn /\ DOMAIN c = {"db", "items", "view"}
IsCurrent(c) == Store(c) /\ Version(c.db) = Current
Bundled(c) == c # Torn /\ DOMAIN c = {"plan", "content"}

-----------------------------------------------------------------------------
(* Planning reads, and writes nothing.                                       *)
Plannable(r) ==
    /\ Has(disk, r.source)
    /\ CASE r.op = "backup"             -> Store(disk[r.source])
         [] r.op = "restore"            -> Bundled(disk[r.source])
         [] r.op = "upgrade"            -> /\ Store(disk[r.source])
                                           /\ Upgradable(disk[r.source].db)
         [] r.op \in {"erase", "rebuild"} ->
                /\ IsCurrent(disk[r.source])
                /\ r.op = "erase" => r.item \in disk[r.source].items
         [] r.op = "import"             -> /\ disk[r.source] # Torn
                                           /\ Importable(Fresh, disk[r.source].timeline)
    /\ InPlace(r) \/ ~Has(disk, r.dest)
    /\ BackupFirst(r) => ~Has(disk, r.bak)

Plan(r) ==
    /\ Cardinality(plans) < MaxPlans
    /\ Plannable(r)
    /\ plans' = plans \cup {[op |-> r.op, source |-> r.source, dest |-> r.dest, bak |-> r.bak,
                             item |-> r.item, seen |-> disk[r.source]]}
    /\ UNCHANGED <<disk, executor, budget>>

-----------------------------------------------------------------------------
Idle == [at |-> "idle"]

(* executor[p].dir is the name being staged for, todo the names whose staging*)
(* is still to be cleaned, then what comes after.                            *)
Goto(p, label) == executor' = [executor EXCEPT ![p].at = label]
Stage(p, n) == executor' = [executor EXCEPT ![p].at = "clear", ![p].dir = n]
Cleaning(p, names, then) ==
    executor' = [executor EXCEPT ![p].at = "clean", ![p].todo = names, ![p].then = then]
Answer(p, answer) ==
    executor' = [executor EXCEPT ![p] = [at |-> "answered", plan |-> @.plan, answer |-> answer]]
Refuse(p) == Answer(p, "refused") /\ UNCHANGED disk

Locks(q) == IF BackupFirst(q) THEN {q.bak, q.dest} ELSE {q.dest}
Locked(n) == \E p \in Executors : executor[p].at \notin {"idle", "answered"}
                                  /\ n \in Locks(executor[p].plan)

(* A lock that is held is a conflict at once, and dies with its holder.      *)
Execute(p, q) ==
    /\ executor[p].at = "idle"
    /\ q \in plans
    /\ \A n \in Locks(q) : ~Locked(n)
    /\ executor' = [executor EXCEPT ![p] =
           [at |-> IF InPlace(q) THEN "recover" ELSE "look", plan |-> q, dir |-> q.dest,
            todo |-> <<>>, then |-> "none", retried |-> FALSE]]
    /\ UNCHANGED <<disk, plans, budget>>

Backed(q) == Holds(disk, q.bak, Bundle(q))
Unchanged(q) == Holds(disk, q.source, q.seen)

(* What an execution finds first: its plan is done already, or is to be done.*)
Looking(p, op) == executor[p].at = "look" /\ executor[p].plan.op = op
Already(p, names) == Cleaning(p, names, "already") /\ UNCHANGED disk

LookBackup(p) ==
    LET q == executor[p].plan
    IN  /\ Looking(p, "backup")
        /\ CASE Holds(disk, q.dest, Result(q))         -> Already(p, <<q.dest>>)
             [] ~Has(disk, q.dest) /\ Unchanged(q)    -> Stage(p, q.dest) /\ UNCHANGED disk
             [] OTHER                                 -> Refuse(p)

(* A restore reads its bundle, even when nothing is left to be done.         *)
LookRestore(p) ==
    LET q == executor[p].plan
    IN  /\ Looking(p, "restore")
        /\ CASE ~Unchanged(q)                         -> Refuse(p)
             [] Unchanged(q) /\ Holds(disk, q.dest, Result(q)) -> Already(p, <<q.dest>>)
             [] Unchanged(q) /\ ~Has(disk, q.dest)    -> Stage(p, q.dest) /\ UNCHANGED disk
             [] OTHER                                 -> Refuse(p)

LookUpgrade(p) ==
    LET q == executor[p].plan
    IN  /\ Looking(p, "upgrade")
        /\ CASE Holds(disk, q.dest, Result(q)) /\ Backed(q) -> Already(p, <<q.bak, q.dest>>)
             [] ~Has(disk, q.dest) /\ Unchanged(q)    -> Goto(p, "backup") /\ UNCHANGED disk
             [] OTHER                                 -> Refuse(p)

(* An import looks at its destination once everything is staged.             *)
LookImport(p) ==
    LET q == executor[p].plan
    IN  /\ Looking(p, "import")
        /\ IF Unchanged(q) THEN Stage(p, q.dest) /\ UNCHANGED disk ELSE Refuse(p)

\* Faulty: an original that lies aside stays there.
RecoverNothing(p) ==
    /\ executor[p].at = "recover"
    /\ Goto(p, "backup")
    /\ UNCHANGED disk

(* A run that stopped between the two renames left the original aside.       *)
Recover(p) ==
    LET q == executor[p].plan
        aside == Has(disk, Recovery(q)) /\ ~Has(disk, q.dest)
    IN  /\ executor[p].at = "recover"
        /\ \/ /\ ~aside
              /\ Goto(p, "backup")
              /\ UNCHANGED disk
           \/ /\ aside
              /\ Backed(q) /\ Holds(disk, Recovery(q), q.seen)
              /\ disk' = Rename(disk, Recovery(q), q.dest)
              /\ Goto(p, "backup")
           \/ /\ aside
              /\ ~(Backed(q) /\ Holds(disk, Recovery(q), q.seen))
              /\ Refuse(p)

(* _ensure_verified_prechange_backup                                         *)
EnsureBackup(p) ==
    LET q == executor[p].plan
    IN  /\ executor[p].at = "backup" /\ InPlace(q)
        /\ \/ /\ Backed(q)
              /\ executor' = [executor EXCEPT ![p].at = "clean", ![p].todo = <<q.bak>>,
                                              ![p].then = "main", ![p].retried = TRUE]
              /\ UNCHANGED disk
           \/ /\ ~Has(disk, q.bak) /\ Unchanged(q)
              /\ Stage(p, q.bak)
              /\ UNCHANGED disk
           \/ /\ ~Backed(q)
              /\ Has(disk, q.bak) \/ ~Unchanged(q)
              /\ Refuse(p)

(* An upgrade makes its backup itself.                                       *)
BackUpSource(p) ==
    LET q == executor[p].plan
    IN  /\ executor[p].at = "backup" /\ q.op = "upgrade"
        /\ CASE Backed(q)                             -> Cleaning(p, <<q.bak>>, "main") /\ UNCHANGED disk
             [] ~Has(disk, q.bak) /\ Unchanged(q)     -> Stage(p, q.bak) /\ UNCHANGED disk
             [] OTHER                                 -> Refuse(p)

(* Afterwards it looks at its source again.                                  *)
Main(p) ==
    LET q == executor[p].plan
    IN  /\ executor[p].at = "main"
        /\ IF q.op = "upgrade" /\ ~Unchanged(q)
           THEN Refuse(p)
           ELSE Stage(p, q.dest) /\ UNCHANGED disk

-----------------------------------------------------------------------------
(* _prepare_staging: what an earlier run of this plan left is removed, what  *)
(* anyone else's is respected, an owner that cannot be read included.        *)
Clear(p) ==
    LET q == executor[p].plan
        n == executor[p].dir
        left == Has(disk, Staging(n, q)) \/ Has(disk, Owner(n, q))
    IN  /\ executor[p].at = "clear"
        /\ IF left /\ ~Holds(disk, Owner(n, q), q)
           THEN Refuse(p)
           ELSE /\ disk' = Without(disk, Staging(n, q))
                /\ Goto(p, IF left THEN "disown" ELSE "own")

Disown(p) ==
    LET n == executor[p].dir
    IN  /\ executor[p].at = "disown"
        /\ disk' = Without(disk, Owner(n, executor[p].plan))
        /\ Goto(p, "own")

(* The owner file is created, and then written.                              *)
Own(p) ==
    LET n == executor[p].dir
    IN  /\ executor[p].at = "own"
        /\ disk' = With(disk, Owner(n, executor[p].plan), Torn)
        /\ Goto(p, "sign")

Sign(p) ==
    LET n == executor[p].dir
        q == executor[p].plan
    IN  /\ executor[p].at = "sign"
        /\ disk' = With(disk, Owner(n, q), q)
        /\ Goto(p, "build")

Build(p) ==
    LET n == executor[p].dir
    IN  /\ executor[p].at = "build"
        /\ disk' = With(disk, Staging(n, executor[p].plan), Torn)
        /\ Goto(p, "fill")

Staged(n, q) == IF n = q.dest THEN Result(q) ELSE Bundle(q)
Filled(p, next) ==
    LET n == executor[p].dir
        q == executor[p].plan
    IN  disk' = With(disk, Staging(n, q), Staged(n, q)) /\ Goto(p, next)

(* A copy of a source that changes meanwhile fails, or was made before it.   *)
FillBundle(p) ==
    LET n == executor[p].dir
        q == executor[p].plan
    IN  /\ executor[p].at = "fill" /\ Bundled(Staged(n, q))
        /\ \/ Filled(p, "publish")
           \/ /\ ~Unchanged(q)
              /\ Cleaning(p, <<n>>, "refused")
              /\ UNCHANGED disk

FillResult(p, op, next) ==
    /\ executor[p].at = "fill"
    /\ executor[p].plan.op = op /\ executor[p].dir = executor[p].plan.dest
    /\ Filled(p, next)

FillRestored(p) == FillResult(p, "restore", "publish")
FillUpgraded(p) == FillResult(p, "upgrade", "check")
FillImported(p) == FillResult(p, "import", "check")
FillInPlace(p) == FillResult(p, "erase", "check") \/ FillResult(p, "rebuild", "check")

(* Staged and inspected: what is at the destination now?                     *)
CheckSource(p) ==
    LET q == executor[p].plan
    IN  /\ executor[p].at = "check" /\ q.op = "upgrade"
        /\ IF Unchanged(q) /\ Backed(q) THEN Goto(p, "publish")
                                        ELSE Cleaning(p, <<q.dest>>, "refused")
        /\ UNCHANGED disk

CheckImport(p) ==
    LET q == executor[p].plan
    IN  /\ executor[p].at = "check" /\ q.op = "import"
        /\ IF ~Has(disk, q.dest) /\ Unchanged(q)
           THEN Goto(p, "publish")
           ELSE Cleaning(p, <<q.dest>>,
                         IF Holds(disk, q.dest, Result(q)) THEN "already" ELSE "refused")
        /\ UNCHANGED disk

\* Faulty: a finished plan does not look for the original.
CheckInPlaceOnly(p) ==
    LET q == executor[p].plan
    IN  /\ executor[p].at = "check" /\ InPlace(q)
        /\ IF Holds(disk, q.dest, Result(q)) /\ executor[p].retried
           THEN Cleaning(p, <<q.dest>>, "already")
           ELSE IF Unchanged(q) /\ Backed(q) /\ ~Has(disk, Recovery(q))
                THEN Goto(p, "aside")
                ELSE Cleaning(p, <<q.dest>>, "refused")
        /\ UNCHANGED disk

\* Faulty: the store is not compared with the plan again.
CheckInPlaceStale(p) ==
    LET q == executor[p].plan
        finished == Holds(disk, q.dest, Result(q)) /\ executor[p].retried
        kept == Holds(disk, Recovery(q), q.seen)
    IN  /\ executor[p].at = "check" /\ InPlace(q)
        /\ CASE finished /\ kept ->
                  executor' = [executor EXCEPT ![p].at = "discard", ![p].then = "already"]
             [] finished /\ ~Has(disk, Recovery(q)) -> Cleaning(p, <<q.dest>>, "already")
             [] ~finished /\ Has(disk, q.dest) /\ Backed(q) /\ ~Has(disk, Recovery(q)) ->
                  Goto(p, "aside")
             [] OTHER -> Cleaning(p, <<q.dest>>, "refused")
        /\ UNCHANGED disk

CheckInPlace(p) ==
    LET q == executor[p].plan
        finished == Holds(disk, q.dest, Result(q)) /\ executor[p].retried
        kept == Holds(disk, Recovery(q), q.seen)
    IN  /\ executor[p].at = "check" /\ InPlace(q)
        /\ CASE finished /\ kept ->
                  executor' = [executor EXCEPT ![p].at = "discard", ![p].then = "already"]
             [] finished /\ ~Has(disk, Recovery(q)) -> Cleaning(p, <<q.dest>>, "already")
             [] ~finished /\ Unchanged(q) /\ Backed(q) /\ ~Has(disk, Recovery(q)) ->
                  Goto(p, "aside")
             [] OTHER -> Cleaning(p, <<q.dest>>, "refused")
        /\ UNCHANGED disk

(* Erase and rebuild: the original steps aside.                              *)
Aside(p) ==
    LET q == executor[p].plan
    IN  /\ executor[p].at = "aside"
        /\ disk' = Rename(disk, q.dest, Recovery(q))
        /\ Goto(p, "publish")

Publish(p) ==
    LET q == executor[p].plan
        n == executor[p].dir
    IN  /\ executor[p].at = "publish"
        /\ IF Has(disk, n)
           THEN Cleaning(p, <<n>>, "refused") /\ UNCHANGED disk
           ELSE /\ disk' = Rename(disk, Staging(n, q), n)
                /\ Goto(p, "verify")

Verify(p) ==
    LET q == executor[p].plan
        n == executor[p].dir
    IN  /\ executor[p].at = "verify"
        /\ \/ /\ Holds(disk, n, Staged(n, q))
              /\ CASE n # q.dest -> Cleaning(p, <<n>>, "main")
                   [] n = q.dest /\ InPlace(q) ->
                        executor' = [executor EXCEPT ![p].at = "discard", ![p].then = "applied"]
                   [] OTHER -> Cleaning(p, <<n>>, "applied")
              /\ UNCHANGED disk
           \/ /\ ~Holds(disk, n, Staged(n, q))
              /\ Refuse(p)

(* The original goes, file by file.                                          *)
Discard(p) ==
    LET q == executor[p].plan
    IN  /\ executor[p].at = "discard"
        /\ disk' = With(disk, Recovery(q), Torn)
        /\ Goto(p, "discarded")

Discarded(p) ==
    LET q == executor[p].plan
    IN  /\ executor[p].at = "discarded"
        /\ disk' = Without(disk, Recovery(q))
        /\ Cleaning(p, <<q.dest>>, executor[p].then)

(* _cleanup_staging                                                          *)
Clean(p) ==
    LET q == executor[p].plan
        n == Head(executor[p].todo)
    IN  /\ executor[p].at = "clean"
        /\ \/ /\ executor[p].todo = <<>>
              /\ IF executor[p].then = "main" THEN Goto(p, "main") ELSE Answer(p, executor[p].then)
              /\ UNCHANGED disk
           \/ /\ executor[p].todo # <<>>
              /\ Holds(disk, Owner(n, q), q)
              /\ disk' = Without(disk, Staging(n, q))
              /\ Goto(p, "unown")
           \/ /\ executor[p].todo # <<>>
              /\ ~Has(disk, Owner(n, q)) /\ ~Has(disk, Staging(n, q))
              /\ executor' = [executor EXCEPT ![p].todo = Tail(@)]
              /\ UNCHANGED disk
           \/ /\ executor[p].todo # <<>>
              /\ Has(disk, Owner(n, q)) \/ Has(disk, Staging(n, q))
              /\ ~Holds(disk, Owner(n, q), q)
              /\ Refuse(p)

Unown(p) ==
    LET n == Head(executor[p].todo)
    IN  /\ executor[p].at = "unown"
        /\ disk' = Without(disk, Owner(n, executor[p].plan))
        /\ executor' = [executor EXCEPT ![p].at = "clean", ![p].todo = Tail(@)]

Return(p) ==
    /\ executor[p].at = "answered"
    /\ executor' = [executor EXCEPT ![p] = Idle]
    /\ UNCHANGED disk
-----------------------------------------------------------------------------
Spent(kind) == budget' = [budget EXCEPT ![kind] = @ + 1]

(* A call fails, and an exception handler cleans the staging up: not before  *)
(* there is any, and after publishing only for erase and rebuild.            *)
Caught(p) ==
    LET q == executor[p].plan
        inPlace == InPlace(q) /\ executor[p].dir = q.dest
    IN  \/ executor[p].at \in {"build", "fill", "check", "publish"}
        \/ executor[p].at \in {"aside", "verify", "discard", "discarded"} /\ inPlace
        \/ /\ executor[p].at \in {"clean", "unown"}
           /\ \/ executor[p].then \in {"applied", "already"} /\ inPlace
              \/ executor[p].then = "already" /\ q.op = "import"

FaultCaught(p) ==
    /\ Caught(p)
    /\ Cleaning(p, <<executor[p].dir>>, "failed")
    /\ UNCHANGED disk

(* What was written of an owner file stays.                                  *)
FaultOutside(p) ==
    /\ ~Caught(p)
    /\ Answer(p, "failed")
    /\ UNCHANGED disk

(* The second rename fails, or the last inspection: the original is put back.*)
FaultRolledBack(p) ==
    LET q == executor[p].plan
        withdrawn == IF executor[p].at = "verify"
                     THEN Rename(disk, q.dest, Staging(q.dest, q)) ELSE disk
    IN  /\ executor[p].at \in {"publish", "verify"}
        /\ executor[p].dir = q.dest /\ InPlace(q)
        /\ Has(disk, q.dest) <=> executor[p].at = "verify"
        /\ disk' = Rename(withdrawn, Recovery(q), q.dest)
        /\ Cleaning(p, <<q.dest>>, "failed")

Fault(p) ==
    /\ budget.faults < MaxFaults
    /\ executor[p].at \notin {"idle", "answered"}
    /\ FaultOutside(p) \/ FaultCaught(p) \/ FaultRolledBack(p)
    /\ Spent("faults")
    /\ UNCHANGED plans

Crash(p) ==
    /\ budget.crashes < MaxCrashes
    /\ executor[p].at \notin {"idle", "answered"}
    /\ executor' = [executor EXCEPT ![p] = Idle]
    /\ Spent("crashes")
    /\ UNCHANGED <<disk, plans>>

-----------------------------------------------------------------------------
(* Hosts keep away from a store that is being erased or rebuilt, and only    *)
(* from such a one; where nothing is they open an empty store.               *)
HostUse(n) ==
    /\ budget.writes < MaxWrites
    /\ \A p \in Executors : executor[p].at \notin {"idle", "answered"} /\ InPlace(executor[p].plan)
                            => executor[p].plan.dest # n
    /\ \/ /\ ~Has(disk, n)
          /\ disk' = With(disk, n, [db |-> Fresh, items |-> {}, view |-> "fresh"])
       \/ /\ Has(disk, n) /\ IsCurrent(disk[n])
          /\ \E i \in NewItems \ disk[n].items : disk' = [disk EXCEPT ![n].items = @ \cup {i}]
    /\ Spent("writes")
    /\ UNCHANGED <<plans, executor>>

Init ==
    /\ disk = Found
    /\ plans = {}
    /\ executor = [p \in Executors |-> Idle]
    /\ budget = [writes |-> 0, crashes |-> 0, faults |-> 0]

Run(p) ==
    /\ \/ LookBackup(p) \/ LookRestore(p) \/ LookUpgrade(p) \/ LookImport(p)
       \/ Recover(p) \/ EnsureBackup(p) \/ BackUpSource(p) \/ Main(p)
       \/ Clear(p) \/ Disown(p) \/ Own(p) \/ Sign(p) \/ Build(p)
       \/ FillBundle(p) \/ FillRestored(p) \/ FillUpgraded(p) \/ FillImported(p) \/ FillInPlace(p)
       \/ CheckSource(p) \/ CheckImport(p) \/ CheckInPlace(p)
       \/ Aside(p) \/ Publish(p) \/ Verify(p) \/ Discard(p) \/ Discarded(p)
       \/ Clean(p) \/ Unown(p) \/ Return(p)
    /\ UNCHANGED <<plans, budget>>

Live == {r.dest : r \in {x \in Requests : x.op # "backup"}} \ {Opened}

Next == \/ \E r \in Requests : Plan(r)
        \/ \E n \in Live : HostUse(n)
        \/ \E p \in Executors : Run(p) \/ Fault(p) \/ Crash(p) \/ \E q \in plans : Execute(p, q)

Spec == Init /\ [][Next]_lvars

-----------------------------------------------------------------------------
(* Every visible name holds something whole, and an owner file that can be   *)
(* read is its plan's.                                                       *)
TypeOK ==
    /\ \A n \in DOMAIN disk : Len(n) = 1 => disk[n] # Torn
    /\ \A q \in plans : \A n \in Locks(q) :
          Has(disk, Owner(n, q)) => disk[Owner(n, q)] \in {q, Torn}
    /\ \A p \in Executors : executor[p].at # "idle" => executor[p].plan \in plans

(* Executions race, die and are retried, and hosts write in between: what is *)
(* visible under a name is only taken away by an erase or a rebuild that was *)
(* planned over exactly that, when its verified backup lies there and the    *)
(* original goes aside, or that puts the original back; and an original that *)
(* lies aside is only removed when backup and result are both in place.      *)
(* Nothing a host wrote is lost (data_lifecycle.py:855-1523).                *)
MovedAside(q) == /\ disk[q.dest] = q.seen /\ ~Has(disk', q.dest)
                 /\ Holds(disk', Recovery(q), q.seen)
PutBackFor(q) == disk[q.dest] = Result(q) /\ Holds(disk', q.dest, q.seen)

VisibleIsNeverLost ==
    [][ /\ \A n \in DOMAIN disk \ {Opened} :
             Len(n) = 1 /\ ~Holds(disk', n, disk[n]) =>
                 \/ budget'.writes # budget.writes
                 \/ \E q \in plans : /\ InPlace(q) /\ q.dest = n /\ Backed(q)
                                     /\ MovedAside(q) \/ PutBackFor(q)
        /\ \A q \in plans :
             Holds(disk, Recovery(q), q.seen) /\ ~Holds(disk', Recovery(q), q.seen) =>
                 \/ Holds(disk', q.dest, q.seen)
                 \/ Backed(q) /\ Holds(disk, q.dest, Result(q)) ]_lvars

(* When an execution answers that it applied its plan, or that the plan was  *)
(* applied, the backup it promised is there, and of an erased store no other *)
(* copy is left under any name of the plan (data_lifecycle.py:1417-1515).    *)
Answers(p, answer) == executor[p].at # "answered" /\ executor'[p] # Idle
                      /\ executor'[p].at = "answered" /\ executor'[p].answer = answer

SuccessLeavesNothing ==
    [][ \A p \in Executors : Answers(p, "applied") \/ Answers(p, "already") =>
          LET q == executor[p].plan
          IN  /\ BackupFirst(q) => Holds(disk', q.bak, Bundle(q))
              /\ ~Has(disk', Recovery(q))
              /\ \A n \in Locks(q) : ~Has(disk', Staging(n, q)) /\ ~Has(disk', Owner(n, q)) ]_lvars

(* A plan that left its verified backup can be executed again, as long as the*)
(* store is what the plan found or what it makes of it.                      *)
Retryable(q) ==
    /\ InPlace(q) /\ Backed(q)
    /\ \/ Holds(disk, q.dest, q.seen) \/ Holds(disk, q.dest, Result(q))
       \/ ~Has(disk, q.dest) /\ Has(disk, Recovery(q))

TornLeft(q) == \/ \E n \in Locks(q) : Holds(disk, Owner(n, q), Torn)
               \/ Holds(disk, Recovery(q), Torn)

PutBack(q) == Has(disk, Recovery(q)) /\ Holds(disk, q.dest, q.seen)

(* It is refused only over what a crash or a full disk cut off, or when the  *)
(* host put the store back although the original still lies aside.           *)
RefusedOnlyTorn ==
    [][ \A p \in Executors : Answers(p, "refused") /\ Retryable(executor[p].plan)
          => TornLeft(executor[p].plan) \/ PutBack(executor[p].plan) ]_lvars

(* docs/data-lifecycle.md:304: an upgrade, an erase or a rebuild that left a *)
(* matching verified backup can be retried exactly, with the same plan.      *)
RetryIsExact ==
    [][ \A p \in Executors : ~(Answers(p, "refused") /\ Retryable(executor[p].plan)) ]_lvars
=============================================================================
