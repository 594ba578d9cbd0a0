-------------------------- MODULE MCLegacyArchiver --------------------------
(* Small instances of LegacyArchiver for TLC.  The memories do not depend on *)
(* the queue nor the queue on them, so a behaviour begins with every memory  *)
(* minted and forgotten or with every task done.                             *)
EXTENDS LegacyArchiver

MCInit ==
  /\ \E spent \in BOOLEAN :
       /\ status = [t \in Tasks |-> IF spent THEN "completed" ELSE "absent"]
       /\ minted = IF spent THEN 0 ELSE MaxNodes
  /\ attempts = [t \in Tasks |-> 0]
  /\ due = {}
  /\ overdue = {}
  /\ thread = [w \in Threads |-> At("down")]
  /\ running = {}
  /\ nodes = {}
  /\ caller = [c \in Callers |-> [pc |-> "idle", op |-> "recall", seen |-> {}]]
  /\ entries = [t \in Tasks |-> 0]
  /\ trouble = [t \in Tasks |-> {}]

MCSpec == MCInit /\ [][Next]_vars /\ Fairness
=============================================================================
