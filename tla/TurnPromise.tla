----------------------------- MODULE TurnPromise -----------------------------
(***************************************************************************)
(* What the Turn lifecycle promises a host, without stores, snapshots or   *)
(* retries: every begin, record, complete and abandon happens at a single  *)
(* instant between its call and its answer, or is refused and changes      *)
(* nothing.  Repeating what was already done is answered with success, and *)
(* only a reply that claims a review may be refused for another reason     *)
(* than the state the Turn is in.                                          *)
(***************************************************************************)
CONSTANTS Callers, TurnIds, Calls, Reviewable(_)

VARIABLES
  record,   \* what is stored of each Turn
  pending   \* the call of each caller, and its answer

vars == <<record, pending>>

Nothing == [status |-> "absent"]
NoCall  == [kind |-> "none"]

\* What a call leaves behind in a Turn it finds in this state, if it may.
Sealed(turn, status, ending) ==
  [status |-> status, opening |-> turn.opening, begun |-> turn.begun, ending |-> ending]

Opened(op)   == [status |-> "open", opening |-> op.opening, begun |-> TRUE]
Recorded(op) == [status |-> "completed", opening |-> op.opening, begun |-> FALSE,
                 ending |-> op.payload]

Result(kind) == IF kind = "complete" THEN "completed" ELSE "abandoned"

\* The Turn already is what the call asks for.
AlreadyDone(turn, op) ==
  /\ turn.status # "absent"
  /\ CASE op.kind = "begin"  -> turn.begun /\ turn.opening = op.opening
       [] op.kind = "record" -> turn = Recorded(op)
       [] OTHER -> turn.status = Result(op.kind) /\ turn.ending = op.payload

\* The call has something to do.
Applicable(turn, op) ==
  turn.status = IF op.kind \in {"begin", "record"} THEN "absent" ELSE "open"

After(turn, op) ==
  CASE op.kind = "begin"  -> Opened(op)
    [] op.kind = "record" -> Recorded(op)
    [] OTHER -> Sealed(turn, Result(op.kind), op.payload)

\* What can be turned away although it is applicable: an id that was used
\* otherwise, and a completion whose review or delivery is not valid.
Refusable(turn, op) ==
  \/ ~AlreadyDone(turn, op) /\ ~Applicable(turn, op)
  \/ Applicable(turn, op) /\ op.kind # "abandon"
  \/ op.kind = "complete" /\ Reviewable(op.payload)

Init ==
  /\ record = [t \in TurnIds |-> Nothing]
  /\ pending = [c \in Callers |-> NoCall]

Answer(c, text) ==
  pending' = [pending EXCEPT ![c] = [kind |-> "answered", answer |-> text]]

Call(c, op) ==
  /\ pending[c] = NoCall
  /\ pending' = [pending EXCEPT ![c] = [kind |-> "asked", op |-> op]]
  /\ UNCHANGED record

Accept(c) ==
  LET op == pending[c].op  turn == record[op.turn] IN
  /\ pending[c].kind = "asked"
  /\ \/ AlreadyDone(turn, op) /\ UNCHANGED record
     \/ Applicable(turn, op) /\ record' = [record EXCEPT ![op.turn] = After(turn, op)]
  /\ Answer(c, "ok")

Refuse(c) ==
  /\ pending[c].kind = "asked"
  /\ Refusable(record[pending[c].op.turn], pending[c].op)
  /\ Answer(c, "no")
  /\ UNCHANGED record

\* The host takes the answer, or gave up before one came.
Leave(c) ==
  /\ pending[c] # NoCall
  /\ pending' = [pending EXCEPT ![c] = NoCall]
  /\ UNCHANGED record

Next == \E c \in Callers :
  (\E op \in Calls : Call(c, op)) \/ Accept(c) \/ Refuse(c) \/ Leave(c)

Spec == Init /\ [][Next]_vars
=============================================================================
