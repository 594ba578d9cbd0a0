---------------------------- MODULE AtomicStore ----------------------------
(* What FileStorage promises to the callers of execute_memory_pack_write: a  *)
(* whole-pack operation takes effect at one instant or not at all, and its   *)
(* caller is not told otherwise.  Any other method decides once what it will *)
(* write and replaces these documents one by one, in order, until it is done *)
(* or gives up; meanwhile nobody else changes anything, and nothing but the  *)
(* writes of somebody's own operation ever changes a document.               *)
EXTENDS Sequences

CONSTANTS Processes,      \* engines, in one process or in several
          Plans(_, _),    \* Plans(op, store): the writes op may decide on when it finds store
          Updates(_, _),  \* Updates(op, store): the stores op may turn store into
          AtOnce(_),      \* AtOnce(store): every operation on store is one transaction
          Resets(_)       \* Resets(store): what an offline erasure leaves of store

VARIABLES store,    \* [documents -> contents], as committed
          asked,    \* asked[p]: the operation p runs, or what p idles with
          left,     \* left[p]: the writes a plain operation of p still has to make
          applied,  \* applied[p]: the whole-pack operation of p has taken effect
          answer,   \* answer[p]: what the last whole-pack operation of p returned
          broken    \* the store has lost what the promise rests on

vars == <<store, asked, left, applied, answer, broken>>

Init == /\ left = [p \in Processes |-> <<>>]
        /\ applied = [p \in Processes |-> FALSE]
        /\ answer = [p \in Processes |-> "none"]
        /\ broken = FALSE

Alone(p) == \A q \in Processes \ {p} : left[q] = <<>>

(* p starts another operation, or dies and gives it up.                      *)
Ask(p) == /\ UNCHANGED store
          /\ \A q \in Processes \ {p} : asked'[q] = asked[q]
          /\ left' = [left EXCEPT ![p] = <<>>]
          /\ applied' = [applied EXCEPT ![p] = FALSE]
          /\ answer' = [answer EXCEPT ![p] = "none"]

(* A plain operation reads and decides.                                      *)
Decide(p) == /\ ~asked[p].whole /\ ~AtOnce(store)
             /\ Alone(p) /\ left[p] = <<>>
             /\ \E plan \in Plans(asked[p], store) : left' = [left EXCEPT ![p] = plan]
             /\ UNCHANGED <<store, asked, applied, answer>>

(* It makes its next write.  When that fails after all it may be made again, *)
(* or the rest is given up.                                                  *)
Replace(p) == /\ Alone(p) /\ left[p] # <<>>
              /\ LET write == Head(left[p])
                 IN  /\ write.failing # "denied"
                     /\ store' = [store EXCEPT ![write.file] = write.to]
              /\ \E rest \in {left[p], Tail(left[p]), <<>>} : left' = [left EXCEPT ![p] = rest]
              /\ UNCHANGED <<asked, applied, answer>>

(* It does without a write it does not mind, or without all that are left.   *)
Forgo(p) == /\ left[p] # <<>>
            /\ \/ left' = [left EXCEPT ![p] = <<>>]
               \/ /\ Head(left[p]).failing = "ignore"
                  /\ left' = [left EXCEPT ![p] = Tail(@)]
            /\ UNCHANGED <<store, asked, applied, answer>>

(* The plain operation of a database, at once.                               *)
Transact(p) == /\ ~asked[p].whole /\ AtOnce(store)
               /\ store' \in Updates(asked[p], store)
               /\ UNCHANGED <<asked, left, applied, answer>>

(* The whole operation, at once; its caller may learn of it in the same step.*)
Apply(p) == /\ asked[p].whole /\ ~applied[p] /\ Alone(p)
            /\ store' \in Updates(asked[p], store)
            /\ applied' = [applied EXCEPT ![p] = TRUE]
            /\ answer' \in {answer} \cup {[answer EXCEPT ![p] = r] : r \in {"done", "error"}}
            /\ UNCHANGED <<asked, left>>

(* "done" means applied, a refusal means not; an "error" may be either.  *)
Answer(p) == /\ \E r \in {"done", "rejected", "changed", "error"} :
                  /\ r = "done" => applied[p]
                  /\ r \in {"rejected", "changed"} => ~applied[p]
                  /\ answer' = [answer EXCEPT ![p] = r]
             /\ UNCHANGED <<store, asked, left, applied>>

(* While nobody is at work the store is exchanged for one that holds less.   *)
Reset == /\ store' \in Resets(store)
         /\ \A p \in Processes : left[p] = <<>>
         /\ applied' = [p \in Processes |-> FALSE]
         /\ answer' = [p \in Processes |-> "none"]
         /\ UNCHANGED left

Operates(p) == \/ Ask(p)
               \/ Decide(p) \/ Replace(p) \/ Forgo(p) \/ Transact(p)
               \/ Apply(p) \/ Answer(p)

Next == \/ /\ ~broken /\ UNCHANGED broken
           /\ Reset \/ \E p \in Processes : Operates(p)
        \/ broken' = TRUE

Spec == Init /\ [][Next]_vars
=============================================================================
