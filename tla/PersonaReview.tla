--------------------------- MODULE PersonaReview ---------------------------
(* Review of a compiled Persona by the engine: it reads the proposals        *)
(* without a lock, decides by what it saw and lets the storage compare; and  *)
(* the reopening of a root after its process died.                           *)
EXTENDS MemoryPackTransfer

CONSTANT Reviewers        \* the processes that review

Reviews(p) == p \in Reviewers /\ files["profile"].rel # Absent

ProposePersona(p) ==
    /\ Reviews(p)
    /\ Submit(p)
    /\ Call(p, [kind |-> "save", whole |-> FALSE, rev |-> 1, by |-> p])

RevisePersona(p) ==
    /\ Reviews(p)
    /\ Latest(files) \in 1..(MaxRevisions - 1)
    /\ Status(files, Latest(files)) = "pending"
    /\ Submit(p)
    /\ Call(p, [kind |-> "save", whole |-> FALSE, rev |-> Latest(files) + 1, by |-> p])

DecidePersona(p, to) ==
    /\ Reviews(p)
    /\ Latest(files) > 0
    /\ Status(files, Latest(files)) = IF to = "revoked" THEN "approved" ELSE "pending"
    /\ Submit(p)
    /\ Call(p, [kind |-> "decide", whole |-> FALSE, rev |-> Latest(files), to |-> to, by |-> p,
               expected |-> Status(files, Latest(files))])

(* Approving what is approved binds it again, by the one who approved it.    *)
ApprovePersona(p) ==
    LET rev == Latest(files)
    IN  /\ Reviews(p)
        /\ rev > 0
        /\ \/ Status(files, rev) = "pending"
           \/ Status(files, rev) = "approved" /\ \E m \in Manifests(files) : m.rev = rev
        /\ Submit(p)
        /\ Call(p, [kind |-> "approve", whole |-> FALSE, rel |-> files["profile"].rel,
                   rev |-> rev, expected |-> Status(files, rev),
                   by |-> IF Status(files, rev) = "pending" THEN p
                          ELSE Revisions(files)[rev].decider])

SavePlans(op, fs) == {SaveWrites(op.rev, Proposed(op.by), fs)}
DecidePlans(op, fs) == {DecideWrites(op.rev, op.to, op.by, op.expected, fs)}
ApprovePlans(op, fs) == {ApproveAndBind(op.rev, op.rel, op.by, op.expected, fs)}

-----------------------------------------------------------------------------
(* FileStorage.__init__: recovery of the root, then the approval journals.   *)
OpenPlans(op, fs) == {Replays(fs)}

Reopen(p) ==
    /\ At(p, "down")
    /\ Step(p, [at |-> "opening"])
    /\ Call(p, [kind |-> "open", whole |-> FALSE])
    /\ UNCHANGED <<files, journal, lock, crashes, faults, guards, calls>>

(* A constructor that raises leaves no engine.                               *)
Reopened(p) ==
    /\ engine[p].at = "opening"
    /\ At(p, "left")
    /\ task' = [task EXCEPT ![p] = IF @.result = "error" THEN [Idle EXCEPT !.at = "down"]
                                   ELSE Idle]
    /\ Step(p, [at |-> "idle"])
    /\ UNCHANGED <<files, journal, lock, crashes, faults, guards, calls>>

PersonaStep(p) ==
    \/ ProposePersona(p) \/ RevisePersona(p) \/ ApprovePersona(p)
    \/ \E to \in {"rejected", "revoked"} : DecidePersona(p, to)
    \/ Reopen(p) \/ Reopened(p)
=============================================================================
