---------------------------- MODULE MCTurnLedger ----------------------------
(* Small instances of TurnLedger for TLC. *)
EXTENDS TurnLedger, TLC

\* A reviewed reply that cites the Manifest, an unreviewed one the host showed, and
\* one it claims as shown although the review failed (which is never valid).
MCOutcomes ==
  LET outcome(review, disposition, excepted, cites) ==
        {[reply |-> r, review |-> review, disposition |-> disposition,
          excepted |-> excepted, cites |-> cites] : r \in Replies}
  IN outcome("reviewed", "shown", FALSE, {Manifest})
     \cup outcome("not_requested", "shown_unreviewed", TRUE, {})
     \cup outcome("failed", "shown", FALSE, {})

MCAttempts == [number: {1}, stage: {"generation", "evaluation"}]

Symmetry == Permutations(Callers)
=============================================================================
