CONSTANTS
  Callers = {c1, c2}
  TurnIds = {t1}
  Openings = {u1, u2}
  Outcomes <- MCOutcomes
  Replies = {r1}
  Reasons = {a1}
  Attempts <- MCAttempts
  Authorities = {manifest, growth}
  Manifest = manifest
  NoOpening = NoOpening
  NoBaseline = NoBaseline
  NoPayload = NoPayload
  Nobody = Nobody
  Offered = {"begin", "record", "complete", "abandon", "attempt", "adjudicate_source", "adjudicate_turn"}
  Driver = "sqlite"
SPECIFICATION Spec
INVARIANTS NamesAreCanonical
PROPERTIES ImplementsPromise AuthorityIsCurrent
SYMMETRY Symmetry
