------------------------ MODULE PersonaCompilation ------------------------
(* What the storage keeps of a compiled Persona and how it changes: the      *)
(* revisions of a proposal, their decisions, the Manifests that approval     *)
(* makes, and the approval that pins the relationship to one of them by      *)
(* writing two documents under an after-image journal of its own.            *)
(*                                                                           *)
(* One proposal of one Blueprint: compilations holds its revisions in order, *)
(* each [status, by, decider], and the Manifests [rev, by].  Everyone writes *)
(* a candidate of his own, so by stands for the content of a revision; a     *)
(* Manifest's by is who approved it.  Under SQLite the same checks and       *)
(* writes are one transaction.                                               *)
EXTENDS FileStorage, SequencesExt

CONSTANT MaxRevisions     \* bound: revisions of the proposal

ASSUME MaxRevisions \in 1..2

ApprovalJournal(rev) == IF rev = 1 THEN "approval of 1" ELSE "approval of 2"
Documents == {"profile", "registry", "nodes", "core", "timeline", "turns", "ledger",
              "compilations", "receipts", "approval of 1", "approval of 2"}

NoCompilations == [revisions |-> <<>>, manifests |-> {}]
Proposed(who) == [status |-> "pending", by |-> who, decider |-> "nobody"]

Revisions(fs) == fs["compilations"].revisions
Manifests(fs) == fs["compilations"].manifests
Latest(fs) == Len(Revisions(fs))
Status(fs, rev) == Revisions(fs)[rev].status

WithRevisions(fs, revs) == [fs["compilations"] EXCEPT !.revisions = revs]
Decided(fs, rev, to, who) ==
    [Revisions(fs) EXCEPT ![rev].status = to, ![rev].decider = who]

-----------------------------------------------------------------------------
(* save_persona_compilation_proposal without an expected status: a new       *)
(* revision of a parent, or the one that is there already, unchanged.        *)
SaveWrites(rev, proposal, fs) ==
    IF rev <= Latest(fs)
    THEN IF Revisions(fs)[rev] = proposal THEN <<>> ELSE <<Deny("rejected")>>
    ELSE IF rev > Latest(fs) + 1
    THEN <<Deny("rejected")>>
    ELSE <<Put("compilations", WithRevisions(fs, Append(Revisions(fs), proposal)))>>

(* ... and with one: a compare and set of the status.                        *)
DecideWrites(rev, to, who, expected, fs) ==
    IF rev > Latest(fs) \/ Status(fs, rev) # expected
    THEN <<Deny("rejected")>>
    ELSE <<Put("compilations", WithRevisions(fs, Decided(fs, rev, to, who)))>>

(* approve_persona_manifest: a Manifest that is there ends it.               *)
ApproveWrites(rev, who, expected, fs) ==
    IF \E m \in Manifests(fs) : m.rev = rev
    THEN IF [rev |-> rev, by |-> who] \in Manifests(fs) THEN <<>> ELSE <<Deny("rejected")>>
    ELSE IF rev > Latest(fs) \/ Status(fs, rev) # expected
    THEN <<Deny("rejected")>>
    ELSE <<Put("compilations",
               [revisions |-> Decided(fs, rev, "approved", who),
                manifests |-> Manifests(fs) \cup {[rev |-> rev, by |-> who]}])>>

(* bind_relationship_manifest.                                               *)
BindWrites(rev, fs) ==
    IF ~(\E m \in Manifests(fs) : m.rev = rev) \/ fs["profile"].manifest \notin {0, rev}
    THEN <<Deny("rejected")>>
    ELSE IF fs["profile"].manifest = rev THEN <<>>
    ELSE <<Put("profile", [fs["profile"] EXCEPT !.manifest = rev])>>

-----------------------------------------------------------------------------
(* _complete_persona_approval_journal: both after-images, then the journal   *)
(* goes if it can.                                                           *)
Install(image, file, failing) ==
    <<[Put("compilations", image.compilations) EXCEPT !.failing = failing],
      [Put("profile", image.profile) EXCEPT !.failing = failing],
      [Put(file, Absent) EXCEPT !.failing = "ignore"]>>

(* A journal this revision left behind is completed before anything is read. *)
Leftover(rev, fs) ==
    LET file == ApprovalJournal(rev)
    IN  IF fs[file] = Absent THEN <<>> ELSE Install(fs[file], file, "raise")

(* approve_and_bind_persona_manifest refuses another relationship's Manifest,*)
(* a second pin, a revision that was decided otherwise in the meantime and a *)
(* Manifest that differs from the one there is.                              *)
ApprovalRefused(rev, rel, who, expected, fs) ==
    \/ fs["profile"].rel # rel
    \/ fs["profile"].manifest \notin {0, rev}
    \/ rev > Latest(fs)
    \/ Status(fs, rev) # expected
    \/ expected = "approved" /\ Revisions(fs)[rev].decider # who
    \/ \E m \in Manifests(fs) : m.rev = rev /\ m.by # who

ApprovalImage(rev, who, fs) ==
    [compilations |-> [revisions |-> Decided(fs, rev, "approved", who),
                       manifests |-> Manifests(fs) \cup {[rev |-> rev, by |-> who]}],
     profile |-> [fs["profile"] EXCEPT !.manifest = rev]]

\* Faulty: without the journal.
JournalledNever(image, rev) ==
    <<Put("profile", image.profile), Put("compilations", image.compilations)>>

(* A failed installation is tried once more while the journal is there.      *)
Journalled(image, rev) ==
    <<Put(ApprovalJournal(rev), image)>> \o Install(image, ApprovalJournal(rev), "again")

Approval(rev, rel, who, expected, fs) ==
    LET image == ApprovalImage(rev, who, fs)
    IN  IF ApprovalRefused(rev, rel, who, expected, fs) THEN <<Deny("rejected")>>
        ELSE IF image = [compilations |-> fs["compilations"], profile |-> fs["profile"]]
        THEN <<>>
        ELSE IF fs["receipts"] # Absent
        THEN <<Put("compilations", image.compilations), Put("profile", image.profile)>>
        ELSE Journalled(image, rev)

Written(writes, fs) == After(writes, Len(writes), fs)

ApproveAndBind(rev, rel, who, expected, fs) ==
    LET left == Leftover(rev, fs)
    IN  left \o Approval(rev, rel, who, expected, Written(left, fs))

(* FileStorage.__init__ replays every approval journal it finds under the    *)
(* root lock, whatever became of the documents since.                        *)
Replays(fs) == Leftover(1, fs) \o Leftover(2, fs)
=============================================================================
