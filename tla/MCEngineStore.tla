--------------------------- MODULE MCEngineStore ---------------------------
(* Two processes; a pack with an archived Turn and an approved Persona that  *)
(* restores its own scope, one whose Persona was revoked, one whose Persona  *)
(* was rejected, one whose Persona was never approved, and one that comes    *)
(* from another scope.                                                       *)
EXTENDS EngineStore

CONSTANTS p1, p2

None == [revisions |-> <<>>, manifests |-> {}, pin |-> 0]
Approved == [revisions |-> <<[status |-> "approved", by |-> "host", decider |-> "host"]>>,
             manifests |-> {[rev |-> 1, by |-> "host"]}, pin |-> 1]
Revoked == [revisions |-> <<[status |-> "revoked", by |-> "host", decider |-> "other"]>>,
            manifests |-> {[rev |-> 1, by |-> "host"]}, pin |-> 1]
Rejected == [revisions |-> <<[status |-> "rejected", by |-> "host", decider |-> "other"]>>,
             manifests |-> {}, pin |-> 0]
Torn == [revisions |-> <<[status |-> "pending", by |-> "host", decider |-> "nobody"]>>,
         manifests |-> {[rev |-> 1, by |-> "host"]}, pin |-> 1]
First == <<[id |-> "t1", text |-> "x"]>>

SomePacks ==
    {[id |-> "whole", rel |-> "origin", home |-> TRUE, nodes |-> {"t1"}, core |-> "old",
      timeline |-> <<>>, turns |-> First, ledger |-> {"t1"}, compilations |-> Approved],
     [id |-> "revoked", rel |-> "origin", home |-> TRUE, nodes |-> {}, core |-> Absent,
      timeline |-> <<>>, turns |-> First, ledger |-> {}, compilations |-> Revoked],
     [id |-> "rejected", rel |-> "origin", home |-> TRUE, nodes |-> {}, core |-> Absent,
      timeline |-> <<>>, turns |-> First, ledger |-> {}, compilations |-> Rejected],
     [id |-> "torn", rel |-> "origin", home |-> TRUE, nodes |-> {}, core |-> Absent,
      timeline |-> <<>>, turns |-> First, ledger |-> {}, compilations |-> Torn],
     [id |-> "bare", rel |-> "elsewhere", home |-> FALSE, nodes |-> {}, core |-> "older",
      timeline |-> <<"then">>, turns |-> <<>>, ledger |-> {}, compilations |-> None]}
=============================================================================
