------------------------------ MODULE MCRecall ---------------------------------
(* Persona graphs of two claims, two experiences, two links, a capsule, a    *)
(* template and a pattern; stores of three memories and core memory.         *)
EXTENDS Recall

Scopes == {"character", "canonical"}

FirstClaims ==
    [kind : {"value"}, tier : {"foundation"}, applicable : {TRUE}, scope : {"character"},
     deps : {{}, {"c2"}, {"k1"}, {"l1"}, {"e1"}}]
      \cup [kind : {"voice"}, tier : {"situational"}, applicable : {TRUE},
            scope : Scopes, deps : {{}, {"k1"}, {"t1"}}]

SecondClaims ==
    {[kind |-> "host_directive", tier |-> "foundation", applicable |-> FALSE,
      scope |-> "character", deps |-> {}]}
      \cup [kind : {"lore"}, tier : {"situational"}, applicable : {TRUE},
            scope : Scopes, deps : {{}, {"l2"}}]

SomeLinks ==
    {[from |-> "e1", relation |-> "supports", to |-> "c2"],
     [from |-> "c1", relation |-> "tensions_with", to |-> "c2"],
     [from |-> "c1", relation |-> "relationship_specific", to |-> "t1"]}

Scoped(link, scope) == [from |-> link.from, relation |-> link.relation, to |-> link.to,
                        scope |-> scope]

SomeCapsules ==
    {"k1" :> [claim |-> "c1", experiences |-> {"e2"}, links |-> {"l2"}],
     "k1" :> [claim |-> "c2", experiences |-> {"e1"}, links |-> {"l1"}]}

SomeGraphs ==
    {[claims |-> "c1" :> c1 @@ "c2" :> c2,
      experiences |-> "e1" :> [tier |-> "situational", scope |-> "canonical"]
                        @@ "e2" :> [tier |-> "reference", scope |-> s2],
      links |-> "l1" :> Scoped(l1, IF l1.relation = "tensions_with" THEN "character"
                                   ELSE "canonical")
                  @@ "l2" :> [from |-> "e2", relation |-> "explains", to |-> "c1",
                              scope |-> s2],
      capsules |-> ks,
      templates |-> "t1" :> [experiences |-> {"e1"}, terms |-> "agreed"],
      patterns |-> IF c1.kind = "voice"
                   THEN "p1" :> [scope |-> c1.scope, claims |-> {"c1"}, experiences |-> {},
                                 templates |-> IF c1.scope = "canonical" THEN {"t1"} ELSE {},
                                 conditions |-> {"emotion"}]
                   ELSE << >>] :
        c1 \in FirstClaims, c2 \in SecondClaims, l1 \in SomeLinks, s2 \in Scopes,
        ks \in SomeCapsules}

SomePremises ==
    {[mode |-> "original", template |-> "t1", terms |-> "-", experiences |-> {}],
     [mode |-> "continuation", template |-> "t1", terms |-> "agreed", experiences |-> {"e1"}],
     [mode |-> "continuation", template |-> "t1", terms |-> "others", experiences |-> {"e1"}]}
-----------------------------------------------------------------------------
Memory(kind, schema, turn, archival, text, cost) ==
    [kind |-> kind, schema |-> schema, complete |-> schema = "2", turn |-> turn,
     archival |-> archival, agent |-> FALSE, intact |-> TRUE,
     type |-> IF kind = "node" THEN "fact" ELSE kind, public |-> TRUE, about |-> TRUE,
     text |-> text, cost |-> cost]

Fresh == Memory("node", "2", "open", "coming", "x", 2)
FreshEntry == Memory("timeline", "2", "open", "coming", "w", 1)
Old == Memory("node", "2", "closed", "done", "y", 1)
Forged == [Old EXCEPT !.intact = FALSE]
Legacy == Memory("node", "1", None, None, "x", 2)
Other == [Legacy EXCEPT !.text = "u"]
Aside == [Legacy EXCEPT !.text = "z", !.about = FALSE, !.type = "event", !.public = FALSE]
Spoken == [Memory("node", "1", "shown", "strange", "v", 1) EXCEPT !.agent = TRUE]
Core == [Legacy EXCEPT !.kind = "core", !.type = "core", !.text = "k", !.cost = 1]

Turns == "open" :> [status |-> "open", delivery |-> "aligned"]
           @@ "closed" :> [status |-> "completed", delivery |-> "aligned"]
           @@ "shown" :> [status |-> "completed", delivery |-> "exceptional"]

Ledger == "coming" :> "none" @@ "done" :> "record" @@ "strange" :> "tombstone"

World(a, b, c, steps) ==
    LET all == "a" :> a @@ "b" :> b @@ "c" :> c @@ "k" :> Core
    IN  [artifacts |-> all, order |-> <<"a", "b", "c", "k">>, turns |-> Turns,
         ledger |-> Ledger, steps |-> steps,
         present |-> {i \in DOMAIN all : /\ all[i].archival # "coming"
                                         /\ i = "a" => all[i].archival # None}]

Ask(audience, topk, pertype, budget, reinforce, compat) ==
    [audience |-> audience, topk |-> topk, pertype |-> pertype, budget |-> budget,
     reinforce |-> reinforce, compat |-> compat]

Trivial ==
    [claims |-> "c1" :> [kind |-> "identity", tier |-> "foundation", applicable |-> TRUE,
                         scope |-> "character", deps |-> {}],
     experiences |-> << >>, links |-> << >>, capsules |-> << >>, templates |-> << >>,
     patterns |-> << >>]

Original == [mode |-> "original", template |-> "t1", terms |-> "-", experiences |-> {}]

SomeScenarios ==
    {[candidates |-> SomeGraphs, premises |-> SomePremises, deliveries |-> {"planned", "full"},
      queries |-> {{}, {"c1", "c2", "e1", "e2"}},
      requests |-> {Ask("private", 1, 1, 4, FALSE, FALSE)},
      worlds |-> {World(Old, Old, Old, 0)}],
     [candidates |-> {Trivial}, premises |-> {Original}, deliveries |-> {"planned", "full"},
      queries |-> {{}},
      requests |-> {Ask("private", 2, 2, 4, TRUE, FALSE), Ask("private", 1, 2, 3, TRUE, TRUE),
                    Ask("private", 3, 1, 9, FALSE, FALSE), Ask("public", 2, 2, 3, FALSE, FALSE)},
      worlds |-> {World(a, b, c, 2) : a, b \in {Fresh, Old, Forged, Legacy, Aside},
                                      c \in {FreshEntry, Old, Other, Spoken}}]}
=============================================================================
