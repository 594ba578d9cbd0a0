------------------------------- MODULE MCReply --------------------------------
(* Two threads and one Turn whose Persona has a voice for sadness where it is*)
(* safe, one for gladness and one for rest, of a canonical continuation.     *)
EXTENDS Reply

CONSTANTS h1, h2

TwoHosts == {h1, h2}
Symmetry == Permutations(TwoHosts)
AllModes == {"off", "compact", "activate", "abandon"}
OneFirst == {1}

Condition(type, value) == [type |-> type, values |-> {value}]
Pattern(scope, conditions) == [scope |-> scope, templates |-> {"t"}, conditions |-> conditions]

SomePatterns ==
    "warm" :> Pattern("character", <<Condition("emotion", "sad"),
                                     Condition("relationship_safety", "high")>>)
      @@ "bright" :> Pattern("character", <<Condition("emotion", "glad")>>)
      @@ "quiet" :> Pattern("canonical", <<Condition("activity", "rest")>>)

Ref(kind, of) == [kind |-> kind, of |-> of, scope |-> "character"]
Rise == [safety |-> 1, tension |-> 0]
Fall == [safety |-> -1, tension |-> 1]

World(mode, observed, infers, memory) ==
    [patterns |-> SomePatterns, premise |-> [mode |-> mode, template |-> "t"],
     refs |-> "claim" :> Ref("claim", "applicable") @@ "warm ref" :> Ref("pattern", "warm")
                @@ "event" :> Ref("event", 1)
                @@ IF memory THEN "memory" :> Ref("node", "memory") ELSE << >>,
     start |-> [safety |-> 1, tension |-> 0], journal |-> <<Rise>>, opened |-> 1,
     observed |-> observed, infers |-> infers, view |-> {"v"}]

SomeWorlds == {World("original", {}, TRUE, TRUE), World("original", {"rest"}, FALSE, FALSE)}
SomeDeltas == {Fall}

Reported(code) == [code |-> code, kind |-> None, signal |-> None, parts |-> 0, canary |-> FALSE,
                   items |-> {}, echoes |-> {}]
Decided(kind, parts, items, echoes) ==
    [code |-> None, kind |-> kind, signal |-> None, parts |-> parts, canary |-> FALSE,
     items |-> items, echoes |-> echoes]
Item(supported, basis) == [supported |-> supported, basis |-> basis, counter |-> {}]

SomeAnswers ==
    {Reported("provider_unavailable"),
     Decided("reply", 1, {Item(TRUE, {"v"})}, {"v"}),
     Decided("reply", 1, {Item(FALSE, {"v"})}, {"w"}),
     Decided("reply", 1, {Item(TRUE, {})}, {}),
     Decided("abstain", 1, {}, {}),
     [Decided("reply", 1, {}, {}) EXCEPT !.signal = "staged"],
     [Decided("reply", 1, {}, {}) EXCEPT !.canary = TRUE]}

Finding(assessment, severity, reason, conflict, voices) ==
    [assessment |-> assessment, severity |-> severity, reason |-> reason,
     basis |-> IF voices = {} THEN {"claim"} ELSE {"claim", "warm ref"},
     conflict |-> conflict, voices |-> voices]

Fine == [axis \in Axes |-> Finding("aligned", "info", "aligned", {}, {})]

SomeJudgements ==
    {Fine,
     [Fine EXCEPT !["identity_values"] = Finding("supported", "info", "supported_new_choice", {}, {}),
                  !["voice_style"] = Finding("review", "advisory", "voice_style_deviation",
                                             {"event"}, {})],
     [Fine EXCEPT !["relationship_scope"] =
                    Finding("supported", "critical", "inherited_intimacy", {"event"}, {})],
     [Fine EXCEPT !["identity_values"] = Finding("supported", "info", "supported_new_choice", {}, {}),
                  !["psychological_causality"] =
                    Finding("review", "warning", "causal_tension", {"event"}, {})],
     [Fine EXCEPT !["voice_style"] =
                    Finding("supported", "info", "supported_contextual_voice", {}, {"warm"})],
     [Fine EXCEPT !["voice_style"] = Finding("aligned", "info", "aligned", {"elsewhere"}, {})]}

Emotion(value, cites) == [value |-> value, cites |-> cites]
SomeInferences == {{Emotion("sad", {"message"})}, {Emotion("glad", {"message"})},
                   {Emotion("angry", {"message"})}}
=============================================================================
