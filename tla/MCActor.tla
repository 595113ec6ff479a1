------------------------------ MODULE MCActor -------------------------------
(* ActorRuntime on small instances: two agents; two calls with every kind  *)
(* of method, three where one agent's method is called again and again.    *)
EXTENDS ActorRuntime

CONSTANTS agentA, agentB

When(faults, methods, n) == [faults |-> faults, methods |-> methods, calls |-> n]

Gen == {<<agentA, "generated">>}
TwoAgents == Gen \cup {<<agentB, "generated">>}
WithCode == Gen \cup {<<agentA, "code">>}
WithTemplate == Gen \cup {<<agentB, "template">>}

Wide == {When({"cancel"}, WithCode, 3), When({"restart"}, WithTemplate, 3),
         When({"straggler"}, Gen, 3)}
Calm == {When({}, TwoAgents, 3)}
Scenes == {When({}, WithTemplate, 2), When({}, Gen, 3),
           When({"cancel"}, WithCode, 2),
           When({"straggler"}, TwoAgents, 2),
           When({"restart"}, Gen, 3)}
=============================================================================
