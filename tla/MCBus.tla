------------------------------- MODULE MCBus -------------------------------
(* Two reflexes, one on thoughts and one on everything, and one socket that  *)
(* wants both types.                                                         *)
EXTENDS Bus

CONSTANTS onThought, onAll, thought, reflex, socket

MCAgents == {onThought, onAll}
MCTypes == {thought, reflex}
MCSubscribesTo == [a \in MCAgents |-> IF a = onThought THEN {thought} ELSE {"*"}]
MCEmissions == {<<>>, <<reflex>>}
MCClients == {socket}
MCWanted == [c \in MCClients |-> MCTypes]
MCLimit == [c \in MCClients |-> 2]

=============================================================================
