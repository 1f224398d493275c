--------------------------- MODULE MCCoordinator ---------------------------
(* Constants for checking Coordinator: two requests that share the        *)
(* embedding stage, one of them background, and one generation stream.    *)
EXTENDS Coordinator, TLC

CONSTANTS e1, e2, g1, embedding, generation

MCStageOf == (e1 :> embedding @@ e2 :> embedding @@ g1 :> generation)
MCLimit == [s \in {embedding, generation} |-> 1]

=============================================================================
