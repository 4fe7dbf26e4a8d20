--------------------------- MODULE MCSetupBackend ---------------------------
(* SetupBackend with two of the four command lines.                         *)
EXTENDS SetupBackend

MCOptions ==
    {[allow |-> FALSE, skip |-> FALSE], [allow |-> TRUE, skip |-> TRUE]}
==============================================================================
