----------------------------- MODULE MCPeerStore -----------------------------
(***************************************************************************)
(* PeerStore with a contact that is created, imported and called by        *)
(* overlapping tasks (alice), and the default contact with two sessions    *)
(* and `init --replace`, which also makes its first key; these overlap or  *)
(* not as the cfg says.                                                    *)
(***************************************************************************)
EXTENDS PeerStore

CONSTANTS alice, createA, importA, callA, listenD, callD, replaceD

MCTask == {createA, importA, callA, listenD, callD, replaceD}

MCKind == [t \in MCTask |->
    CASE t = createA -> "create"
      [] t = importA -> "import"
      [] t = listenD -> "listen"
      [] t \in {callA, callD} -> "call"
      [] t = replaceD -> "replace"]

MCOf == [t \in MCTask |-> IF t \in {createA, importA, callA} THEN alice ELSE Default]
==============================================================================
