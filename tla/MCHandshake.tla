----------------------------- MODULE MCHandshake -----------------------------
(***************************************************************************)
(* Handshake with a pair of its own (c1, s1), a second client of the same  *)
(* device, a server on that very device (a call to oneself), a server that *)
(* holds another secret and one that pins another identity.                *)
(***************************************************************************)
EXTENDS Handshake

CONSTANTS c1, s1, c2, s2, s3, s4, alice, bob, k1, k2

MCSession == {c1, s1, c2, s2, s3, s4}
MCIdentity == {alice, bob}
MCSecret == {k1, k2}

MCRole == [s \in MCSession |-> IF s \in {c1, c2} THEN "client" ELSE "server"]
MCId == [s \in MCSession |-> IF s \in {c1, c2, s2} THEN alice ELSE bob]
MCPsk == [s \in MCSession |-> IF s = s3 THEN k2 ELSE k1]
MCPin == [s \in MCSession |->
             CASE s \in {c1, s4} -> bob [] s \in {s1, s2} -> alice [] OTHER -> Absent]
MCReads == [s \in MCSession |->
               CASE s = c1 -> {s1} [] s = s1 -> {c1} [] s \in {s3, s4} -> {c2}
                 [] OTHER -> MCSession]
==============================================================================
