------------------------------ MODULE AcceptOne ------------------------------
(***************************************************************************)
(* What onioncall.listener.accept_authenticated promises its caller,       *)
(* without threads, queues or locks: of all the sockets that arrive, at    *)
(* most Capacity are examined at once, at most one is ever chosen, and the *)
(* call ends once, with the chosen socket or with an exception.            *)
(***************************************************************************)
EXTENDS Integers, FiniteSets

CONSTANTS Conn, Capacity

VARIABLES phase,     \* phase[c]: what became of connection c
          outcome    \* how the call ended

vars == <<phase, outcome>>

In(p) == {c \in Conn : phase[c] = p}

Init ==
    /\ phase = [c \in Conn |-> "new"]
    /\ outcome = "listening"

Admit(c) ==
    /\ outcome = "listening"
    /\ phase[c] = "new"
    /\ Cardinality(In("pending")) < Capacity
    /\ phase' = [phase EXCEPT ![c] = "pending"]
    /\ UNCHANGED outcome

\* Connections that do not authenticate, or that are not examined.
Drop(lost) ==
    /\ lost \subseteq In("new") \cup In("pending")
    /\ phase' = [c \in Conn |-> IF c \in lost THEN "gone" ELSE phase[c]]
    /\ UNCHANGED outcome

\* The only way to be chosen is to be examined, before anybody else is chosen.
Choose(c) ==
    /\ phase[c] = "pending"
    /\ In("chosen") = {}
    /\ phase' = [phase EXCEPT ![c] = "chosen"]
    /\ UNCHANGED outcome

Return ==
    /\ outcome = "listening"
    /\ In("chosen") # {}
    /\ outcome' = "returned"
    /\ UNCHANGED phase

Raise ==
    /\ outcome = "listening"
    /\ outcome' = "raised"
    /\ UNCHANGED phase

Next ==
    \/ \E c \in Conn : Admit(c) \/ Choose(c)
    \/ \E lost \in SUBSET Conn : Drop(lost)
    \/ Return
    \/ Raise

Spec == Init /\ [][Next]_vars
==============================================================================
