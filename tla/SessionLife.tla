----------------------------- MODULE SessionLife -----------------------------
(***************************************************************************)
(* What a connected session promises whoever started it, the user's side   *)
(* (InteractiveSession) or the browser's (GuiSession) and, for each of its *)
(* workers, what GuiController relies on: it finishes once, whoever ends   *)
(* it; nobody closes its channel before; and run() returns only from a     *)
(* session that is finished, with the channel closed.                      *)
(***************************************************************************)

VARIABLES life,      \* "none", "running", or "over": run() is past its wait
          finished,  \* the session's event
          chan       \* the session's channel: "none", "open" or "closed"

lifeVars == <<life, finished, chan>>

\* There is a session from the beginning, or none yet.
LifeInit ==
    /\ finished = FALSE
    /\ \/ life = "none" /\ chan = "none"
       \/ life = "running" /\ chan = "open"

Begin ==
    /\ life = "none" /\ life' = "running"
    /\ chan' = "open"
    /\ UNCHANGED finished

\* A failed text, CLOSE, an error, or a hangup, which closes the channel with it.
Finish ==
    /\ life = "running" /\ ~finished
    /\ finished' = TRUE
    /\ chan' \in {chan, "closed"}
    /\ UNCHANGED life

\* A hangup closes the channel after it has set the event.
Shut ==
    /\ life = "running" /\ finished
    /\ chan' = "closed"
    /\ UNCHANGED <<life, finished>>

Return ==
    /\ life = "running" /\ finished
    /\ life' = "over"
    /\ chan' = "closed"
    /\ UNCHANGED finished

LifeNext == Begin \/ Finish \/ Shut \/ Return

LifeSpec == LifeInit /\ [][LifeNext]_lifeVars
==============================================================================
