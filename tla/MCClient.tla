------------------------------ MODULE MCClient ------------------------------
(***************************************************************************)
(* What must eventually happen, on both sides, one part after the other:    *)
(* the member lists of the server's clients; ClientSession on two calls of  *)
(* connect or serverless, and the self-check; the end of an audio rig.      *)
(***************************************************************************)
EXTENDS InitServer, ClientSession, AudioPipe

VARIABLE part

\* One client sends for longer than a rate window.
Sender == CHOOSE s \in Socket : TRUE
OneSender == {[s \in Socket |-> [sent |-> 0, windows |-> IF s = Sender THEN 1 ELSE 0]]}

Scene(mesh, calls, faults, clicks, probes) ==
    [mesh |-> mesh, direct |-> calls, faults |-> faults,
     clicks |-> clicks, probes |-> probes]

NoScene == Scene(0, 0, 0, 0, 0)

\* Two sessions; one of either kind; one whose signaling keeps failing; the
\* self-check.
Sessions == {Scene(2, 0, 1, 2, 0), Scene(1, 1, 1, 1, 0),
             Scene(1, 0, 5, 1, 0), Scene(0, 0, 0, 0, 1), NoScene}

\* A session the server refuses.
Refusal == {Scene(1, 0, 1, 0, 0), NoScene}

\* A little captured, and one click.
Rig(blocks, frames, clicks, rigs) ==
    [blocks |-> blocks, frames |-> frames, clicks |-> clicks,
     ticks |-> 0, rigs |-> rigs]
NoRig == Rig(0, 0, 0, 0)
Rigs == {Rig(1, 0, 1, 1), NoRig}
NoRigs == {NoRig}

ClientInit ==
    /\ part \in {"lists", "session", "rig"}
    /\ Init /\ ClInit /\ AuInit
    /\ part = "session" <=> clBudget # NoScene
    /\ part = "rig" <=> auBudget # NoRig

ClientNext ==
    /\ UNCHANGED part
    /\ \/ part = "lists" /\ Next /\ UNCHANGED <<clVars, auVars>>
       \/ part = "session" /\ ClNext /\ UNCHANGED <<vars, auVars>>
       \/ part = "rig" /\ AuNext /\ UNCHANGED <<vars, clVars>>

\* The fair actions of a part that does not run are never enabled.
ClientSpec ==
    /\ ClientInit /\ [][ClientNext]_<<part, vars, clVars, auVars>>
    /\ Fairness /\ ClFair /\ AuFair

\* The session alone, for what it may never do.
SessionSpec ==
    /\ ClientInit /\ part = "session"
    /\ [][ClientNext]_<<part, vars, clVars, auVars>>
=============================================================================
