------------------------------ MODULE MCParts ------------------------------
(***************************************************************************)
(* The parts that share no state with each other, one after the other in    *)
(* one run.  Of the server: the session broker, the start, the pages.  Of   *)
(* the core: the ring of group-audio keys, one direction of a pairwise      *)
(* session, the watchdogs.  Of the desktop client: keys and controllers,    *)
(* the volume of other applications, the guards of the commands, the audio  *)
(* rig, and the stages its samples pass.                                   *)
(***************************************************************************)
EXTENDS SessionBroker, ServerStart, WebPages,
        KeyRing, PairSession, LinkWatch,
        PushToTalk, Ducking, Boundary, AudioPipe, MCVoiceChain

VARIABLE part

\* The broker runs twice: guessing without members, for a shorter time, and
\* members with at most one PIN try.
Guessing == BrokerNext /\ occupied' = {} /\ now' < MaxTime - 2
Meeting == BrokerNext /\ \A i \in Ip : Len(pin_tries'[i]) <= 1

Boot(starts, kills, edits, requests) ==
    [starts |-> starts, kills |-> kills, edits |-> edits, requests |-> requests]

\* Kills and removed files; settings and joins with a token minted before.
NoBoot == Boot(0, 0, 0, 0)
Boots == {Boot(4, 3, 2, 0), Boot(2, 1, 3, 2), NoBoot}

\* Long enough for two rebuilds and the warning; or for two keyless episodes.
Outages == {[ticks |-> 12, events |-> 3], [ticks |-> 6, events |-> 4]}
NoOutage == [ticks |-> 0, events |-> 0]
Watches == Outages \cup {NoOutage}

Press(packets, ops, ctl) == [packets |-> packets, ops |-> ops, ctl |-> ctl]

\* Keys; keys and a user who binds, mutes and latches; controllers, with and
\* without that user; both.  The last one is for the other parts.
NoPress == Press(0, 0, 0)
Desk == {Press(4, 1, 0), Press(1, 2, 0), Press(0, 1, 3), Press(0, 0, 4),
         Press(1, 0, 3), NoPress}

NoEdges == [edges |-> 0, moves |-> 0]
Voices == {[edges |-> 4, moves |-> 2], NoEdges}

Rig(blocks, frames, clicks, ticks, rigs) ==
    [blocks |-> blocks, frames |-> frames, clicks |-> clicks,
     ticks |-> ticks, rigs |-> rigs]

\* Capture past the bound; with two requests of the user; peers that come and go;
\* playback with one request.
NoRig == Rig(0, 0, 0, 0, 0)
Rigs == {Rig(3, 0, 0, 0, 1), Rig(2, 0, 2, 0, 1), Rig(0, 3, 0, 1, 1),
         Rig(0, 2, 0, 3, 1), Rig(0, 1, 1, 0, 1), NoRig}

\* Numbers around the limits of the knobs, in thousandths.
Numbers == {-1, 0, 5, 1000, 1000000000}

AnyCall == CHOOSE c \in Call : TRUE

IdlePages ==
    /\ site = [base |-> "https", here |-> "https"]
    /\ visitor = [accept |-> <<>>, cookie |-> Unset]
    /\ shown = [lang |-> Unset, ui |-> Unset] /\ chosen = shown
    /\ links = 0 /\ doc = [lines |-> <<>>, html |-> <<>>, in_ul |-> FALSE]

PartsInit ==
    /\ part \in {"guessing", "meeting", "boot", "pages", "ring", "pair", "watchdogs",
                "keys", "ducking", "guards", "audio", "voice"}
    /\ BrokerInit /\ Init /\ PairInit
    /\ BootInit /\ (part = "boot" <=> bootBudget # NoBoot)
    /\ IF part = "pages" THEN WebInit ELSE IdlePages
    /\ LwInit /\ (part = "watchdogs" <=> lwBudget # NoOutage)
    /\ PttInit /\ (part = "keys" <=> pttBudget # NoPress)
    /\ DuckInit /\ (part = "ducking" <=> duckBudget # NoEdges)
    /\ IF part = "guards" THEN BoundaryInit ELSE call = AnyCall /\ got = "asked"
    /\ AuInit /\ (part = "audio" <=> auBudget # NoRig)
    /\ VcInit /\ (part = "voice" <=> vcBudget # NoStages)
    /\ vcBudget.resample = 0 => res.pace = [src |-> 1, dst |-> 1]

serverVars == <<brokerVars, bootVars, webVars>>
coreVars == <<ringVars, pairVars, lwVars>>
shellVars == <<pttVars, duckVars, boundaryVars, auVars, vcVars>>

ServerParts ==
    \/ part = "guessing" /\ Guessing /\ UNCHANGED <<bootVars, webVars>>
    \/ part = "meeting" /\ Meeting /\ UNCHANGED <<bootVars, webVars>>
    \/ part = "boot" /\ BootNext /\ UNCHANGED <<brokerVars, webVars>>
    \/ part = "pages" /\ WebNext /\ UNCHANGED <<brokerVars, bootVars>>

CoreParts ==
    \/ part = "ring" /\ Next /\ UNCHANGED <<pairVars, lwVars>>
    \/ part = "pair" /\ PairNext /\ UNCHANGED <<ringVars, lwVars>>
    \/ part = "watchdogs" /\ LwNext /\ UNCHANGED <<ringVars, pairVars>>

ShellParts ==
    \/ part = "keys" /\ PttNext /\ UNCHANGED <<duckVars, boundaryVars, auVars, vcVars>>
    \/ part = "ducking" /\ DuckNext /\ UNCHANGED <<pttVars, boundaryVars, auVars, vcVars>>
    \/ part = "guards" /\ BoundaryNext /\ UNCHANGED <<pttVars, duckVars, auVars, vcVars>>
    \/ part = "audio" /\ AuNext /\ UNCHANGED <<pttVars, duckVars, boundaryVars, vcVars>>
    \/ part = "voice" /\ VcNext /\ UNCHANGED <<pttVars, duckVars, boundaryVars, auVars>>

PartsNext ==
    /\ UNCHANGED part
    /\ \/ ServerParts /\ UNCHANGED <<coreVars, shellVars>>
       \/ CoreParts /\ UNCHANGED <<serverVars, shellVars>>
       \/ ShellParts /\ UNCHANGED <<serverVars, coreVars>>

PartsSpec == PartsInit /\ [][PartsNext]_<<part, serverVars, coreVars, shellVars>>
=============================================================================
