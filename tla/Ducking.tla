------------------------------ MODULE Ducking ------------------------------
(***************************************************************************)
(* Lowering other applications while voice is active (desktop shell,        *)
(* module ducking).  The webview sends edges; one worker applies them in    *)
(* order to every audio session the system lists, remembers the volume it   *)
(* found and puts it back.  Volumes are in percent.                         *)
(***************************************************************************)
EXTENDS Integers, Sequences, FiniteSets

CONSTANTS
    App,             \* other applications with an audio session
    Amount,          \* settings of the slider, in percent
    DuckScenario     \* bound: edges and slider moves, sessions that come and go

ASSUME DuckConstants ==
    /\ IsFiniteSet(App) /\ Amount \subseteq 0 .. 100
    /\ DuckScenario \subseteq [edges : Nat, moves : Nat]

VARIABLES
    percent,     \* DUCK_PERCENT
    active,      \* ACTIVE
    edges,       \* edges the worker has yet to apply
    listed,      \* sessions of the default device
    vol,         \* volume of each application
    saved,       \* volumes to put back
    missed,      \* history: not in reach of the worker when volumes went back
    duckBudget

duckVars == <<percent, active, edges, listed, vol, saved, missed, duckBudget>>

Full == 100

DuckInit ==
    /\ percent = 75
    /\ active = FALSE
    /\ edges = <<>>
    /\ listed = App
    /\ vol = [a \in App |-> Full]
    /\ saved = [a \in {} |-> 0]
    /\ missed = {}
    /\ duckBudget \in DuckScenario

DuckSpend(f) == duckBudget[f] > 0 /\ duckBudget' = [duckBudget EXCEPT ![f] = @ - 1]

\* set(): voice starts or ends.
SetDucking(on) ==
    /\ DuckSpend("edges")
    /\ active' = on
    /\ edges' = Append(edges, on)
    /\ UNCHANGED <<percent, listed, vol, saved, missed>>

\* Mutant: the slider lowers even when nobody speaks.
ReapplyAlways == <<TRUE>>

\* The edge a move of the slider sends.
Reapply == IF active THEN <<TRUE>> ELSE <<>>

\* set_amount(): the slider is applied at once while voice is active.
SetDuckAmount(p) ==
    /\ DuckSpend("edges")
    /\ p # percent
    /\ percent' = p
    /\ edges' = edges \o Reapply
    /\ UNCHANGED <<active, listed, vol, saved, missed>>

\* factor() of the volume that was found.
Lowered(v) == (v * (100 - percent)) \div 100

\* What the worker remembers: the first volume it found.
Originals(S) == [a \in S |-> IF a \in DOMAIN saved THEN saved[a] ELSE vol[a]]

\* run(): the sessions in S are served; a call that fails ends the round early.
Lower(S) ==
    /\ vol' = [a \in App |-> IF a \in S THEN Lowered(Originals(S)[a]) ELSE vol[a]]
    /\ saved' = [a \in DOMAIN saved \cup S |-> IF a \in S THEN Originals(S)[a] ELSE saved[a]]
    /\ UNCHANGED missed

Restore(S, failed) ==
    LET back == S \cap DOMAIN saved
    IN /\ vol' = [a \in App |-> IF a \in back THEN saved[a] ELSE vol[a]]
       /\ saved' = [a \in IF failed THEN DOMAIN saved \ back ELSE {} |-> saved[a]]
       /\ missed' = missed \cup (DOMAIN saved \ back)

Apply(S) ==
    /\ edges # <<>>
    /\ edges' = Tail(edges)
    /\ IF Head(edges) THEN Lower(S) ELSE Restore(S, S # listed)
    /\ UNCHANGED <<percent, active, listed, duckBudget>>

\* A session ends, moves to another device, or comes back.
Moves(a) ==
    /\ DuckSpend("moves")
    /\ listed' = IF a \in listed THEN listed \ {a} ELSE listed \cup {a}
    /\ UNCHANGED <<percent, active, edges, vol, saved, missed>>

DuckNext ==
    \/ \E on \in BOOLEAN : SetDucking(on)
    \/ \E p \in Amount : SetDuckAmount(p)
    \/ \E S \in SUBSET listed : Apply(S)
    \/ \E a \in App : Moves(a)

DuckSpec == DuckInit /\ [][DuckNext]_duckVars

-----------------------------------------------------------------------------
\* Every variable has its type; only volumes worth putting back are kept.
DuckTypeOK ==
    /\ percent \in 0 .. 100 /\ active \in BOOLEAN
    /\ listed \subseteq App /\ DOMAIN saved \subseteq App
    /\ vol \in [App -> 0 .. Full]

\* When voice has ended and the worker is done, every application is as loud as
\* before, unless it was out of the worker's reach at that moment.
VolumesComeBack ==
    edges = <<>> /\ ~active => \A a \in App \ missed : vol[a] = Full

\* Lowering never adds up, however often voice starts or the slider moves: what
\* will be put back is what the application had.
NoCompounding == \A a \in DOMAIN saved \ missed : saved[a] = Full

\* Ducking leaves no trace: nothing sinks from one transmission to the next, and
\* everything comes back at the end.
DuckingIsUndone == DuckTypeOK /\ VolumesComeBack /\ NoCompounding
=============================================================================
